-------------------------- MODULE Assistant_proofs --------------------------
(***************************************************************************)
(* Proofs about the two ways by which a model acts on the app: the tool    *)
(* calls of the assistant (ToolCalls), for any number of calls and of      *)
(* changes of the permission mode, and the server of the MCP bridge        *)
(* (McpBridge), for any settings and any number of starts; of the bridge,  *)
(* BridgeInv is inductive as it stands.                                    *)
(***************************************************************************)
EXTENDS ToolCalls, McpBridge, TLAPS

(* The part of CallsTypeOK that the argument needs. *)
JudgeTypeOK ==
  /\ work \in [Call -> {"none", "sent", "begun", "assessing", "assessed",
                        "asked", "acting", "over"}]
  /\ risk \in [Call -> Risk \cup {"none"}]
  /\ limits \in [Call -> Mode \cup {"none"}]
  /\ verdict \in [Call -> Risk \cup {"none"}]
  /\ decision \in [Call -> {"none", "approve", "always", "reject"}]
  /\ prefs \in Prefs /\ row \in Prefs
  /\ saving # <<>> => Head(saving) \in Prefs
  /\ allowed \in [Call -> BOOLEAN]

JudgedRight == JudgeTypeOK /\ PresentIsNoted /\ ReadIsNoted

USE CallsAssumption
USE DEF Prefs, Mode, Risk

LEMMA InitJudged == CallsInit => JudgedRight
<1> SUFFICES ASSUME CallsInit PROVE JudgedRight
  OBVIOUS
<1>1. JudgeTypeOK
  BY DEF CallsInit, JudgeTypeOK
<1>2. PresentIsNoted /\ ReadIsNoted
  BY DEF CallsInit, PresentIsNoted, ReadIsNoted
<1> QED
  BY <1>1, <1>2 DEF JudgedRight

USE DEF judgeVars, activityVars, storeVars, httpVars

(* What the task of a call does. *)
LEMMA TaskKeepsJudged ==
  ASSUME JudgedRight, NEW c \in Call, Send(c) \/ TaskStep(c)
  PROVE  JudgedRight'
<1>0. JudgeTypeOK /\ PresentIsNoted /\ ReadIsNoted
  BY DEF JudgedRight
<1>1. CASE Send(c)
  <2>1. JudgeTypeOK'
    BY <1>0, <1>1 DEF Send, JudgeTypeOK
  <2>2. PresentIsNoted'
    BY <1>0, <1>1 DEF Send, JudgeTypeOK, PresentIsNoted, ReadIsNoted, Allows
  <2>3. ReadIsNoted'
    BY <1>0, <1>1 DEF Send, JudgeTypeOK, PresentIsNoted, ReadIsNoted, Allows
  <2> QED
    BY <2>1, <2>2, <2>3 DEF JudgedRight
<1>2. CASE Dispatch(c)
  <2>0. \/ UNCHANGED <<risk, allowed>>
        \/ \E r \in Risk :
             /\ risk' = [risk EXCEPT ![c] = r]
             /\ allowed' = [allowed EXCEPT
                              ![c] = Allows(prefs, c, r) \/ Allows(row, c, r)]
    <3>1. CASE tool[c] = "execute" /\ closed
      BY <1>2, <3>1 DEF Dispatch
    <3>2. CASE ~(tool[c] = "execute" /\ closed)
      <4>1. PICK r \in (IF tool[c] = "execute" THEN Risks ELSE {"high"}) :
              /\ risk' = [risk EXCEPT ![c] = r]
              /\ allowed' = [allowed EXCEPT
                               ![c] = Allows(prefs, c, r) \/ Allows(row, c, r)]
        BY <1>2, <3>2 DEF Dispatch
      <4>2. r \in Risk
        OBVIOUS
      <4> QED
        BY <4>1, <4>2
    <3> QED
      BY <3>1, <3>2
  <2>1. JudgeTypeOK'
    <3>1. work' \in [Call -> {"none", "sent", "begun", "assessing", "assessed",
                              "asked", "acting", "over"}]
      BY <1>0, <1>2 DEF Dispatch, Finish, JudgeTypeOK
    <3>2. risk' \in [Call -> Risk \cup {"none"}]
      BY <1>0, <2>0 DEF JudgeTypeOK
    <3>3. allowed' \in [Call -> BOOLEAN]
      BY <1>0, <2>0 DEF JudgeTypeOK, Allows
    <3>4. UNCHANGED <<limits, verdict, decision, prefs, row, saving>>
      BY <1>2 DEF Dispatch, Finish
    <3> QED
      BY <1>0, <3>1, <3>2, <3>3, <3>4 DEF JudgeTypeOK
  <2>2. PresentIsNoted'
    <3>1. UNCHANGED <<tool, prefs, row>>
      BY <1>2 DEF Dispatch
    <3>2. CASE UNCHANGED <<risk, allowed>>
      BY <1>0, <3>1, <3>2 DEF PresentIsNoted, Allows
    <3>3. ASSUME NEW r \in Risk,
                 risk' = [risk EXCEPT ![c] = r],
                 allowed' = [allowed EXCEPT
                              ![c] = Allows(prefs, c, r) \/ Allows(row, c, r)]
          PROVE  PresentIsNoted'
      <4>1. SUFFICES ASSUME NEW d \in Call, risk'[d] # "none",
                            Allows(prefs', d, risk'[d]) \/ Allows(row', d, risk'[d])
                     PROVE  allowed'[d]
        BY <3>1 DEF PresentIsNoted, Allows
      <4>2. Allows(prefs, d, risk'[d]) \/ Allows(row, d, risk'[d])
        BY <3>1, <4>1 DEF Allows
      <4>3. CASE d = c
        <5>1. risk'[d] = r
          BY <1>0, <3>3, <4>3 DEF JudgeTypeOK
        <5>2. allowed'[d] = (Allows(prefs, d, r) \/ Allows(row, d, r))
          BY <1>0, <3>3, <4>3 DEF JudgeTypeOK
        <5> QED
          BY <4>2, <5>1, <5>2
      <4>4. CASE d # c
        BY <1>0, <3>3, <4>1, <4>2, <4>4 DEF JudgeTypeOK, PresentIsNoted
      <4> QED
        BY <4>3, <4>4
    <3> QED
      BY <2>0, <3>2, <3>3
  <2>3. ReadIsNoted'
    BY <1>0, <1>2 DEF Dispatch, Finish, JudgeTypeOK, PresentIsNoted, ReadIsNoted, Allows
  <2> QED
    BY <2>1, <2>2, <2>3 DEF JudgedRight
<1>3. CASE ReadLimits(c)
  <2>1. JudgeTypeOK'
    BY <1>0, <1>3 DEF ReadLimits, JudgeTypeOK
  <2>2. PresentIsNoted'
    BY <1>0, <1>3 DEF ReadLimits, JudgeTypeOK, PresentIsNoted, ReadIsNoted, Allows
  <2>3. ReadIsNoted'
    BY <1>0, <1>3 DEF ReadLimits, JudgeTypeOK, PresentIsNoted, ReadIsNoted, Allows
  <2> QED
    BY <2>1, <2>2, <2>3 DEF JudgedRight
<1>4. CASE Assess(c)
  <2>1. JudgeTypeOK'
    BY <1>0, <1>4 DEF Assess, Assessed, JudgeTypeOK
  <2>2. PresentIsNoted'
    BY <1>0, <1>4 DEF Assess, Assessed, JudgeTypeOK, PresentIsNoted, ReadIsNoted, Allows
  <2>3. ReadIsNoted'
    BY <1>0, <1>4 DEF Assess, Assessed, JudgeTypeOK, PresentIsNoted, ReadIsNoted, Allows
  <2> QED
    BY <2>1, <2>2, <2>3 DEF JudgedRight
<1>5. CASE AssessFails(c)
  <2>1. JudgeTypeOK'
    BY <1>0, <1>5 DEF AssessFails, Finish, ForgetJudgement, JudgeTypeOK
  <2>2. PresentIsNoted'
    BY <1>0, <1>5 DEF AssessFails, Finish, ForgetJudgement, JudgeTypeOK, PresentIsNoted, ReadIsNoted, Allows
  <2>3. ReadIsNoted'
    BY <1>0, <1>5 DEF AssessFails, Finish, ForgetJudgement, JudgeTypeOK, PresentIsNoted, ReadIsNoted, Allows
  <2> QED
    BY <2>1, <2>2, <2>3 DEF JudgedRight
<1>6. CASE Judge(c)
  <2>1. JudgeTypeOK'
    BY <1>0, <1>6 DEF Judge, Finish, ForgetJudgement, NeedsApproval, RequestApproval, Act, JudgeTypeOK
  <2>2. PresentIsNoted'
    BY <1>0, <1>6 DEF Judge, Finish, ForgetJudgement, NeedsApproval, RequestApproval, Act, JudgeTypeOK, PresentIsNoted, ReadIsNoted, Allows
  <2>3. ReadIsNoted'
    BY <1>0, <1>6 DEF Judge, Finish, ForgetJudgement, NeedsApproval, RequestApproval, Act, JudgeTypeOK, PresentIsNoted, ReadIsNoted, Allows
  <2> QED
    BY <2>1, <2>2, <2>3 DEF JudgedRight
<1>7. CASE ValidateFails(c)
  <2>1. JudgeTypeOK'
    BY <1>0, <1>7 DEF ValidateFails, Finish, ForgetJudgement, JudgeTypeOK
  <2>2. PresentIsNoted'
    BY <1>0, <1>7 DEF ValidateFails, Finish, ForgetJudgement, JudgeTypeOK, PresentIsNoted, ReadIsNoted, Allows
  <2>3. ReadIsNoted'
    BY <1>0, <1>7 DEF ValidateFails, Finish, ForgetJudgement, JudgeTypeOK, PresentIsNoted, ReadIsNoted, Allows
  <2> QED
    BY <2>1, <2>2, <2>3 DEF JudgedRight
<1>8. CASE Authorize(c)
  <2>1. JudgeTypeOK'
    BY <1>0, <1>8 DEF Authorize, Finish, ForgetJudgement, RequestApproval, Act, JudgeTypeOK
  <2>2. PresentIsNoted'
    BY <1>0, <1>8 DEF Authorize, Finish, ForgetJudgement, RequestApproval, Act, JudgeTypeOK, PresentIsNoted, ReadIsNoted, Allows
  <2>3. ReadIsNoted'
    BY <1>0, <1>8 DEF Authorize, Finish, ForgetJudgement, RequestApproval, Act, JudgeTypeOK, PresentIsNoted, ReadIsNoted, Allows
  <2> QED
    BY <2>1, <2>2, <2>3 DEF JudgedRight
<1>9. CASE Resume(c)
  <2>1. JudgeTypeOK'
    <3>1. JudgeTypeOK' \/ ~UNCHANGED storeVars
      BY <1>0, <1>9 DEF Resume, Act, Taken, JudgeTypeOK
    <3>2. CASE ~UNCHANGED storeVars
      <4>1. Update([prefs EXCEPT !.grant = TRUE])
        BY <1>9, <3>2 DEF Resume
      <4>2. [prefs EXCEPT !.grant = TRUE] \in Prefs
        BY <1>0 DEF JudgeTypeOK
      <4>3. prefs' \in Prefs /\ row' \in Prefs
        BY <1>0, <4>1, <4>2 DEF JudgeTypeOK, Update
      <4>5. saving' # <<>> => Head(saving') \in Prefs
        <5>1. CASE UNCHANGED saving
          BY <1>0, <5>1 DEF JudgeTypeOK
        <5>2. CASE \E p \in Prefs : saving' = <<p>>
          <6>1. PICK p \in Prefs : saving' = <<p>>
            BY <5>2
          <6>2. Head(saving') = p
            BY <6>1
          <6> QED
            BY <6>1, <6>2
        <5> QED
          BY <4>1, <4>2, <5>1, <5>2 DEF Update
      <4>4. allowed' \in [Call -> BOOLEAN]
        BY <1>0, <4>1 DEF JudgeTypeOK, Update, InForce, Allows
      <4> QED
        BY <1>0, <1>9, <4>3, <4>4, <4>5 DEF Resume, Act, Taken, JudgeTypeOK
    <3> QED
      BY <3>1, <3>2
  <2>2. PresentIsNoted'
    <3>1. UNCHANGED <<tool, risk>>
      BY <1>9 DEF Resume
    <3>2. CASE UNCHANGED storeVars
      BY <1>0, <3>1, <3>2 DEF PresentIsNoted, Allows
    <3>3. CASE Update([prefs EXCEPT !.grant = TRUE])
      BY <1>0, <3>1, <3>3 DEF JudgeTypeOK, PresentIsNoted, Allows, Update, InForce
    <3> QED
      BY <1>9, <3>2, <3>3 DEF Resume
  <2>3. ReadIsNoted'
    BY <1>0, <1>9 DEF Resume, Act, Taken, Update, InForce, JudgeTypeOK, PresentIsNoted, ReadIsNoted, Allows
  <2> QED
    BY <2>1, <2>2, <2>3 DEF JudgedRight
<1>10. CASE ActEnds(c)
  <2>1. JudgeTypeOK'
    BY <1>0, <1>10 DEF ActEnds, Finish, JudgeTypeOK
  <2>2. PresentIsNoted'
    BY <1>0, <1>10 DEF ActEnds, Finish, JudgeTypeOK, PresentIsNoted, ReadIsNoted, Allows
  <2>3. ReadIsNoted'
    BY <1>0, <1>10 DEF ActEnds, Finish, JudgeTypeOK, PresentIsNoted, ReadIsNoted, Allows
  <2> QED
    BY <2>1, <2>2, <2>3 DEF JudgedRight
<1>11. CASE Returns(c)
  <2>1. JudgeTypeOK'
    BY <1>0, <1>11 DEF Returns, Finish, JudgeTypeOK
  <2>2. PresentIsNoted'
    BY <1>0, <1>11 DEF Returns, Finish, JudgeTypeOK, PresentIsNoted, ReadIsNoted, Allows
  <2>3. ReadIsNoted'
    BY <1>0, <1>11 DEF Returns, Finish, JudgeTypeOK, PresentIsNoted, ReadIsNoted, Allows
  <2> QED
    BY <2>1, <2>2, <2>3 DEF JudgedRight
<1> QED
  BY <1>1, <1>2, <1>3, <1>4, <1>5, <1>6, <1>7, <1>8, <1>9, <1>10, <1>11 DEF TaskStep

(* The user decides and changes the mode, a save ends. *)
LEMMA PrefsKeepJudged ==
  ASSUME JudgedRight,
         \/ \E c \in Call : UserDecides(c)
         \/ \E m \in Mode : SetMode(m)
         \/ \E ok \in BOOLEAN : SaveEnds(ok)
  PROVE  JudgedRight'
<1>0. JudgeTypeOK /\ PresentIsNoted /\ ReadIsNoted
  BY DEF JudgedRight
<1>1. ASSUME NEW c \in Call, UserDecides(c) PROVE JudgedRight'
  <2>1. JudgeTypeOK'
    BY <1>0, <1>1 DEF UserDecides, Decide, JudgeTypeOK
  <2>2. PresentIsNoted'
    BY <1>0, <1>1 DEF UserDecides, Decide, JudgeTypeOK, PresentIsNoted, ReadIsNoted, Allows
  <2>3. ReadIsNoted'
    BY <1>0, <1>1 DEF UserDecides, Decide, JudgeTypeOK, PresentIsNoted, ReadIsNoted, Allows
  <2> QED
    BY <2>1, <2>2, <2>3 DEF JudgedRight
<1>2. ASSUME NEW m \in Mode, SetMode(m) PROVE JudgedRight'
  <2>1. JudgeTypeOK'
    BY <1>0, <1>2 DEF SetMode, Update, InForce, JudgeTypeOK
  <2>2. PresentIsNoted'
    BY <1>0, <1>2 DEF SetMode, Update, InForce, JudgeTypeOK, PresentIsNoted, ReadIsNoted, Allows
  <2>3. ReadIsNoted'
    BY <1>0, <1>2 DEF SetMode, Update, InForce, JudgeTypeOK, PresentIsNoted, ReadIsNoted, Allows
  <2> QED
    BY <2>1, <2>2, <2>3 DEF JudgedRight
<1>3. ASSUME NEW ok \in BOOLEAN, SaveEnds(ok) PROVE JudgedRight'
  <2>1. JudgeTypeOK'
    BY <1>0, <1>3 DEF SaveEnds, InForce, JudgeTypeOK
  <2>2. PresentIsNoted'
    BY <1>0, <1>3 DEF SaveEnds, InForce, JudgeTypeOK, PresentIsNoted, ReadIsNoted, Allows
  <2>3. ReadIsNoted'
    BY <1>0, <1>3 DEF SaveEnds, InForce, JudgeTypeOK, PresentIsNoted, ReadIsNoted, Allows
  <2> QED
    BY <2>1, <2>2, <2>3 DEF JudgedRight
<1> QED
  BY <1>1, <1>2, <1>3

LEMMA StepKeepsJudged == JudgedRight /\ [CallsNext]_callVars => JudgedRight'
<1> SUFFICES ASSUME JudgedRight, [CallsNext]_callVars PROVE JudgedRight'
  OBVIOUS
<1>1. CASE \E c \in Call : Send(c) \/ TaskStep(c)
  BY <1>1, TaskKeepsJudged
<1>2. CASE \/ \E c \in Call : UserDecides(c)
           \/ \E m \in Mode : SetMode(m)
           \/ \E ok \in BOOLEAN : SaveEnds(ok)
  BY <1>2, PrefsKeepJudged
<1>3. CASE \/ ClearFinished \/ ShellFinishes \/ OnOutput \/ MarkerLost
           \/ TimeOut \/ OnClosed \/ UNCHANGED callVars
  <2>1. UNCHANGED <<tool, work, risk, limits, verdict, decision, storeVars>>
    BY <1>3 DEF ClearFinished, ShellFinishes, OnOutput, MarkerLost, TimeOut,
                OnClosed, callVars
  <2> QED
    BY <2>1 DEF JudgedRight, JudgeTypeOK, PresentIsNoted, ReadIsNoted, Allows
<1> QED
  BY <1>1, <1>2, <1>3 DEF CallsNext

(* A call begins to act only from three places: with an assessment and a    *)
(* mode that were read earlier, with the grants read now, or with the       *)
(* user's word.                                                             *)
LEMMA ActsWithLeave ==
  ASSUME JudgedRight, [CallsNext]_callVars, NEW c \in Call,
         work[c] # "acting", work'[c] = "acting"
  PROVE  decision[c] \in {"approve", "always"} \/ allowed[c]
<1>0. JudgeTypeOK /\ PresentIsNoted /\ ReadIsNoted
  BY DEF JudgedRight
<1>1. PICK d \in Call : Send(d) \/ TaskStep(d) \/ UserDecides(d)
  BY DEF CallsNext, callVars, SetMode, SaveEnds, ClearFinished, ShellFinishes,
         OnOutput, MarkerLost, TimeOut, OnClosed
<1>2. Judge(c) \/ Authorize(c) \/ Resume(c)
  BY <1>0, <1>1
     DEF JudgeTypeOK, Send, TaskStep, UserDecides, Decide, Dispatch, Finish,
         ReadLimits, Assess, AssessFails, Judge, ValidateFails, Authorize,
         Resume, Act, RequestApproval, ActEnds, Returns
<1>3. CASE Judge(c)
  BY <1>0, <1>3
     DEF JudgeTypeOK, ReadIsNoted, Judge, Finish, RequestApproval, NeedsApproval
<1>4. CASE Authorize(c)
  BY <1>0, <1>4
     DEF JudgeTypeOK, PresentIsNoted, ReadIsNoted, Allows, Authorize, Finish,
         RequestApproval
<1>5. CASE Resume(c)
  BY <1>0, <1>5 DEF JudgeTypeOK, Resume
<1> QED
  BY <1>2, <1>3, <1>4, <1>5

(* Whatever the order in which modes change, saves end and calls are        *)
(* assessed, no call begins to act that neither the user approved nor       *)
(* preferences allowed which were in force, in memory or in the database,   *)
(* while it was looked at (execute, authorize).                             *)
THEOREM NoCallActsUnapproved == CallsSpec => NothingUnapproved
<1>1. CallsInit => JudgedRight
  BY InitJudged
<1>2. JudgedRight /\ [CallsNext]_callVars => JudgedRight'
  BY StepKeepsJudged
<1>3. JudgedRight /\ [CallsNext]_callVars =>
        [\A c \in Call : work[c] # "acting" /\ work'[c] = "acting" =>
           decision[c] \in {"approve", "always"} \/ allowed[c]]_callVars
  BY ActsWithLeave
<1> QED
  BY <1>1, <1>2, <1>3, PTL DEF CallsSpec, NothingUnapproved
-----------------------------------------------------------------------------
(* The rest of CallsInv.  The queues hold each call once. *)
Elems(s) == {s[i] : i \in DOMAIN s}
Distinct(s) == \A i, j \in DOMAIN s : s[i] = s[j] => i = j

LEMMA AppendElems ==
  ASSUME NEW S, NEW s \in Seq(S), NEW x \in S
  PROVE  /\ Append(s, x) \in Seq(S)
         /\ Elems(Append(s, x)) = Elems(s) \cup {x}
         /\ Distinct(s) /\ x \notin Elems(s) => Distinct(Append(s, x))
<1>1. Append(s, x) \in Seq(S) /\ Len(Append(s, x)) = Len(s) + 1
  OBVIOUS
<1>2. DOMAIN s = 1 .. Len(s) /\ DOMAIN Append(s, x) = 1 .. Len(s) + 1 /\ Len(s) \in Nat
  BY <1>1
<1>3. /\ \A i \in 1 .. Len(s) : Append(s, x)[i] = s[i]
      /\ Append(s, x)[Len(s) + 1] = x
  OBVIOUS
<1>4. Elems(Append(s, x)) = Elems(s) \cup {x}
  <2>1. ASSUME NEW y \in Elems(Append(s, x)) PROVE y \in Elems(s) \cup {x}
    <3>1. PICK i \in 1 .. Len(s) + 1 : y = Append(s, x)[i]
      BY <1>2 DEF Elems
    <3>2. CASE i = Len(s) + 1
      BY <1>3, <3>1, <3>2
    <3>3. CASE i \in 1 .. Len(s)
      BY <1>2, <1>3, <3>1, <3>3 DEF Elems
    <3> QED
      BY <1>2, <3>2, <3>3
  <2>2. ASSUME NEW y \in Elems(s) PROVE y \in Elems(Append(s, x))
    <3>1. PICK i \in 1 .. Len(s) : y = s[i]
      BY <1>2 DEF Elems
    <3>2. i \in 1 .. Len(s) + 1 /\ y = Append(s, x)[i]
      BY <1>2, <1>3, <3>1
    <3> QED
      BY <1>2, <3>2 DEF Elems
  <2>3. x \in Elems(Append(s, x))
    <3>1. Len(s) + 1 \in 1 .. Len(s) + 1
      BY <1>2
    <3> QED
      BY <1>2, <1>3, <3>1 DEF Elems
  <2> QED
    BY <2>1, <2>2, <2>3
<1>5. ASSUME Distinct(s), x \notin Elems(s) PROVE Distinct(Append(s, x))
  <2>1. ASSUME NEW i \in 1 .. Len(s) + 1, NEW j \in 1 .. Len(s) + 1,
               Append(s, x)[i] = Append(s, x)[j]
        PROVE  i = j
    <3>1. \A k \in 1 .. Len(s) : s[k] # x
      BY <1>2, <1>5 DEF Elems
    <3>2. CASE i \in 1 .. Len(s) /\ j \in 1 .. Len(s)
      BY <1>2, <1>3, <1>5, <2>1, <3>2 DEF Distinct
    <3>3. CASE i = Len(s) + 1 \/ j = Len(s) + 1
      BY <1>2, <1>3, <2>1, <3>1, <3>3
    <3> QED
      BY <1>2, <3>2, <3>3
  <2> QED
    BY <1>2, <2>1 DEF Distinct
<1> QED
  BY <1>1, <1>4, <1>5

LEMMA TailElems ==
  ASSUME NEW S, NEW s \in Seq(S), s # <<>>
  PROVE  /\ Head(s) \in S /\ Tail(s) \in Seq(S)
         /\ Elems(s) = Elems(Tail(s)) \cup {Head(s)}
         /\ Distinct(s) => Distinct(Tail(s)) /\ Head(s) \notin Elems(Tail(s))
<1>1. Head(s) \in S /\ Tail(s) \in Seq(S) /\ Len(s) \in Nat /\ Len(s) > 0
  OBVIOUS
<1>2. DOMAIN s = 1 .. Len(s) /\ DOMAIN Tail(s) = 1 .. Len(s) - 1
  BY <1>1
<1>3. /\ \A i \in 1 .. Len(s) - 1 : Tail(s)[i] = s[i + 1]
      /\ Head(s) = s[1]
  BY <1>1
<1>4. ASSUME NEW y \in Elems(s) PROVE y \in Elems(Tail(s)) \cup {Head(s)}
  <2>1. PICK i \in 1 .. Len(s) : y = s[i]
    BY <1>2 DEF Elems
  <2>2. CASE i = 1
    BY <1>3, <2>1, <2>2
  <2>3. CASE i # 1
    <3>1. i - 1 \in 1 .. Len(s) - 1 /\ (i - 1) + 1 = i
      BY <1>1, <2>1, <2>3
    <3>2. y = Tail(s)[i - 1]
      BY <1>3, <2>1, <3>1
    <3> QED
      BY <1>2, <3>1, <3>2 DEF Elems
  <2> QED
    BY <2>2, <2>3
<1>5. ASSUME NEW y \in Elems(Tail(s)) PROVE y \in Elems(s)
  <2>1. PICK i \in 1 .. Len(s) - 1 : y = s[i + 1]
    BY <1>2, <1>3 DEF Elems
  <2>2. i + 1 \in 1 .. Len(s)
    BY <1>1, <2>1
  <2> QED
    BY <1>2, <2>1, <2>2 DEF Elems
<1>6. Head(s) \in Elems(s)
  <2>1. 1 \in 1 .. Len(s)
    BY <1>1
  <2> QED
    BY <1>2, <1>3, <2>1 DEF Elems
<1>7. ASSUME Distinct(s) PROVE Distinct(Tail(s)) /\ Head(s) \notin Elems(Tail(s))
  <2>1. ASSUME NEW i \in 1 .. Len(s) - 1, NEW j \in 1 .. Len(s) - 1,
               Tail(s)[i] = Tail(s)[j]
        PROVE  i = j
    <3>1. i + 1 \in 1 .. Len(s) /\ j + 1 \in 1 .. Len(s) /\ s[i + 1] = s[j + 1]
      BY <1>1, <1>3, <2>1
    <3>2. i + 1 = j + 1
      BY <1>2, <1>7, <3>1 DEF Distinct
    <3> QED
      BY <3>2
  <2>2. ASSUME NEW i \in 1 .. Len(s) - 1 PROVE Tail(s)[i] # Head(s)
    <3>1. i + 1 \in 1 .. Len(s) /\ 1 \in 1 .. Len(s) /\ i + 1 # 1
      BY <1>1, <2>2
    <3> QED
      BY <1>2, <1>3, <1>7, <3>1 DEF Distinct
  <2> QED
    BY <1>2, <2>1, <2>2 DEF Distinct, Elems
<1> QED
  BY <1>1, <1>4, <1>5, <1>6, <1>7

LEMMA EmptyElems == Elems(<<>>) = {} /\ Distinct(<<>>) /\ \A S : <<>> \in Seq(S)
BY DEF Elems, Distinct
-----------------------------------------------------------------------------
(* What CallsInv needs besides: the queue to the main thread holds calls    *)
(* that were sent, a decision or a result is there only while its task      *)
(* waits for it, and a line stands once in the terminal, or its marker in   *)
(* the stream, and is not yet to be started.                                *)
SentRule ==
  /\ Distinct(calls)
  /\ \A c \in Elems(calls) : work[c] = "sent"

DecisionRule == \A c \in Call : decision[c] # "none" => work[c] = "asked"

ResultRule ==
  \A c \in Call : result[c] # "none" => work[c] = "acting" /\ tool[c] = "execute"

TypedRule ==
  /\ Distinct(typed) /\ Elems(typed) \cap Elems(stream) = {}
  /\ \A c \in Elems(typed) \cup Elems(stream) :
       c \notin Queued /\ tool[c] = "execute" /\ work[c] \in {"acting", "over"}

TrackTypeOK ==
  /\ closed \in BOOLEAN
  /\ queue \in Seq(Call) /\ active \in Call \cup {None}
  /\ result \in [Call -> {"none", "completed", "timeout", "closed"}]
  /\ typed \in Seq(Call) /\ stream \in Seq(Call)

Tracked == TrackerIsExact /\ CompletedIsFinished /\ TypedRule /\ ResultRule

InTerminal(c) == tool[c] = "execute" /\ work[c] = "acting"

USE DEF trackerVars, paneVars

LEMMA QueuedElems == Queued = Elems(queue)
BY DEF Queued, Elems

(* A task that neither enters nor leaves the terminal. *)
LEMMA AsideKeepsTracked ==
  ASSUME Tracked, UNCHANGED paneVars,
         \A c \in Call : (InTerminal(c))' = InTerminal(c),
         \A c \in Call : tool[c] = "execute" /\ work[c] \in {"acting", "over"} =>
                           tool'[c] = "execute" /\ work'[c] \in {"acting", "over"},
         TrackTypeOK
  PROVE  Tracked'
<1>1. \A c \in Elems(typed) \cup Elems(stream) : c \in Call
  BY DEF TrackTypeOK, Elems
<1>2. TrackerIsExact'
  BY DEF Tracked, TrackerIsExact, Unsettled, Queued, InTerminal
<1>3. CompletedIsFinished'
  BY DEF Tracked, CompletedIsFinished, Unsettled, Queued
<1>4. TypedRule'
  BY <1>1 DEF Tracked, TypedRule, Queued, Elems, Distinct
<1> QED
  BY <1>2, <1>3, <1>4 DEF Tracked, ResultRule, InTerminal

(* The next command of the queue starts. *)
LEMMA StartNextStarts ==
  ASSUME NEW q \in Seq(Call), NEW a \in Call \cup {None},
         typed \in Seq(Call), stream \in Seq(Call),
         Distinct(q), a \notin Elems(q),
         Distinct(typed), Elems(typed) \cap Elems(stream) = {},
         \A c \in Elems(q) : c \notin Elems(typed) \cup Elems(stream),
         StartNext(q, a)
  PROVE  /\ queue' \in Seq(Call) /\ active' \in Call \cup {None} /\ typed' \in Seq(Call)
         /\ Distinct(queue') /\ active' \notin Elems(queue')
         /\ active' = None => queue' = <<>>
         /\ Elems(queue') \cup ({active'} \ {None}) = Elems(q) \cup ({a} \ {None})
         /\ Distinct(typed') /\ Elems(typed') \cap Elems(stream) = {}
         /\ Elems(typed') \subseteq Elems(typed) \cup Elems(q)
         /\ \A c \in Elems(queue') : c \notin Elems(typed') \cup Elems(stream)
<1>1. CASE a = None /\ q # <<>>
  <2>1. active' = Head(q) /\ queue' = Tail(q) /\ typed' = Append(typed, Head(q))
    BY <1>1 DEF StartNext
  <2>2. /\ Head(q) \in Call /\ Tail(q) \in Seq(Call)
        /\ Elems(q) = Elems(Tail(q)) \cup {Head(q)}
        /\ Distinct(Tail(q)) /\ Head(q) \notin Elems(Tail(q))
    BY <1>1, TailElems
  <2>3. Head(q) \notin Elems(typed)
    BY <2>2
  <2>4. /\ typed' \in Seq(Call) /\ Elems(typed') = Elems(typed) \cup {Head(q)}
        /\ Distinct(typed')
    BY <2>1, <2>2, <2>3, AppendElems
  <2>5. Head(q) # None
    BY <2>2
  <2> QED
    BY <1>1, <2>1, <2>2, <2>4, <2>5, Zenon
<1>2. CASE ~(a = None /\ q # <<>>)
  <2>1. active' = a /\ queue' = q /\ typed' = typed
    BY <1>2 DEF StartNext
  <2> QED
    BY <1>2, <2>1
<1> QED
  BY <1>1, <1>2

LEMMA SubmitKeepsTracked ==
  ASSUME TrackTypeOK, Tracked, NEW c \in Call,
         work \in [Call -> {"none", "sent", "begun", "assessing", "assessed",
                            "asked", "acting", "over"}],
         tool[c] = "execute", work[c] \notin {"acting", "over"},
         work' = [work EXCEPT ![c] = "acting"], UNCHANGED tool, Submit(c)
  PROVE  TrackTypeOK' /\ Tracked'
<1>0. TrackerIsExact /\ CompletedIsFinished /\ TypedRule
  BY DEF Tracked
<1>1. UNCHANGED <<closed, stream>>
  BY DEF Submit
<1>2. result[c] = "none" /\ c \notin Unsettled
      /\ c \notin Elems(typed) \cup Elems(stream)
  BY DEF Tracked, TypedRule, ResultRule, TrackTypeOK, TrackerIsExact
<1>3. \A d \in Call : (InTerminal(d))' <=> InTerminal(d) \/ d = c
  BY DEF InTerminal
<1>4. CASE closed
  <2>1. result' = [result EXCEPT ![c] = "closed"] /\ UNCHANGED <<queue, active, typed>>
    BY <1>4 DEF Submit
  <2>2. TrackTypeOK'
    BY <1>1, <2>1 DEF TrackTypeOK
  <2>3. TrackerIsExact'
    BY <1>0, <1>1, <1>2, <2>1 DEF TrackerIsExact, Unsettled, Queued, TrackTypeOK
  <2>4. CompletedIsFinished'
    BY <1>0, <2>1 DEF CompletedIsFinished, Unsettled, Queued, TrackTypeOK
  <2>5. TypedRule'
    <3>1. (Elems(typed))' = Elems(typed) /\ (Elems(stream))' = Elems(stream)
          /\ (Distinct(typed))' = Distinct(typed) /\ Queued' = Queued
      BY <1>1, <2>1 DEF Elems, Distinct, Queued
    <3>2. \A d \in Elems(typed) \cup Elems(stream) : d \in Call
      BY DEF TrackTypeOK, Elems
    <3> QED
      BY <1>0, <3>1, <3>2 DEF TypedRule
  <2>6. ResultRule'
    BY <2>1 DEF Tracked, ResultRule, TrackTypeOK
  <2> QED
    BY <2>2, <2>3, <2>4, <2>5, <2>6 DEF Tracked
<1>5. CASE ~closed
  <2> DEFINE q == Append(queue, c)
  <2>0. StartNext(q, active) /\ UNCHANGED result
    BY <1>5 DEF Submit
  <2>1. /\ q \in Seq(Call) /\ Elems(q) = Elems(queue) \cup {c} /\ Distinct(q)
    <3>1. c \notin Elems(queue) /\ Distinct(queue) /\ queue \in Seq(Call)
      BY <1>0, <1>2, QueuedElems DEF Unsettled, TrackerIsExact, Distinct, TrackTypeOK
    <3> QED
      BY <3>1, AppendElems
  <2>2. active \notin Elems(q)
    BY <1>0, <1>2, <2>1, QueuedElems DEF Unsettled, TrackerIsExact
  <2>3. \A d \in Elems(q) : d \notin Elems(typed) \cup Elems(stream)
    BY <1>0, <1>2, <2>1, QueuedElems DEF TypedRule
  <2> HIDE DEF q
  <2>4. /\ queue' \in Seq(Call) /\ active' \in Call \cup {None} /\ typed' \in Seq(Call)
        /\ Distinct(queue') /\ active' \notin Elems(queue')
        /\ active' = None => queue' = <<>>
        /\ Elems(queue') \cup ({active'} \ {None}) = Elems(q) \cup ({active} \ {None})
        /\ Distinct(typed') /\ Elems(typed') \cap Elems(stream) = {}
        /\ Elems(typed') \subseteq Elems(typed) \cup Elems(q)
        /\ \A d \in Elems(queue') : d \notin Elems(typed') \cup Elems(stream)
    BY <1>0, <2>0, <2>1, <2>2, <2>3, StartNextStarts DEF TrackTypeOK, TypedRule
  <2>5. TrackTypeOK'
    BY <1>1, <2>0, <2>4 DEF TrackTypeOK
  <2>6. Unsettled' = Unsettled \cup {c}
    BY <2>1, <2>4, QueuedElems DEF Unsettled, Queued, Elems
  <2>7. Unsettled' = {d \in Call : tool'[d] = "execute" /\ work'[d] = "acting" /\ result'[d] = "none"}
    BY <1>0, <1>2, <2>0, <2>6 DEF TrackerIsExact
  <2>8. TrackerIsExact'
    BY <1>1, <1>5, <2>4, <2>7 DEF TrackerIsExact, Queued, Elems, Distinct
  <2>9. Elems(typed') \subseteq Elems(typed) \cup Queued \cup {c}
    BY <2>1, <2>4, QueuedElems
  <2>10. CompletedIsFinished'
    <3>1. SUFFICES ASSUME NEW d \in Call, result'[d] = "completed"
                   PROVE  d \notin Unsettled' /\ d \notin Elems(typed')
      BY DEF CompletedIsFinished, Elems
    <3>2. d # c /\ d \notin Unsettled /\ d \notin Elems(typed)
      BY <1>0, <1>2, <2>0, <3>1 DEF CompletedIsFinished, Elems
    <3> QED
      BY <2>6, <2>9, <3>2 DEF Unsettled
  <2>11. TypedRule'
    <3>1. \A d \in Elems(typed') \cup Elems(stream') :
             d \in Call /\ tool[d] = "execute" /\ work'[d] \in {"acting", "over"}
      <4>1. \A d \in Elems(typed') \cup Elems(stream') : d \in Call
        BY <2>5 DEF TrackTypeOK, Elems
      <4>2. \A d \in Queued : tool[d] = "execute" /\ work[d] = "acting"
        BY <1>0 DEF TrackerIsExact, Unsettled
      <4> QED
        BY <1>0, <1>1, <2>9, <4>1, <4>2 DEF TypedRule
    <3>2. (Elems(typed))' = Elems(typed') /\ (Elems(stream))' = Elems(stream)
          /\ (Distinct(typed))' = Distinct(typed') /\ Queued' = Elems(queue')
          /\ Elems(stream') = Elems(stream)
      BY <1>1 DEF Elems, Distinct, Queued
    <3> QED
      BY <2>4, <3>1, <3>2 DEF TypedRule
  <2>12. ResultRule'
    BY <2>0 DEF Tracked, ResultRule
  <2> QED
    BY <2>5, <2>8, <2>10, <2>11, <2>12 DEF Tracked
<1> QED
  BY <1>4, <1>5

(* The command that runs ends, and the next one starts. *)
LEMMA SettleKeepsTracked ==
  ASSUME TrackTypeOK, Tracked, active # None, NEW how \in {"completed", "timeout"},
         how = "completed" => active \notin Elems(typed),
         Settle(how), UNCHANGED <<tool, work, closed>>,
         stream' \in Seq(Call), Elems(stream') \subseteq Elems(stream)
  PROVE  TrackTypeOK' /\ Tracked'
<1>0. TrackerIsExact /\ CompletedIsFinished /\ TypedRule
  BY DEF Tracked
<1>1. result' = [result EXCEPT ![active] = how] /\ StartNext(queue, None)
  BY DEF Settle
<1>2. /\ queue' \in Seq(Call) /\ active' \in Call \cup {None} /\ typed' \in Seq(Call)
      /\ Distinct(queue') /\ active' \notin Elems(queue')
      /\ active' = None => queue' = <<>>
      /\ Elems(queue') \cup ({active'} \ {None}) = Elems(queue) \cup ({None} \ {None})
      /\ Distinct(typed') /\ Elems(typed') \cap Elems(stream) = {}
      /\ Elems(typed') \subseteq Elems(typed) \cup Elems(queue)
      /\ \A d \in Elems(queue') : d \notin Elems(typed') \cup Elems(stream)
  <2>1. queue \in Seq(Call) /\ typed \in Seq(Call) /\ stream \in Seq(Call) /\ Distinct(queue)
    BY <1>0 DEF TrackTypeOK, TrackerIsExact, Distinct
  <2>2. None \notin Elems(queue)
    BY <2>1 DEF Elems
  <2>3. \A d \in Elems(queue) : d \notin Elems(typed) \cup Elems(stream)
    BY <1>0, QueuedElems DEF TypedRule
  <2>4. Distinct(typed) /\ Elems(typed) \cap Elems(stream) = {}
    BY <1>0 DEF TypedRule
  <2> QED
    BY <1>1, <2>1, <2>2, <2>3, <2>4, StartNextStarts
<1>3. TrackTypeOK'
  BY <1>1, <1>2 DEF TrackTypeOK
<1>4. Unsettled' = Unsettled \ {active}
  <2>1. Queued = Elems(queue) /\ Queued' = Elems(queue')
    BY DEF Queued, Elems
  <2>2. active \notin Queued
    BY <1>0 DEF TrackerIsExact
  <2> QED
    BY <1>2, <2>1, <2>2 DEF Unsettled
<1>5. Unsettled' = {d \in Call : tool'[d] = "execute" /\ work'[d] = "acting" /\ result'[d] = "none"}
  BY <1>0, <1>1, <1>4 DEF TrackerIsExact, TrackTypeOK
<1>6. ~closed
  BY <1>0 DEF TrackerIsExact
<1>7. TrackerIsExact'
  BY <1>2, <1>5, <1>6 DEF TrackerIsExact, Queued, Elems, Distinct
<1>8. CompletedIsFinished'
  <2>1. SUFFICES ASSUME NEW d \in Call, result'[d] = "completed"
                 PROVE  d \notin Unsettled' /\ d \notin Elems(typed')
    BY DEF CompletedIsFinished, Elems
  <2>2. d \notin Elems(typed) /\ d \notin Unsettled'
    <3>1. CASE d = active
      BY <1>1, <1>4, <2>1, <3>1 DEF TrackTypeOK
    <3>2. CASE d # active
      BY <1>0, <1>1, <1>4, <2>1, <3>2 DEF CompletedIsFinished, Elems, TrackTypeOK
    <3> QED
      BY <3>1, <3>2
  <2>3. d \notin Elems(queue)
    <3>1. CASE d = active
      BY <1>0, <3>1, QueuedElems DEF TrackerIsExact
    <3>2. CASE d # active
      BY <1>4, <2>2, <3>2, QueuedElems DEF Unsettled
    <3> QED
      BY <3>1, <3>2
  <2> QED
    BY <1>2, <2>2, <2>3
<1>9. TypedRule'
  <2>1. \A d \in Elems(typed') \cup Elems(stream') :
           tool[d] = "execute" /\ work[d] \in {"acting", "over"}
    <3>1. \A d \in Elems(queue) : tool[d] = "execute" /\ work[d] = "acting"
      BY <1>0, QueuedElems DEF TrackerIsExact, Unsettled
    <3> QED
      BY <1>0, <1>2, <3>1 DEF TypedRule
  <2>2. Queued' = Elems(queue')
    BY DEF Queued, Elems
  <2>3. Elems(typed') \cap Elems(stream') = {}
    BY <1>2
  <2>4. (Elems(typed))' = Elems(typed') /\ (Elems(stream))' = Elems(stream')
        /\ (Distinct(typed))' = Distinct(typed')
    BY DEF Elems, Distinct
  <2> QED
    BY <1>2, <2>1, <2>2, <2>3, <2>4 DEF TypedRule
<1>10. ResultRule'
  <2>1. active \in Call /\ work[active] = "acting" /\ tool[active] = "execute"
    BY <1>0 DEF TrackerIsExact, Unsettled, TrackTypeOK
  <2> QED
    BY <1>1, <2>1 DEF Tracked, ResultRule, TrackTypeOK
<1> QED
  BY <1>3, <1>7, <1>8, <1>9, <1>10 DEF Tracked
-----------------------------------------------------------------------------
FullInv ==
  /\ CallsTypeOK /\ AskedIsShown /\ SentRule /\ DecisionRule /\ Tracked
  /\ PresentIsNoted /\ ReadIsNoted

Booked == AskedIsShown /\ SentRule /\ DecisionRule

(* CallsTypeOK in three parts, the last without sequences of records. *)
StoreTypeOK ==
  /\ prefs \in Prefs /\ row \in Prefs
  /\ saving \in Seq(Prefs) /\ dirty \in BOOLEAN /\ changes \in 0..MaxChanges
  /\ allowed \in [Call -> BOOLEAN]

TaskTypeOK ==
  /\ work \in [Call -> {"none", "sent", "begun", "assessing", "assessed",
                        "asked", "acting", "over"}]
  /\ record \in [Call -> {"none", "running", "pending", "done", "failed", "denied"}]
  /\ approvals \subseteq Call
  /\ decision \in [Call -> {"none", "approve", "always", "reject"}]
  /\ risk \in [Call -> Risk \cup {"none"}]
  /\ limits \in [Call -> Mode \cup {"none"}]
  /\ verdict \in [Call -> Risk \cup {"none"}]

LEMMA TypeParts ==
  CallsTypeOK <=> /\ StoreTypeOK /\ TaskTypeOK /\ TrackTypeOK
                  /\ tool \in [Call -> {"none", "execute", "alter"}] /\ calls \in Seq(Call)
BY Zenon DEF CallsTypeOK, StoreTypeOK, TaskTypeOK, TrackTypeOK

LEMMA FinishKeepsTypes ==
  ASSUME TaskTypeOK, NEW c \in Call, NEW how \in {"done", "failed", "denied"}, Finish(c, how),
         risk' \in [Call -> Risk \cup {"none"}], limits' \in [Call -> Mode \cup {"none"}],
         verdict' \in [Call -> Risk \cup {"none"}]
  PROVE  TaskTypeOK'
BY DEF TaskTypeOK, Finish

LEMMA FullParts ==
  ASSUME FullInv
  PROVE  /\ CallsTypeOK /\ TrackTypeOK /\ AskedIsShown /\ SentRule /\ DecisionRule
         /\ Tracked /\ JudgedRight /\ Booked
<1>1. saving # <<>> => Head(saving) \in Prefs
  <2> HIDE DEF Prefs
  <2> QED
    BY DEF FullInv, CallsTypeOK
<1>2. JudgeTypeOK
  BY <1>1 DEF FullInv, CallsTypeOK, JudgeTypeOK
<1> QED
  BY <1>2 DEF FullInv, CallsTypeOK, TrackTypeOK, JudgedRight, Booked

LEMMA InitFull == CallsInit => FullInv
<1> SUFFICES ASSUME CallsInit PROVE FullInv
  OBVIOUS
<1>1. CallsTypeOK
  <2>1. prefs \in Prefs /\ row \in Prefs
    BY DEF CallsInit
  <2>2. TaskTypeOK
    BY DEF CallsInit, TaskTypeOK
  <2>3. TrackTypeOK /\ tool \in [Call -> {"none", "execute", "alter"}] /\ calls \in Seq(Call)
    <3>1. /\ tool = [c \in Call |-> "none"] /\ calls = <<>> /\ closed = FALSE
          /\ queue = <<>> /\ active = None /\ result = [c \in Call |-> "none"]
          /\ typed = <<>> /\ stream = <<>>
      BY DEF CallsInit
    <3> QED
      BY <3>1, EmptyElems DEF TrackTypeOK
  <2>4. saving \in Seq(Prefs)
    <3>1. saving = <<>>
      BY DEF CallsInit
    <3> QED
      BY <3>1, EmptyElems
  <2>5. changes \in 0 .. MaxChanges /\ dirty \in BOOLEAN /\ allowed \in [Call -> BOOLEAN]
    <3>1. changes = 0 /\ dirty = FALSE /\ allowed = [c \in Call |-> FALSE]
      BY DEF CallsInit
    <3>2. changes \in 0 .. MaxChanges
      BY <3>1, SMT
    <3>3. dirty \in BOOLEAN /\ allowed \in [Call -> BOOLEAN]
      BY <3>1, Zenon
    <3> QED
      BY <3>2, <3>3
  <2> QED
    BY <2>1, <2>2, <2>3, <2>4, <2>5, TypeParts, Zenon DEF StoreTypeOK
<1>2. AskedIsShown /\ DecisionRule
  BY DEF CallsInit, AskedIsShown, DecisionRule
<1>3. SentRule
  BY EmptyElems DEF CallsInit, SentRule
<1>4. Tracked
  <2>1. Queued = {} /\ Unsettled = {}
    BY EmptyElems, QueuedElems DEF CallsInit, Unsettled
  <2>2. TrackerIsExact
    BY <2>1 DEF CallsInit, TrackerIsExact
  <2>3. CompletedIsFinished /\ ResultRule
    BY DEF CallsInit, CompletedIsFinished, ResultRule
  <2>4. TypedRule
    BY EmptyElems DEF CallsInit, TypedRule
  <2> QED
    BY <2>2, <2>3, <2>4 DEF Tracked
<1>5. PresentIsNoted /\ ReadIsNoted
  BY InitJudged DEF JudgedRight
<1> QED
  BY <1>1, <1>2, <1>3, <1>4, <1>5 DEF FullInv

(* A task that is past the queue moves on. *)
LEMMA OthersAreSent ==
  ASSUME SentRule, CallsTypeOK, UNCHANGED calls, NEW c \in Call, work[c] # "sent",
         \A d \in Call \ {c} : work'[d] = work[d]
  PROVE  SentRule'
<1>1. \A d \in Elems(calls) : d \in Call
  BY DEF CallsTypeOK, Elems
<1> QED
  BY <1>1 DEF SentRule, Elems, Distinct

(* The steps of a task that do not touch the terminal. *)
LEMMA QuietTaskKeepsFull ==
  ASSUME FullInv, NEW c \in Call,
         ReadLimits(c) \/ Assess(c) \/ AssessFails(c) \/ ValidateFails(c) \/ ActEnds(c)
  PROVE  CallsTypeOK' /\ Booked' /\ Tracked'
<1>0. CallsTypeOK /\ TrackTypeOK /\ AskedIsShown /\ SentRule /\ DecisionRule /\ Tracked
  BY FullParts
<1> USE DEF ReadLimits, Assess, Assessed, AssessFails, ValidateFails, ActEnds, Finish,
            ForgetJudgement
<1>1. CallsTypeOK'
  <2>1. /\ TaskTypeOK /\ StoreTypeOK /\ TrackTypeOK
        /\ tool \in [Call -> {"none", "execute", "alter"}] /\ calls \in Seq(Call)
    BY <1>0, TypeParts
  <2>2. /\ limits' \in [Call -> Mode \cup {"none"}]
        /\ risk' \in [Call -> Risk \cup {"none"}]
        /\ verdict' \in [Call -> Risk \cup {"none"}]
    <3>1. prefs.mode \in Mode
      BY <2>1 DEF StoreTypeOK
    <3>2. Assessed(risk[c], row) \in Risk \cup {"none"}
      BY <2>1 DEF TaskTypeOK
    <3>3. limits' \in [Call -> Mode \cup {"none"}]
      BY <2>1, <3>1 DEF TaskTypeOK
    <3>4. risk' \in [Call -> Risk \cup {"none"}]
      BY <2>1, <3>2 DEF TaskTypeOK
    <3>5. verdict' \in [Call -> Risk \cup {"none"}]
      BY <2>1, <3>2 DEF TaskTypeOK
    <3> QED
      BY <3>3, <3>4, <3>5
  <2>3. UNCHANGED <<httpVars, decision, storeVars, paneVars>>
    OBVIOUS
  <2>4. TaskTypeOK'
    <3>1. CASE ReadLimits(c) \/ Assess(c)
      BY <2>1, <2>2, <3>1 DEF TaskTypeOK
    <3>2. CASE AssessFails(c) \/ ValidateFails(c) \/ ActEnds(c)
      <4>1. PICK how \in {"done", "failed", "denied"} : Finish(c, how)
        BY <3>2
      <4> QED
        BY <2>1, <2>2, <4>1, FinishKeepsTypes
    <3> QED
      BY <3>1, <3>2
  <2>5. /\ StoreTypeOK' /\ TrackTypeOK'
        /\ tool' \in [Call -> {"none", "execute", "alter"}] /\ calls' \in Seq(Call)
    <3> HIDE DEF Prefs
    <3> QED
      BY <2>1, <2>3 DEF StoreTypeOK, TrackTypeOK
  <2> QED
    BY <2>4, <2>5, Zenon DEF CallsTypeOK, StoreTypeOK, TaskTypeOK, TrackTypeOK
<1>2. AskedIsShown' /\ DecisionRule'
  BY <1>0 DEF CallsTypeOK, AskedIsShown, DecisionRule
<1>3. SentRule'
  BY <1>0, OthersAreSent DEF CallsTypeOK
<1>4. Tracked'
  <2>1. UNCHANGED paneVars
    OBVIOUS
  <2>2. \A d \in Call : (InTerminal(d))' = InTerminal(d)
    BY <1>0 DEF CallsTypeOK, InTerminal
  <2>3. \A d \in Call : tool[d] = "execute" /\ work[d] \in {"acting", "over"} =>
                           tool'[d] = "execute" /\ work'[d] \in {"acting", "over"}
    BY <1>0 DEF CallsTypeOK
  <2> QED
    BY <1>0, <2>1, <2>2, <2>3, AsideKeepsTracked
<1> QED
  BY <1>1, <1>2, <1>3, <1>4 DEF Booked

LEMMA SendKeepsFull ==
  ASSUME FullInv, NEW c \in Call, Send(c)
  PROVE  CallsTypeOK' /\ Booked' /\ Tracked'
<1>0. CallsTypeOK /\ TrackTypeOK /\ AskedIsShown /\ SentRule /\ DecisionRule /\ Tracked
  BY FullParts
<1>1. /\ work[c] = "none" /\ work' = [work EXCEPT ![c] = "sent"]
      /\ \E t \in {"execute", "alter"} : tool' = [tool EXCEPT ![c] = t]
      /\ calls' = Append(calls, c)
      /\ UNCHANGED <<judgeVars, activityVars, storeVars, paneVars>>
  BY DEF Send
<1>2. calls \in Seq(Call) /\ c \notin Elems(calls)
  BY <1>0, <1>1 DEF SentRule, CallsTypeOK
<1>3. /\ calls' \in Seq(Call) /\ Elems(calls') = Elems(calls) \cup {c}
      /\ Distinct(calls) => Distinct(calls')
  BY <1>1, <1>2, AppendElems
<1>4. CallsTypeOK'
  BY <1>0, <1>1, <1>3 DEF CallsTypeOK
<1>5. AskedIsShown' /\ DecisionRule'
  BY <1>0, <1>1 DEF CallsTypeOK, AskedIsShown, DecisionRule
<1>6. SentRule'
  <2>1. \A d \in Elems(calls') : work'[d] = "sent"
    <3>1. \A d \in Elems(calls) : d \in Call
      BY <1>0 DEF CallsTypeOK, Elems
    <3> QED
      BY <1>0, <1>1, <1>3, <3>1 DEF SentRule, CallsTypeOK
  <2> QED
    BY <1>0, <1>3, <2>1 DEF SentRule, Elems, Distinct
<1>7. Tracked'
  <2>2. \A d \in Call : (InTerminal(d))' = InTerminal(d)
    BY <1>0, <1>1 DEF CallsTypeOK, InTerminal
  <2>3. \A d \in Call : tool[d] = "execute" /\ work[d] \in {"acting", "over"} =>
                           tool'[d] = "execute" /\ work'[d] \in {"acting", "over"}
    BY <1>0, <1>1 DEF CallsTypeOK
  <2> QED
    BY <1>0, <1>1, <2>2, <2>3, AsideKeepsTracked
<1> QED
  BY <1>4, <1>5, <1>6, <1>7 DEF Booked

LEMMA DispatchKeepsFull ==
  ASSUME FullInv, NEW c \in Call, Dispatch(c)
  PROVE  CallsTypeOK' /\ Booked' /\ Tracked'
<1>0. CallsTypeOK /\ TrackTypeOK /\ AskedIsShown /\ SentRule /\ DecisionRule /\ Tracked
  BY FullParts
<1>1. /\ calls # <<>> /\ c = Head(calls) /\ calls' = Tail(calls)
      /\ UNCHANGED <<tool, prefs, row, saving, dirty, changes, paneVars>>
      /\ \/ Finish(c, "failed") /\ UNCHANGED <<judgeVars, allowed>>
         \/ /\ work' = [work EXCEPT ![c] = "begun"]
            /\ record' = [record EXCEPT ![c] = "running"]
            /\ UNCHANGED <<approvals, decision, limits, verdict>>
            /\ \E r \in Risk :
                 /\ risk' = [risk EXCEPT ![c] = r]
                 /\ allowed' = [allowed EXCEPT
                                  ![c] = Allows(prefs, c, r) \/ Allows(row, c, r)]
  <2>1. CASE tool[c] = "execute" /\ closed
    BY <2>1 DEF Dispatch
  <2>2. CASE ~(tool[c] = "execute" /\ closed)
    <3>1. (IF tool[c] = "execute" THEN Risks ELSE {"high"}) \subseteq Risk
      OBVIOUS
    <3> QED
      BY <2>2, <3>1 DEF Dispatch
  <2> QED
    BY <2>1, <2>2
<1>2. /\ calls' \in Seq(Call) /\ Elems(calls) = Elems(calls') \cup {c}
      /\ Distinct(calls) => Distinct(calls') /\ c \notin Elems(calls')
  BY <1>0, <1>1, TailElems DEF CallsTypeOK
<1>3. work[c] = "sent"
  BY <1>0, <1>2 DEF SentRule
<1>4. CallsTypeOK'
  <2>1. /\ TaskTypeOK /\ StoreTypeOK /\ TrackTypeOK
        /\ tool \in [Call -> {"none", "execute", "alter"}]
    BY <1>0, TypeParts
  <2>2. risk' \in [Call -> Risk \cup {"none"}] /\ UNCHANGED <<limits, verdict>>
    BY <1>1, <2>1 DEF TaskTypeOK
  <2>3. TaskTypeOK'
    <3>1. CASE Finish(c, "failed")
      BY <2>1, <2>2, <3>1, FinishKeepsTypes DEF TaskTypeOK
    <3>2. CASE ~Finish(c, "failed")
      BY <1>1, <2>1, <2>2, <3>2 DEF TaskTypeOK
    <3> QED
      BY <3>1, <3>2
  <2>4. allowed' \in [Call -> BOOLEAN]
    <3>1. allowed \in [Call -> BOOLEAN]
      BY <2>1 DEF StoreTypeOK
    <3>2. CASE UNCHANGED allowed
      BY <3>1, <3>2
    <3>3. ASSUME NEW r \in Risk,
                 allowed' = [allowed EXCEPT
                               ![c] = Allows(prefs, c, r) \/ Allows(row, c, r)]
          PROVE  allowed' \in [Call -> BOOLEAN]
      BY <3>1, <3>3
    <3> QED
      BY <1>1, <3>2, <3>3
  <2>5. StoreTypeOK' /\ TrackTypeOK' /\ tool' \in [Call -> {"none", "execute", "alter"}]
    <3> HIDE DEF Prefs
    <3> QED
      BY <1>1, <2>1, <2>4 DEF StoreTypeOK, TrackTypeOK
  <2> QED
    BY <1>2, <2>3, <2>5, Zenon DEF CallsTypeOK, StoreTypeOK, TaskTypeOK, TrackTypeOK
<1>5. AskedIsShown' /\ DecisionRule'
  BY <1>0, <1>1, <1>3 DEF CallsTypeOK, AskedIsShown, DecisionRule, Finish
<1>6. SentRule'
  <2>1. \A d \in Elems(calls') : work'[d] = "sent"
    <3>1. \A d \in Elems(calls) : d \in Call
      BY <1>0 DEF CallsTypeOK, Elems
    <3>2. \A d \in Call \ {c} : work'[d] = work[d]
      BY <1>0, <1>1 DEF CallsTypeOK, Finish
    <3>3. Distinct(calls)
      BY <1>0 DEF SentRule
    <3> QED
      BY <1>0, <1>2, <3>1, <3>2, <3>3 DEF SentRule
  <2> QED
    BY <1>0, <1>2, <2>1 DEF SentRule, Elems, Distinct
<1>7. Tracked'
  <2>2. \A d \in Call : (InTerminal(d))' = InTerminal(d)
    BY <1>0, <1>1, <1>3 DEF CallsTypeOK, InTerminal, Finish
  <2>3. \A d \in Call : tool[d] = "execute" /\ work[d] \in {"acting", "over"} =>
                           tool'[d] = "execute" /\ work'[d] \in {"acting", "over"}
    BY <1>0, <1>1, <1>3 DEF CallsTypeOK, Finish
  <2> QED
    BY <1>0, <1>1, <2>2, <2>3, AsideKeepsTracked
<1> QED
  BY <1>4, <1>5, <1>6, <1>7 DEF Booked

(* A call begins to act, is refused or asks: Judge and Authorize. *)
LEMMA ActKeepsTracked ==
  ASSUME CallsTypeOK, TrackTypeOK, Tracked, NEW c \in Call, work[c] \notin {"acting", "over"},
         Act(c), UNCHANGED tool
  PROVE  TrackTypeOK' /\ Tracked'
<1>1. work' = [work EXCEPT ![c] = "acting"]
  BY DEF Act
<1>2. CASE tool[c] = "execute"
  BY <1>1, <1>2, SubmitKeepsTracked DEF Act, CallsTypeOK
<1>3. CASE tool[c] # "execute"
  <2>1. UNCHANGED paneVars
    BY <1>3 DEF Act
  <2>2. \A d \in Call : (InTerminal(d))' = InTerminal(d)
    BY <1>1, <1>3 DEF CallsTypeOK, InTerminal
  <2>3. \A d \in Call : tool[d] = "execute" /\ work[d] \in {"acting", "over"} =>
                           tool'[d] = "execute" /\ work'[d] \in {"acting", "over"}
    BY <1>1 DEF CallsTypeOK
  <2>4. TrackTypeOK'
    BY <2>1 DEF TrackTypeOK
  <2> QED
    BY <2>1, <2>2, <2>3, <2>4, AsideKeepsTracked
<1> QED
  BY <1>2, <1>3

LEMMA JudgeKeepsFull ==
  ASSUME FullInv, NEW c \in Call, Judge(c) \/ Authorize(c)
  PROVE  CallsTypeOK' /\ Booked' /\ Tracked'
<1>0. CallsTypeOK /\ TrackTypeOK /\ AskedIsShown /\ SentRule /\ DecisionRule /\ Tracked
  BY FullParts
<1>1. /\ work[c] \in {"assessed", "begun"} /\ ForgetJudgement(c)
      /\ UNCHANGED <<httpVars, storeVars>>
      /\ \/ Finish(c, "denied") /\ UNCHANGED paneVars
         \/ RequestApproval(c) /\ UNCHANGED paneVars
         \/ Act(c) /\ UNCHANGED activityVars
  BY DEF Judge, Authorize
<1>2. AskedIsShown' /\ DecisionRule'
  BY <1>0, <1>1 DEF CallsTypeOK, AskedIsShown, DecisionRule, Finish, RequestApproval, Act
<1>3. SentRule'
  <2>1. \A d \in Call \ {c} : work'[d] = work[d]
    BY <1>0, <1>1 DEF CallsTypeOK, Finish, RequestApproval, Act
  <2> QED
    BY <1>0, <1>1, <2>1, OthersAreSent
<1>4. TrackTypeOK' /\ Tracked'
  <2>1. CASE Act(c)
    BY <1>0, <1>1, <2>1, ActKeepsTracked
  <2>2. CASE UNCHANGED paneVars /\ (Finish(c, "denied") \/ RequestApproval(c))
    <3>1. \A d \in Call : (InTerminal(d))' = InTerminal(d)
      BY <1>0, <1>1, <2>2 DEF CallsTypeOK, InTerminal, Finish, RequestApproval
    <3>2. \A d \in Call : tool[d] = "execute" /\ work[d] \in {"acting", "over"} =>
                             tool'[d] = "execute" /\ work'[d] \in {"acting", "over"}
      BY <1>0, <1>1, <2>2 DEF CallsTypeOK, Finish, RequestApproval
    <3>3. TrackTypeOK'
      BY <1>0, <2>2 DEF TrackTypeOK
    <3> QED
      BY <1>0, <2>2, <3>1, <3>2, <3>3, AsideKeepsTracked
  <2> QED
    BY <1>1, <2>1, <2>2
<1>5. CallsTypeOK'
  <2>1. /\ work' \in [Call -> {"none", "sent", "begun", "assessing", "assessed",
                                "asked", "acting", "over"}]
        /\ record' \in [Call -> {"none", "running", "pending", "done", "failed", "denied"}]
        /\ approvals' \subseteq Call
        /\ UNCHANGED decision
    <3>1. CASE Finish(c, "denied")
      BY <1>0, <3>1 DEF CallsTypeOK, Finish
    <3>2. CASE RequestApproval(c)
      BY <1>0, <3>2 DEF CallsTypeOK, RequestApproval
    <3>3. CASE Act(c) /\ UNCHANGED activityVars
      BY <1>0, <3>3 DEF CallsTypeOK, Act
    <3> QED
      BY <1>1, <3>1, <3>2, <3>3
  <2>2. risk' \in [Call -> Risk \cup {"none"}] /\ limits' \in [Call -> Mode \cup {"none"}]
        /\ verdict' \in [Call -> Risk \cup {"none"}]
    BY <1>0, <1>1 DEF CallsTypeOK, ForgetJudgement
  <2> QED
    <3> HIDE DEF Prefs
    <3> QED
      BY <1>0, <1>1, <1>4, <2>1, <2>2 DEF CallsTypeOK, TrackTypeOK
<1> QED
  BY <1>2, <1>3, <1>4, <1>5 DEF Booked

LEMMA UpdateKeepsTypes ==
  ASSUME CallsTypeOK, NEW p \in Prefs, Update(p)
  PROVE  /\ prefs' \in Prefs /\ row' \in Prefs /\ saving' \in Seq(Prefs) /\ dirty' \in BOOLEAN
         /\ allowed' \in [Call -> BOOLEAN]
<1>1. prefs' = p /\ row' = row /\ InForce(p)
  BY DEF Update
<1>2. allowed' \in [Call -> BOOLEAN]
  BY <1>1 DEF CallsTypeOK, InForce, Allows
<1>3. saving' \in Seq(Prefs) /\ dirty' \in BOOLEAN
  <2> HIDE DEF Prefs
  <2>1. saving \in Seq(Prefs) /\ dirty \in BOOLEAN
    BY DEF CallsTypeOK
  <2>2. <<p>> \in Seq(Prefs)
    OBVIOUS
  <2> QED
    BY <2>1, <2>2 DEF Update
<1> QED
  BY <1>1, <1>2, <1>3 DEF CallsTypeOK

LEMMA ResumeKeepsFull ==
  ASSUME FullInv, NEW c \in Call, Resume(c)
  PROVE  CallsTypeOK' /\ Booked' /\ Tracked'
<1>0. CallsTypeOK /\ TrackTypeOK /\ AskedIsShown /\ SentRule /\ DecisionRule /\ Tracked
  BY FullParts
<1>1. /\ work[c] = "asked" /\ decision[c] # "none"
      /\ decision' = [decision EXCEPT ![c] = "none"] /\ UNCHANGED approvals
      /\ \/ /\ work' = [work EXCEPT ![c] = "over"]
            /\ record' = [record EXCEPT ![c] = "denied"] /\ UNCHANGED paneVars
         \/ Act(c) /\ UNCHANGED record
      /\ \/ Update([prefs EXCEPT !.grant = TRUE]) /\ UNCHANGED changes
         \/ UNCHANGED storeVars
      /\ UNCHANGED <<httpVars, judgeVars>>
  BY DEF Resume, Taken
<1>2. AskedIsShown' /\ DecisionRule'
  BY <1>0, <1>1 DEF CallsTypeOK, AskedIsShown, DecisionRule, Act
<1>3. SentRule'
  <2>1. \A d \in Call \ {c} : work'[d] = work[d]
    BY <1>0, <1>1 DEF CallsTypeOK, Act
  <2> QED
    BY <1>0, <1>1, <2>1, OthersAreSent
<1>4. TrackTypeOK' /\ Tracked'
  <2>1. CASE Act(c)
    BY <1>0, <1>1, <2>1, ActKeepsTracked
  <2>2. CASE UNCHANGED paneVars /\ work' = [work EXCEPT ![c] = "over"]
    <3>1. \A d \in Call : (InTerminal(d))' = InTerminal(d)
      BY <1>0, <1>1, <2>2 DEF CallsTypeOK, InTerminal
    <3>2. \A d \in Call : tool[d] = "execute" /\ work[d] \in {"acting", "over"} =>
                             tool'[d] = "execute" /\ work'[d] \in {"acting", "over"}
      BY <1>0, <1>1, <2>2 DEF CallsTypeOK
    <3>3. TrackTypeOK'
      BY <1>0, <2>2 DEF TrackTypeOK
    <3> QED
      BY <1>0, <2>2, <3>1, <3>2, <3>3, AsideKeepsTracked
  <2> QED
    BY <1>1, <2>1, <2>2
<1>5. /\ prefs' \in Prefs /\ row' \in Prefs /\ saving' \in Seq(Prefs) /\ dirty' \in BOOLEAN
      /\ allowed' \in [Call -> BOOLEAN] /\ UNCHANGED changes
  <2>1. [prefs EXCEPT !.grant = TRUE] \in Prefs
    BY <1>0 DEF CallsTypeOK
  <2>2. CASE UNCHANGED storeVars
    BY <1>0, <2>2 DEF CallsTypeOK
  <2>3. CASE Update([prefs EXCEPT !.grant = TRUE]) /\ UNCHANGED changes
    BY <1>0, <2>1, <2>3, UpdateKeepsTypes
  <2> QED
    BY <1>1, <2>2, <2>3
<1>6. CallsTypeOK'
  <2>1. /\ work' \in [Call -> {"none", "sent", "begun", "assessing", "assessed",
                                "asked", "acting", "over"}]
        /\ record' \in [Call -> {"none", "running", "pending", "done", "failed", "denied"}]
        /\ decision' \in [Call -> {"none", "approve", "always", "reject"}]
    <3>1. decision' \in [Call -> {"none", "approve", "always", "reject"}]
      BY <1>0, <1>1 DEF CallsTypeOK
    <3>2. CASE work' = [work EXCEPT ![c] = "over"] /\ record' = [record EXCEPT ![c] = "denied"]
      BY <1>0, <3>1, <3>2 DEF CallsTypeOK
    <3>3. CASE Act(c) /\ UNCHANGED record
      BY <1>0, <3>1, <3>3 DEF CallsTypeOK, Act
    <3> QED
      BY <1>1, <3>2, <3>3
  <2> HIDE DEF Prefs
  <2> QED
    BY <1>0, <1>1, <1>4, <1>5, <2>1 DEF CallsTypeOK, TrackTypeOK
<1> QED
  BY <1>2, <1>3, <1>4, <1>6 DEF Booked

LEMMA ReturnsKeepsFull ==
  ASSUME FullInv, NEW c \in Call, Returns(c)
  PROVE  CallsTypeOK' /\ Booked' /\ Tracked'
<1>0. CallsTypeOK /\ TrackTypeOK /\ AskedIsShown /\ SentRule /\ DecisionRule /\ Tracked
  BY FullParts
<1>1. /\ work[c] = "acting" /\ result[c] # "none"
      /\ \E how \in {"done", "failed"} : Finish(c, how)
      /\ result' = [result EXCEPT ![c] = "none"]
      /\ UNCHANGED <<httpVars, judgeVars, storeVars, closed, queue, active, typed, stream>>
  BY DEF Returns
<1>2. CallsTypeOK'
  BY <1>0, <1>1 DEF CallsTypeOK, Finish
<1>3. AskedIsShown' /\ DecisionRule'
  BY <1>0, <1>1 DEF CallsTypeOK, AskedIsShown, DecisionRule, Finish
<1>4. SentRule'
  BY <1>0, <1>1, OthersAreSent DEF CallsTypeOK, Finish
<1>5. work' = [work EXCEPT ![c] = "over"] /\ UNCHANGED tool
  BY <1>1 DEF Finish
<1>6. TrackerIsExact'
  BY <1>0, <1>1, <1>5 DEF Tracked, TrackerIsExact, Unsettled, Queued, CallsTypeOK
<1>7. CompletedIsFinished'
  BY <1>0, <1>1 DEF Tracked, CompletedIsFinished, Unsettled, Queued, CallsTypeOK
<1>8. TypedRule' /\ ResultRule'
  <2>1. (Elems(typed))' = Elems(typed) /\ (Elems(stream))' = Elems(stream)
        /\ (Distinct(typed))' = Distinct(typed) /\ Queued' = Queued
    BY <1>1 DEF Elems, Distinct, Queued
  <2>2. \A d \in Elems(typed) \cup Elems(stream) : d \in Call
    BY <1>0 DEF TrackTypeOK, Elems
  <2>3. TypedRule'
    BY <1>0, <1>5, <2>1, <2>2 DEF Tracked, TypedRule, CallsTypeOK
  <2>4. ResultRule'
    BY <1>0, <1>1, <1>5 DEF Tracked, ResultRule, CallsTypeOK
  <2> QED
    BY <2>3, <2>4
<1> QED
  BY <1>2, <1>3, <1>4, <1>6, <1>7, <1>8 DEF Booked, Tracked

(* The user decides and changes the mode, a save ends, records are cleared. *)
LEMMA UserKeepsFull ==
  ASSUME FullInv,
         \/ \E c \in Call : UserDecides(c)
         \/ \E m \in Mode : SetMode(m)
         \/ \E ok \in BOOLEAN : SaveEnds(ok)
         \/ ClearFinished
  PROVE  CallsTypeOK' /\ Booked' /\ Tracked'
<1>0. CallsTypeOK /\ TrackTypeOK /\ AskedIsShown /\ SentRule /\ DecisionRule /\ Tracked
  BY FullParts
<1>1. UNCHANGED <<httpVars, work, paneVars>>
  BY DEF UserDecides, Decide, SetMode, SaveEnds, ClearFinished
<1>2. SentRule' /\ Tracked'
  <2>1. \A d \in Elems(typed) \cup Elems(stream) : d \in Call
    BY <1>0 DEF TrackTypeOK, Elems
  <2>2. Tracked'
    BY <1>0, <1>1, AsideKeepsTracked DEF InTerminal
  <2> QED
    BY <1>0, <1>1, <2>2 DEF SentRule, Elems, Distinct
<1>3. ASSUME NEW c \in Call, UserDecides(c)
      PROVE  CallsTypeOK' /\ AskedIsShown' /\ DecisionRule'
  <2>1. PICK d \in {"approve", "always", "reject"} : Decide(c, d)
    BY <1>3 DEF UserDecides
  <2>2. CallsTypeOK'
    BY <1>0, <2>1 DEF CallsTypeOK, Decide
  <2>3. AskedIsShown' /\ DecisionRule'
    BY <1>0, <2>1 DEF CallsTypeOK, AskedIsShown, DecisionRule, Decide
  <2> QED
    BY <2>2, <2>3
<1>4. ASSUME NEW m \in Mode, SetMode(m)
      PROVE  CallsTypeOK' /\ AskedIsShown' /\ DecisionRule'
  <2>1. [prefs EXCEPT !.mode = m] \in Prefs
    BY <1>0 DEF CallsTypeOK
  <2>2. /\ prefs' \in Prefs /\ row' \in Prefs /\ saving' \in Seq(Prefs) /\ dirty' \in BOOLEAN
        /\ allowed' \in [Call -> BOOLEAN]
    BY <1>0, <1>4, <2>1, UpdateKeepsTypes DEF SetMode
  <2>3. changes' \in 0 .. MaxChanges
    BY <1>0, <1>4 DEF SetMode, CallsTypeOK
  <2> QED
    BY <1>0, <1>4, <2>2, <2>3 DEF SetMode, CallsTypeOK, AskedIsShown, DecisionRule
<1>5. ASSUME NEW ok \in BOOLEAN, SaveEnds(ok)
      PROVE  CallsTypeOK' /\ AskedIsShown' /\ DecisionRule'
  <2>1. Head(saving) \in Prefs
    <3> HIDE DEF Prefs
    <3> QED
      BY <1>0, <1>5 DEF SaveEnds, CallsTypeOK
  <2>2. row' \in Prefs
    BY <1>0, <1>5, <2>1 DEF SaveEnds, CallsTypeOK
  <2>3. saving' \in Seq(Prefs) /\ dirty' \in BOOLEAN
    <3> HIDE DEF Prefs
    <3>1. <<prefs>> \in Seq(Prefs) /\ <<>> \in Seq(Prefs)
      BY <1>0 DEF CallsTypeOK
    <3> QED
      BY <1>5, <3>1 DEF SaveEnds
  <2>4. allowed' \in [Call -> BOOLEAN]
    BY <1>0, <1>5 DEF SaveEnds, InForce, CallsTypeOK, Allows
  <2> QED
    BY <1>0, <1>5, <2>2, <2>3, <2>4 DEF SaveEnds, CallsTypeOK, AskedIsShown, DecisionRule
<1>6. CASE ClearFinished
  <2>1. CallsTypeOK'
    BY <1>0, <1>6 DEF CallsTypeOK, ClearFinished
  <2>2. AskedIsShown' /\ DecisionRule'
    <3>1. \A c \in Call : /\ record'[c] = "pending" <=> record[c] = "pending"
                          /\ record'[c] = "running" <=> record[c] = "running"
      BY <1>0, <1>6 DEF CallsTypeOK, ClearFinished
    <3>2. UNCHANGED <<approvals, decision, work>>
      BY <1>6 DEF ClearFinished
    <3>3. \A c \in Call : record'[c] \in {"running", "pending"} <=> record[c] \in {"running", "pending"}
      BY <3>1
    <3> QED
      BY <1>0, <3>1, <3>2, <3>3 DEF AskedIsShown, DecisionRule
  <2> QED
    BY <1>2, <2>1, <2>2 DEF Booked
<1> QED
  BY <1>2, <1>3, <1>4, <1>5, <1>6 DEF Booked

(* The shell, the pane and the timer. *)
LEMMA PaneKeepsFull ==
  ASSUME FullInv, ShellFinishes \/ OnOutput \/ MarkerLost \/ TimeOut \/ OnClosed
  PROVE  CallsTypeOK' /\ Booked' /\ Tracked'
<1>0. CallsTypeOK /\ TrackTypeOK /\ AskedIsShown /\ SentRule /\ DecisionRule /\ Tracked
  BY FullParts
<1>a. TrackerIsExact /\ CompletedIsFinished /\ TypedRule /\ ResultRule
  BY <1>0 DEF Tracked
<1>1. UNCHANGED <<httpVars, work, judgeVars, activityVars, storeVars>>
  BY DEF ShellFinishes, OnOutput, MarkerLost, TimeOut, OnClosed
<1>2. Booked'
  BY <1>0, <1>1 DEF Booked, AskedIsShown, SentRule, DecisionRule, Elems, Distinct
<1>m. ASSUME stream # <<>>, stream' = Tail(stream),
             UNCHANGED <<closed, trackerVars, typed>>
      PROVE  TrackTypeOK' /\ Tracked'
  <2>1. stream' \in Seq(Call) /\ Elems(stream') \subseteq Elems(stream)
    BY <1>0, <1>m, TailElems DEF TrackTypeOK
  <2>2. TrackTypeOK'
    BY <1>0, <1>m, <2>1 DEF TrackTypeOK
  <2>3. TrackerIsExact' /\ CompletedIsFinished' /\ ResultRule'
    BY <1>a, <1>1, <1>m
       DEF TrackerIsExact, CompletedIsFinished, ResultRule, Unsettled, Queued
  <2>4. TypedRule'
    <3>1. (Elems(typed))' = Elems(typed) /\ (Elems(stream))' = Elems(stream')
          /\ (Distinct(typed))' = Distinct(typed) /\ Queued' = Queued
      BY <1>m DEF Elems, Distinct, Queued
    <3> QED
      BY <1>a, <1>1, <2>1, <3>1 DEF TypedRule
  <2> QED
    BY <2>2, <2>3, <2>4 DEF Tracked
<1>3. CASE ShellFinishes
  <2>1. /\ typed # <<>> /\ typed' = Tail(typed)
        /\ stream' = Append(stream, Head(typed)) /\ UNCHANGED <<closed, trackerVars>>
    BY <1>3 DEF ShellFinishes
  <2>2. /\ Head(typed) \in Call /\ typed' \in Seq(Call)
        /\ Elems(typed) = Elems(typed') \cup {Head(typed)}
        /\ Distinct(typed) => Distinct(typed') /\ Head(typed) \notin Elems(typed')
    BY <1>0, <2>1, TailElems DEF TrackTypeOK
  <2>3. stream' \in Seq(Call) /\ Elems(stream') = Elems(stream) \cup {Head(typed)}
    BY <1>0, <2>1, <2>2, AppendElems DEF TrackTypeOK
  <2>4. TrackTypeOK'
    BY <1>0, <2>1, <2>2, <2>3 DEF TrackTypeOK
  <2>5. TrackerIsExact' /\ ResultRule'
    BY <1>a, <1>1, <2>1 DEF TrackerIsExact, ResultRule, Unsettled, Queued
  <2>6. CompletedIsFinished'
    <3>1. SUFFICES ASSUME NEW d \in Call, result'[d] = "completed"
                   PROVE  d \notin Unsettled' /\ d \notin Elems(typed')
      BY DEF CompletedIsFinished, Elems
    <3>2. d \notin Unsettled /\ d \notin Elems(typed)
      BY <1>a, <2>1, <3>1 DEF CompletedIsFinished, Elems
    <3> QED
      BY <2>1, <2>2, <3>2 DEF Unsettled, Queued
  <2>7. TypedRule'
    <3>1. (Elems(typed))' = Elems(typed') /\ (Elems(stream))' = Elems(stream')
          /\ (Distinct(typed))' = Distinct(typed') /\ Queued' = Queued
      BY <2>1 DEF Elems, Distinct, Queued
    <3> QED
      BY <1>a, <1>1, <2>2, <2>3, <3>1 DEF TypedRule
  <2> QED
    BY <1>0, <1>1, <1>2, <2>4, <2>5, <2>6, <2>7 DEF CallsTypeOK, TrackTypeOK, Tracked
<1>4. CASE OnOutput
  <2>1. CASE Head(stream) = active
    <3>1. /\ stream # <<>> /\ stream' = Tail(stream) /\ Settle("completed") /\ UNCHANGED closed
      BY <1>4, <2>1 DEF OnOutput
    <3>2. /\ Head(stream) \in Call /\ stream' \in Seq(Call)
          /\ Elems(stream) = Elems(stream') \cup {Head(stream)}
      BY <1>0, <3>1, TailElems DEF TrackTypeOK
    <3>3. active # None /\ active \notin Elems(typed)
      BY <1>a, <2>1, <3>2 DEF TypedRule
    <3>4. TrackTypeOK' /\ Tracked'
      BY <1>0, <1>1, <3>1, <3>2, <3>3, SettleKeepsTracked
    <3> QED
      BY <1>0, <1>1, <1>2, <3>4 DEF CallsTypeOK, TrackTypeOK
  <2>2. CASE Head(stream) # active
    <3>1. TrackTypeOK' /\ Tracked'
      BY <1>4, <1>m, <2>2 DEF OnOutput
    <3> QED
      BY <1>0, <1>1, <1>2, <3>1 DEF CallsTypeOK, TrackTypeOK
  <2> QED
    BY <2>1, <2>2
<1>5. CASE MarkerLost
  <2>1. TrackTypeOK' /\ Tracked'
    BY <1>5, <1>m DEF MarkerLost
  <2> QED
    BY <1>0, <1>1, <1>2, <2>1 DEF CallsTypeOK, TrackTypeOK
<1>6. CASE TimeOut
  <2>1. active # None /\ Settle("timeout") /\ UNCHANGED <<closed, stream>>
    BY <1>6 DEF TimeOut
  <2>2. stream' \in Seq(Call) /\ Elems(stream') \subseteq Elems(stream)
    BY <1>0, <2>1 DEF TrackTypeOK
  <2>3. TrackTypeOK' /\ Tracked'
    BY <1>0, <1>1, <2>1, <2>2, SettleKeepsTracked
  <2> QED
    BY <1>0, <1>1, <1>2, <2>3 DEF CallsTypeOK, TrackTypeOK
<1>7. CASE OnClosed
  <2>1. /\ closed' = TRUE
        /\ result' = [c \in Call |-> IF c \in Unsettled THEN "closed" ELSE result[c]]
        /\ queue' = <<>> /\ active' = None /\ typed' = <<>> /\ stream' = <<>>
    BY <1>7 DEF OnClosed
  <2>2. TrackTypeOK'
    BY <1>0, <2>1 DEF TrackTypeOK
  <2>3. (Elems(typed))' = {} /\ (Elems(stream))' = {} /\ (Distinct(typed))'
        /\ Queued' = {} /\ Unsettled' = {}
    BY <2>1, EmptyElems DEF Elems, Distinct, Queued, Unsettled
  <2>4. TrackerIsExact'
    BY <1>a, <1>1, <2>1, <2>3 DEF TrackerIsExact
  <2>5. CompletedIsFinished'
    BY <2>1, <2>3 DEF CompletedIsFinished
  <2>6. TypedRule' /\ ResultRule'
    BY <1>a, <1>1, <2>1, <2>3 DEF TypedRule, ResultRule, TrackerIsExact
  <2> QED
    BY <1>0, <1>1, <1>2, <2>2, <2>4, <2>5, <2>6 DEF CallsTypeOK, TrackTypeOK, Tracked
<1> QED
  BY <1>3, <1>4, <1>5, <1>6, <1>7

LEMMA StepKeepsFull == FullInv /\ [CallsNext]_callVars => FullInv'
<1> SUFFICES ASSUME FullInv, [CallsNext]_callVars PROVE FullInv'
  OBVIOUS
<1>1. JudgedRight'
  BY FullParts, StepKeepsJudged
<1>2. CallsTypeOK' /\ Booked' /\ Tracked'
  <2>1. CASE \E c \in Call : Send(c) \/ TaskStep(c)
    BY <2>1, SendKeepsFull, DispatchKeepsFull, QuietTaskKeepsFull, JudgeKeepsFull,
       ResumeKeepsFull, ReturnsKeepsFull DEF TaskStep
  <2>2. CASE \/ \E c \in Call : UserDecides(c)
             \/ \E m \in Mode : SetMode(m)
             \/ \E ok \in BOOLEAN : SaveEnds(ok)
             \/ ClearFinished
    BY <2>2, UserKeepsFull
  <2>3. CASE ShellFinishes \/ OnOutput \/ MarkerLost \/ TimeOut \/ OnClosed
    BY <2>3, PaneKeepsFull
  <2>4. CASE UNCHANGED callVars
    <3>1. CallsTypeOK /\ TrackTypeOK /\ Booked /\ Tracked
      BY FullParts
    <3>2. UNCHANGED <<work, httpVars, judgeVars, activityVars, storeVars, paneVars>>
      BY <2>4 DEF callVars
    <3>3. CallsTypeOK'
      BY <3>1, <3>2 DEF CallsTypeOK
    <3>4. Booked'
      BY <3>1, <3>2 DEF Booked, AskedIsShown, SentRule, DecisionRule, Elems, Distinct
    <3>5. Tracked'
      BY <3>1, <3>2, AsideKeepsTracked DEF InTerminal
    <3> QED
      BY <3>3, <3>4, <3>5
  <2> QED
    BY <2>1, <2>2, <2>3, <2>4 DEF CallsNext
<1> QED
  BY <1>1, <1>2 DEF FullInv, Booked, JudgedRight

(* The activity window, the tasks and the tracker of the terminal agree in  *)
(* every order of markers, timeouts, decisions and the end of the session;  *)
(* a command reported as completed is one whose line the shell has finished *)
(* (ExecutionTracker, on_output).                                           *)
THEOREM CallsAgree == CallsSpec => []CallsInv
<1>1. CallsInit => FullInv
  BY InitFull
<1>2. FullInv /\ [CallsNext]_callVars => FullInv'
  BY StepKeepsFull
<1>3. FullInv => CallsInv
  BY DEF FullInv, CallsInv, Tracked
<1> QED
  BY <1>1, <1>2, <1>3, PTL DEF CallsSpec

(* A task takes its own call on, and no other.                              *)
LEMMA TaskTakesOn ==
  ASSUME FullInv, NEW c \in Call, TaskStep(c)
  PROVE  /\ StagesLeft(c)' < StagesLeft(c)
         /\ \A d \in Call \ {c} : work'[d] = work[d]
<1>1. work \in [Call -> {"none", "sent", "begun", "assessing", "assessed",
                        "asked", "acting", "over"}]
  BY DEF FullInv, CallsTypeOK
<1> USE DEF StagesLeft, CallStage
<1>2. CASE Dispatch(c)
  <2>1. work[c] = "sent"
    <3>1. calls \in Seq(Call) /\ calls # <<>> /\ c = Head(calls)
      BY <1>2 DEF Dispatch, FullInv, CallsTypeOK
    <3>2. c \in Elems(calls)
      BY <3>1, TailElems
    <3> QED
      BY <3>2 DEF FullInv, SentRule
  <2> QED
    BY <1>1, <1>2, <2>1 DEF Dispatch, Finish
<1>3. CASE ReadLimits(c) \/ Assess(c)
  BY <1>1, <1>3 DEF ReadLimits, Assess
<1>4. CASE AssessFails(c) \/ ValidateFails(c)
  BY <1>1, <1>4 DEF AssessFails, ValidateFails, Finish
<1>5. CASE Judge(c) \/ Authorize(c)
  BY <1>1, <1>5 DEF Judge, Authorize, Act, RequestApproval, Finish
<1>6. CASE Resume(c)
  BY <1>1, <1>6 DEF Resume, Act
<1>7. CASE ActEnds(c) \/ Returns(c)
  BY <1>1, <1>7 DEF ActEnds, Returns, Finish
<1> QED
  BY <1>2, <1>3, <1>4, <1>5, <1>6, <1>7 DEF TaskStep

(* Nobody but the caller and the task moves a call.                         *)
LEMMA OthersLeaveTasks ==
  ASSUME [CallsNext]_callVars, \A c \in Call : ~TaskStep(c)
  PROVE  work' = work \/ \E c \in Call : Send(c)
BY DEF CallsNext, UserDecides, Decide, SetMode, SaveEnds, ClearFinished, ShellFinishes,
       OnOutput, MarkerLost, TimeOut, OnClosed, callVars

LEMMA CallsTakeOn ==
  ASSUME FullInv, [CallsNext]_callVars, NEW c \in Call
  PROVE  /\ StagesLeft(c)' <= StagesLeft(c)
         /\ TaskStep(c) => StagesLeft(c)' < StagesLeft(c)
<1>1. work \in [Call -> {"none", "sent", "begun", "assessing", "assessed",
                        "asked", "acting", "over"}]
  BY DEF FullInv, CallsTypeOK
<1>2. work' \in [Call -> {"none", "sent", "begun", "assessing", "assessed",
                         "asked", "acting", "over"}]
  <2>1. FullInv'
    BY StepKeepsFull
  <2> QED
    BY <2>1 DEF FullInv, CallsTypeOK
<1>3. StagesLeft(c) \in 0 .. 7 /\ StagesLeft(c)' \in 0 .. 7
  BY <1>1, <1>2 DEF StagesLeft, CallStage
<1>4. ASSUME work'[c] = work[c] PROVE StagesLeft(c)' = StagesLeft(c)
  BY <1>4 DEF StagesLeft
<1>5. CASE TaskStep(c)
  <2>1. StagesLeft(c)' < StagesLeft(c)
    BY <1>5, TaskTakesOn
  <2> QED
    BY <1>3, <2>1
<1>6. ASSUME NEW d \in Call, d # c, TaskStep(d) PROVE StagesLeft(c)' = StagesLeft(c)
  BY <1>4, <1>6, TaskTakesOn
<1>7. ASSUME NEW d \in Call, Send(d) PROVE StagesLeft(c)' <= StagesLeft(c)
  BY <1>1, <1>7 DEF Send, StagesLeft, CallStage
<1>8. CASE ~TaskStep(c)
  BY <1>3, <1>4, <1>6, <1>7, <1>8, OthersLeaveTasks
<1> QED
  BY <1>5, <1>8

(* What was sent and not dispatched is in the queue of the main thread.     *)
SentWaits == \A c \in Call : work[c] = "sent" => c \in Elems(calls)

LEMMA SentStaysQueued ==
  ASSUME FullInv, SentWaits, [CallsNext]_callVars PROVE SentWaits'
<1>1. calls \in Seq(Call) /\ Distinct(calls)
  BY DEF FullInv, CallsTypeOK, SentRule
<1>2. work \in [Call -> {"none", "sent", "begun", "assessing", "assessed",
                        "asked", "acting", "over"}]
  BY DEF FullInv, CallsTypeOK
<1>3. ASSUME NEW c \in Call, Send(c) PROVE SentWaits'
  <2>1. calls' = Append(calls, c) /\ work' = [work EXCEPT ![c] = "sent"]
    BY <1>3 DEF Send
  <2>2. Elems(calls') = Elems(calls) \cup {c}
    BY <1>1, <2>1, AppendElems
  <2>3. \A d \in Call \ {c} : work'[d] = work[d]
    BY <1>2, <2>1
  <2> QED
    BY <2>2, <2>3 DEF SentWaits, Elems
<1>4. ASSUME NEW c \in Call, Dispatch(c) PROVE SentWaits'
  <2>1. calls # <<>> /\ c = Head(calls) /\ calls' = Tail(calls)
    BY <1>4 DEF Dispatch
  <2>2. Elems(calls') = Elems(calls) \ {c}
    BY <1>1, <2>1, TailElems
  <2>3. \A d \in Call \ {c} : work'[d] = work[d]
    BY <1>4, TaskTakesOn DEF TaskStep
  <2>4. work'[c] # "sent"
    BY <1>2, <1>4 DEF Dispatch, Finish
  <2> QED
    BY <2>2, <2>3, <2>4 DEF SentWaits, Elems
<1>5. ASSUME NEW c \in Call, TaskStep(c), ~Dispatch(c) PROVE SentWaits'
  <2>1. UNCHANGED calls
    BY <1>5
       DEF TaskStep, ReadLimits, Assess, AssessFails, Judge, ValidateFails, Authorize,
           Resume, ActEnds, Returns, httpVars
  <2>2. work'[c] # "sent"
    BY <1>2, <1>5
       DEF TaskStep, ReadLimits, Assess, AssessFails, Judge, ValidateFails, Authorize,
           Resume, ActEnds, Returns, Act, RequestApproval, Finish
  <2>3. \A d \in Call \ {c} : work'[d] = work[d]
    BY <1>5, TaskTakesOn
  <2> QED
    BY <2>1, <2>2, <2>3 DEF SentWaits, Elems
<1>6. ASSUME \A c \in Call : ~TaskStep(c) /\ ~Send(c) PROVE SentWaits'
  <2>1. work' = work
    BY <1>6, OthersLeaveTasks
  <2>2. UNCHANGED calls
    BY <1>6
       DEF CallsNext, UserDecides, Decide, SetMode, SaveEnds, ClearFinished,
           ShellFinishes, OnOutput, MarkerLost, TimeOut, OnClosed, callVars, httpVars
  <2> QED
    BY <2>1, <2>2 DEF SentWaits, Elems
<1> QED
  BY <1>3, <1>4, <1>5, <1>6

(* The core of CallsEnd: a call goes through its stages in one direction,   *)
(* its task never takes it back, and there is no stage in which it waits    *)
(* for something that is not there (dispatch, activity, ExecutionTracker).  *)
THEOREM CallsAreFinite == CallsSpec => CallsGoOn /\ []NoCallHangs
<1> DEFINE On == \A c \in Call : /\ StagesLeft(c)' <= StagesLeft(c)
                                 /\ TaskStep(c) => StagesLeft(c)' < StagesLeft(c)
<1>1. FullInv /\ [CallsNext]_callVars => [On]_callVars
  BY CallsTakeOn
<1>2. FullInv /\ SentWaits => NoCallHangs
  <2> SUFFICES ASSUME FullInv, SentWaits, NEW c \in Call
               PROVE  /\ work[c] = "sent" => \E i \in DOMAIN calls : calls[i] = c
                      /\ work[c] = "asked" => c \in approvals \/ decision[c] # "none"
                      /\ work[c] = "acting" /\ tool[c] = "execute" =>
                           result[c] # "none" \/ active # None
    BY DEF NoCallHangs
  <2>1. work[c] = "sent" => \E i \in DOMAIN calls : calls[i] = c
    BY DEF SentWaits, Elems
  <2>2. work[c] = "asked" => c \in approvals \/ decision[c] # "none"
    BY DEF FullInv, AskedIsShown
  <2>3. ASSUME work[c] = "acting", tool[c] = "execute", result[c] = "none"
        PROVE  active # None
    <3>1. c \in Unsettled /\ (active = None => queue = <<>>)
      BY <2>3 DEF FullInv, Tracked, TrackerIsExact
    <3> QED
      BY <3>1, EmptyElems, QueuedElems DEF Unsettled
  <2> QED
    BY <2>1, <2>2, <2>3
<1>3. CallsInit => FullInv /\ SentWaits
  BY InitFull DEF CallsInit, SentWaits
<1>4. FullInv /\ SentWaits /\ [CallsNext]_callVars => (FullInv /\ SentWaits)'
  BY StepKeepsFull, SentStaysQueued
<1> QED
  BY <1>1, <1>2, <1>3, <1>4, PTL DEF CallsSpec, CallsGoOn

-----------------------------------------------------------------------------
(* The server of the MCP bridge. *)
LEMMA InitBridge == BridgeInit => BridgeInv
<1> SUFFICES ASSUME BridgeInit PROVE BridgeInv
  OBVIOUS
<1>1. BridgeTypeOK
  <2>1. wants \in [Start -> Setting \cup {Absent}] /\ at \in [Start -> At]
    BY DEF BridgeInit, At
  <2>2. 0 \in 0..MaxStarts
    BY BridgeAssumption
  <2> QED
    BY <2>1, <2>2 DEF BridgeInit, BridgeTypeOK
<1>2. NoOrphan /\ HandleIsOpen /\ OffIsOff /\ RunningIsServed
  BY DEF BridgeInit, NoOrphan, HandleIsOpen, OffIsOff, RunningIsServed
<1>3. StartsAreKnown
  BY BridgeAssumption DEF BridgeInit, StartsAreKnown, Start
<1>4. FileLeadsNowhereElse
  <2>1. discovery \notin Start
    BY BridgeAssumption DEF BridgeInit, EarlierRun, Start
  <2> QED
    BY <2>1 DEF BridgeInit, FileLeadsNowhereElse
<1> QED
  BY <1>1, <1>2, <1>3, <1>4 DEF BridgeInv

USE BridgeAssumption
USE DEF Start, At, Dropped, prefsVars, startVars, fileVars, EarlierRun, FileBecomes

LEMMA UnchangedKeeps ==
  ASSUME BridgeInv, UNCHANGED bridgeVars PROVE BridgeInv'
<1>1. BridgeTypeOK'
  BY DEF bridgeVars, BridgeInv, BridgeTypeOK
<1>2. NoOrphan' /\ HandleIsOpen' /\ StartsAreKnown'
  BY DEF bridgeVars, BridgeInv, NoOrphan, HandleIsOpen, StartsAreKnown
<1>3. OffIsOff' /\ RunningIsServed' /\ FileLeadsNowhereElse'
  BY DEF bridgeVars, BridgeInv, OffIsOff, RunningIsServed, FileLeadsNowhereElse
<1> QED
  BY <1>1, <1>2, <1>3 DEF BridgeInv

(* Applying preferences: the bridge stops, starts anew or has what it wants. *)
LEMMA ApplyKeeps ==
  ASSUME BridgeInv, Apply, on' \in BOOLEAN, setting' \in Setting,
         setting' = setting \/ on' = on
  PROVE  BridgeInv'
<1>0. BridgeTypeOK /\ NoOrphan /\ HandleIsOpen /\ StartsAreKnown /\ OffIsOff
        /\ RunningIsServed /\ FileLeadsNowhereElse
  BY DEF BridgeInv
<1>1. CASE ~on' /\ StopServer
  <2>1. BridgeTypeOK'
    BY <1>0, <1>1 DEF StopServer, BridgeTypeOK, HandleIsOpen
  <2>2. NoOrphan'
    BY <1>0, <1>1 DEF StopServer, BridgeTypeOK, NoOrphan
  <2>3. HandleIsOpen'
    BY <1>0, <1>1 DEF StopServer, BridgeTypeOK, HandleIsOpen
  <2>4. StartsAreKnown'
    BY <1>0, <1>1 DEF StopServer, BridgeTypeOK, StartsAreKnown, HandleIsOpen
  <2>5. OffIsOff'
    BY <1>0, <1>1 DEF StopServer, BridgeTypeOK, OffIsOff
  <2>6. RunningIsServed'
    BY <1>0, <1>1 DEF StopServer, BridgeTypeOK, RunningIsServed
  <2>7. FileLeadsNowhereElse'
    BY <1>0, <1>1 DEF StopServer, BridgeTypeOK, HandleIsOpen, StartsAreKnown,
       FileLeadsNowhereElse
  <2> QED
    BY <2>1, <2>2, <2>3, <2>4, <2>5, <2>6, <2>7 DEF BridgeInv
<1>2. CASE on' /\ desired = setting' /\ UNCHANGED <<desired, status, handle, startVars,
                                                     stopping, fileVars>>
  <2>1. UNCHANGED <<on, setting>>
    BY <1>0, <1>2 DEF OffIsOff, Setting, BridgeTypeOK
  <2> QED
    BY <1>2, <2>1, UnchangedKeeps DEF bridgeVars
<1>3. CASE on' /\ Restart(setting')
  <2>1. BridgeTypeOK'
    <3>1. starts + 1 \in Start
      BY <1>0, <1>3 DEF Restart, BridgeTypeOK
    <3>2. wants' \in [Start -> Setting \cup {Absent}] /\ at' \in [Start -> At]
      BY <1>0, <1>3, <3>1 DEF Restart, BridgeTypeOK
    <3>3. starts' \in 0..MaxStarts
      BY <1>0, <1>3 DEF Restart, BridgeTypeOK
    <3>4. stopping' \subseteq listening'
      BY <1>0, <1>3 DEF Restart, BridgeTypeOK, HandleIsOpen
    <3> QED
      BY <1>0, <1>3, <3>2, <3>3, <3>4 DEF Restart, BridgeTypeOK
  <2>2. NoOrphan'
    BY <1>0, <1>3 DEF Restart, BridgeTypeOK, NoOrphan, StartsAreKnown
  <2>3. HandleIsOpen'
    BY <1>0, <1>3 DEF Restart, BridgeTypeOK, HandleIsOpen
  <2>4. StartsAreKnown'
    BY <1>0, <1>3 DEF Restart, BridgeTypeOK, StartsAreKnown, HandleIsOpen
  <2>5. OffIsOff'
    BY <1>0, <1>3 DEF Restart, BridgeTypeOK, OffIsOff
  <2>6. RunningIsServed'
    BY <1>0, <1>3 DEF Restart, BridgeTypeOK, RunningIsServed
  <2>7. FileLeadsNowhereElse'
    BY <1>0, <1>3 DEF Restart, BridgeTypeOK, HandleIsOpen, StartsAreKnown,
       FileLeadsNowhereElse
  <2> QED
    BY <2>1, <2>2, <2>3, <2>4, <2>5, <2>6, <2>7 DEF BridgeInv
<1> QED
  BY <1>1, <1>2, <1>3 DEF Apply

(* What the listeners and their answers do. *)
LEMMA ServerStepKeeps ==
  ASSUME BridgeInv, NEW i \in Start, ServerStep(i)
  PROVE  BridgeInv'
<1>0. BridgeTypeOK /\ NoOrphan /\ HandleIsOpen /\ StartsAreKnown /\ OffIsOff
        /\ RunningIsServed /\ FileLeadsNowhereElse
  BY DEF BridgeInv
<1>1. CASE Bind(i)
  <2>1. BridgeTypeOK'
    BY <1>0, <1>1 DEF Bind, BridgeTypeOK
  <2>2. NoOrphan'
    BY <1>0, <1>1 DEF Bind, BridgeTypeOK, NoOrphan
  <2>3. HandleIsOpen'
    <3>1. \A j \in Start \ {i} : at'[j] = at[j]
      BY <1>0, <1>1 DEF Bind, BridgeTypeOK
    <3>2. handle # Absent => handle \in Start \ {i}
      BY <1>0, <1>1 DEF Bind, BridgeTypeOK, HandleIsOpen
    <3> QED
      BY <1>0, <1>1, <3>1, <3>2 DEF Bind, HandleIsOpen
  <2>4. StartsAreKnown'
    BY <1>0, <1>1 DEF Bind, BridgeTypeOK, StartsAreKnown
  <2>5. OffIsOff'
    BY <1>0, <1>1 DEF Bind, BridgeTypeOK, OffIsOff
  <2>6. RunningIsServed'
    BY <1>0, <1>1 DEF Bind, BridgeTypeOK, RunningIsServed
  <2>7. FileLeadsNowhereElse'
    BY <1>0, <1>1 DEF Bind, BridgeTypeOK, HandleIsOpen, StartsAreKnown,
       FileLeadsNowhereElse
  <2> QED
    BY <2>1, <2>2, <2>3, <2>4, <2>5, <2>6, <2>7 DEF BridgeInv
<1>2. CASE LoopEnds(i)
  <2>1. BridgeTypeOK'
    BY <1>0, <1>2 DEF LoopEnds, BridgeTypeOK
  <2>2. NoOrphan'
    BY <1>0, <1>2 DEF LoopEnds, BridgeTypeOK, NoOrphan
  <2>3. HandleIsOpen'
    BY <1>0, <1>2 DEF LoopEnds, BridgeTypeOK, HandleIsOpen
  <2>4. StartsAreKnown'
    BY <1>0, <1>2 DEF LoopEnds, BridgeTypeOK, StartsAreKnown
  <2>5. OffIsOff'
    BY <1>0, <1>2 DEF LoopEnds, BridgeTypeOK, OffIsOff
  <2>6. RunningIsServed'
    BY <1>0, <1>2 DEF LoopEnds, BridgeTypeOK, RunningIsServed
  <2>7. FileLeadsNowhereElse'
    BY <1>0, <1>2 DEF LoopEnds, BridgeTypeOK, HandleIsOpen, StartsAreKnown,
       FileLeadsNowhereElse
  <2> QED
    BY <2>1, <2>2, <2>3, <2>4, <2>5, <2>6, <2>7 DEF BridgeInv
<1>3. CASE AnswerLate(i)
  <2>1. BridgeTypeOK'
    BY <1>0, <1>3 DEF AnswerLate, BridgeTypeOK
  <2>2. NoOrphan'
    BY <1>0, <1>3 DEF AnswerLate, BridgeTypeOK, NoOrphan
  <2>3. HandleIsOpen'
    BY <1>0, <1>3 DEF AnswerLate, BridgeTypeOK, HandleIsOpen
  <2>4. StartsAreKnown'
    BY <1>0, <1>3 DEF AnswerLate, BridgeTypeOK, StartsAreKnown
  <2>5. OffIsOff'
    BY <1>0, <1>3 DEF AnswerLate, BridgeTypeOK, OffIsOff
  <2>6. RunningIsServed'
    BY <1>0, <1>3 DEF AnswerLate, BridgeTypeOK, RunningIsServed
  <2>7. FileLeadsNowhereElse'
    BY <1>0, <1>3 DEF AnswerLate, BridgeTypeOK, HandleIsOpen, StartsAreKnown,
       FileLeadsNowhereElse
  <2> QED
    BY <2>1, <2>2, <2>3, <2>4, <2>5, <2>6, <2>7 DEF BridgeInv
<1>4. CASE AnswerOk(i)
  <2>1. BridgeTypeOK'
    BY <1>0, <1>4 DEF Setting, AnswerOk, KeepHandle, BridgeTypeOK, HandleIsOpen
  <2>2. NoOrphan'
    BY <1>0, <1>4 DEF Setting, AnswerOk, KeepHandle, BridgeTypeOK, NoOrphan
  <2>3. HandleIsOpen'
    BY <1>0, <1>4 DEF Setting, AnswerOk, KeepHandle, BridgeTypeOK, HandleIsOpen, StartsAreKnown
  <2>4. StartsAreKnown'
    BY <1>0, <1>4 DEF Setting, AnswerOk, KeepHandle, BridgeTypeOK, StartsAreKnown, HandleIsOpen
  <2>5. OffIsOff'
    BY <1>0, <1>4 DEF Setting, AnswerOk, KeepHandle, BridgeTypeOK, OffIsOff, StartsAreKnown
  <2>6. RunningIsServed'
    BY <1>0, <1>4 DEF Setting, AnswerOk, KeepHandle, BridgeTypeOK, RunningIsServed, OffIsOff, StartsAreKnown
  <2>7. FileLeadsNowhereElse'
    BY <1>0, <1>4 DEF Setting, AnswerOk, KeepHandle, BridgeTypeOK, HandleIsOpen, StartsAreKnown,
       FileLeadsNowhereElse
  <2> QED
    BY <2>1, <2>2, <2>3, <2>4, <2>5, <2>6, <2>7 DEF BridgeInv
<1>5. CASE AnswerErr(i)
  <2>1. BridgeTypeOK'
    BY <1>0, <1>5 DEF Setting, AnswerErr, BridgeTypeOK
  <2>2. NoOrphan'
    BY <1>0, <1>5 DEF Setting, AnswerErr, BridgeTypeOK, NoOrphan
  <2>3. HandleIsOpen'
    BY <1>0, <1>5 DEF Setting, AnswerErr, BridgeTypeOK, HandleIsOpen
  <2>4. StartsAreKnown'
    BY <1>0, <1>5 DEF Setting, AnswerErr, BridgeTypeOK, StartsAreKnown
  <2>5. OffIsOff'
    BY <1>0, <1>5 DEF Setting, AnswerErr, BridgeTypeOK, OffIsOff, StartsAreKnown
  <2>6. RunningIsServed'
    BY <1>0, <1>5 DEF Setting, AnswerErr, BridgeTypeOK, RunningIsServed
  <2>7. FileLeadsNowhereElse'
    BY <1>0, <1>5 DEF Setting, AnswerErr, BridgeTypeOK, HandleIsOpen, StartsAreKnown,
       FileLeadsNowhereElse
  <2> QED
    BY <2>1, <2>2, <2>3, <2>4, <2>5, <2>6, <2>7 DEF BridgeInv
<1> QED
  BY <1>1, <1>2, <1>3, <1>4, <1>5 DEF ServerStep

LEMMA StepKeeps == BridgeInv /\ [BridgeNext]_bridgeVars => BridgeInv'
<1> SUFFICES ASSUME BridgeInv, [BridgeNext]_bridgeVars
             PROVE  BridgeInv'
  OBVIOUS
<1>0. BridgeTypeOK
  BY DEF BridgeInv
<1>1. CASE Switch
  BY <1>0, <1>1, ApplyKeeps DEF Switch, BridgeTypeOK
<1>2. CASE Change
  BY <1>0, <1>2, ApplyKeeps DEF Change, BridgeTypeOK
<1>3. CASE IdleOff
  BY <1>0, <1>3, ApplyKeeps DEF IdleOff, BridgeTypeOK
<1>4. CASE \E i \in Start : ServerStep(i)
  BY <1>4, ServerStepKeeps
<1>5. CASE UNCHANGED bridgeVars
  BY <1>5, UnchangedKeeps
<1> QED
  BY <1>1, <1>2, <1>3, <1>4, <1>5 DEF BridgeNext

(* The listeners of McpBridge all have an owner, "off" leaves no handle and *)
(* no answer that would be taken, a status of "running" names the one       *)
(* server of the present settings, and the discovery file leads to no other *)
(* server, whatever the order in which the user changes the settings and    *)
(* the listeners answer, and whichever writes and removals of it fail.      *)
THEOREM BridgeIsConsistent == BridgeSpec => []BridgeInv
<1>1. BridgeInit => BridgeInv
  BY InitBridge
<1>2. BridgeInv /\ [BridgeNext]_bridgeVars => BridgeInv'
  BY StepKeeps
<1> QED
  BY <1>1, <1>2, PTL DEF BridgeSpec

(* A step of the runtime takes its start on, and no other one back.         *)
LEMMA ServerTakesOn ==
  ASSUME BridgeInv, NEW j \in Start, ServerStep(j)
  PROVE  Stage(j)' < Stage(j) /\ \A i \in Start \ {j} : Stage(i)' <= Stage(i)
<1>0. /\ at \in [Start -> At] /\ stopping \subseteq listening
      /\ at[j] = "bound" => j \in listening
      /\ j \in listening => at[j] \in {"bound", "over"}
      /\ j \in stopping => at[j] = "over"
  BY DEF BridgeInv, BridgeTypeOK, StartsAreKnown
<1>1. Stage(j)' < Stage(j)
  <2>1. CASE Bind(j)
    BY <1>0, <2>1 DEF Bind, Stage
  <2>2. CASE LoopEnds(j)
    BY <1>0, <2>2 DEF LoopEnds, Stage
  <2>3. CASE AnswerLate(j)
    BY <1>0, <2>3 DEF AnswerLate, Stage
  <2>4. CASE AnswerOk(j)
    BY <1>0, <2>4 DEF AnswerOk, KeepHandle, Stage
  <2>5. CASE AnswerErr(j)
    BY <1>0, <2>5 DEF AnswerErr, Stage
  <2> QED
    BY <2>1, <2>2, <2>3, <2>4, <2>5 DEF ServerStep
<1>2. ASSUME NEW i \in Start \ {j} PROVE Stage(i)' <= Stage(i)
  <2>1. /\ at'[i] = at[i] /\ (i \in listening' <=> i \in listening)
        /\ i \in stopping => i \in stopping'
    BY <1>0 DEF ServerStep, Bind, LoopEnds, AnswerLate, AnswerOk, KeepHandle, AnswerErr
  <2>2. at[i] \in At
    BY <1>0
  <2> QED
    BY <2>1, <2>2 DEF Stage
<1> QED
  BY <1>1, <1>2

(* And the user takes none back.                                            *)
LEMMA UserTakesNoneBack ==
  ASSUME BridgeInv, Apply, NEW i \in Start PROVE Stage(i)' <= Stage(i)
<1>0. at \in [Start -> At] /\ starts \in 0 .. MaxStarts /\ \A k \in Start : at[k] = "none" <=> starts < k
  BY DEF BridgeInv, BridgeTypeOK, StartsAreKnown
<1>1. /\ i \in listening' <=> i \in listening
      /\ i \in stopping => i \in stopping'
  BY DEF Apply, StopServer, Restart
<1>2. at'[i] = at[i] \/ (at[i] = "none" /\ at'[i] = "binding")
  BY <1>0 DEF Apply, StopServer, Restart
<1>3. at[i] \in At
  BY <1>0
<1> QED
  BY <1>1, <1>2, <1>3 DEF Stage

LEMMA StagesGoOn ==
  ASSUME BridgeInv, [BridgeNext]_bridgeVars, NEW i \in Start
  PROVE  Stage(i)' <= Stage(i) /\ (ServerStep(i) => Stage(i)' < Stage(i))
<1>0. at[i] \in At /\ Stage(i) \in 0 .. 5
  <2>1. at[i] \in At
    BY DEF BridgeInv, BridgeTypeOK
  <2> QED
    BY <2>1 DEF Stage
<1>1. CASE ServerStep(i)
  <2>1. Stage(i)' < Stage(i)
    BY <1>1, ServerTakesOn
  <2>2. Stage(i)' \in 0 .. 5
    <3>1. BridgeInv'
      BY StepKeeps
    <3>2. at'[i] \in At
      <4>1. at' \in [Start -> At]
        BY <3>1 DEF BridgeInv, BridgeTypeOK
      <4> QED
        BY <4>1
    <3> QED
      BY <3>2 DEF Stage
  <2> QED
    BY <1>0, <2>1, <2>2
<1>2. ASSUME NEW j \in Start, j # i, ServerStep(j) PROVE Stage(i)' <= Stage(i)
  BY <1>2, ServerTakesOn
<1>3. ASSUME Switch \/ Change \/ IdleOff PROVE Stage(i)' <= Stage(i)
  BY <1>3, UserTakesNoneBack DEF Switch, Change, IdleOff
<1>4. ASSUME UNCHANGED bridgeVars PROVE Stage(i)' <= Stage(i)
  <2>1. at' = at /\ listening' = listening /\ stopping' = stopping
    BY <1>4 DEF bridgeVars
  <2>2. Stage(i)' = Stage(i)
    BY <2>1 DEF Stage
  <2> QED
    BY <1>0, <2>2
<1> QED
  BY <1>1, <1>2, <1>3, <1>4 DEF BridgeNext

(* The core of OffCloses: a listener only goes on towards its end, in five  *)
(* steps at most, and while the bridge is off there is none that has no     *)
(* next step to take (McpBridge::apply, BridgeHandle::drop).                *)
THEOREM ListenersGoOn == BridgeSpec => StartsGoOn /\ []OffIsClosing
<1> DEFINE On == \A i \in Start : /\ Stage(i)' <= Stage(i)
                                  /\ ServerStep(i) => Stage(i)' < Stage(i)
<1>1. BridgeInv /\ [BridgeNext]_bridgeVars => [On]_bridgeVars
  BY StagesGoOn
<1>2. BridgeInv => OffIsClosing
  <2> SUFFICES ASSUME BridgeInv, ~on, NEW i \in listening, i \notin stopping
               PROVE  at[i] = "bound" /\ desired # wants[i]
    BY DEF OffIsClosing
  <2>1. i \in Start /\ handle = Absent /\ desired = Absent
    BY DEF BridgeInv, BridgeTypeOK, OffIsOff
  <2>2. at[i] = "bound"
    BY <2>1 DEF BridgeInv, NoOrphan
  <2>3. wants[i] \in Setting
    BY <2>1, <2>2 DEF BridgeInv, StartsAreKnown
  <2> QED
    BY <2>1, <2>2, <2>3 DEF Setting
<1> QED
  BY <1>1, <1>2, BridgeIsConsistent, PTL DEF BridgeSpec, StartsGoOn

=============================================================================
