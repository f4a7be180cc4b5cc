---------------------------- MODULE SftpSessions ----------------------------
(***************************************************************************)
(* The SFTP sessions behind the file panel (crates/ops-ssh/src/sftp.rs):   *)
(* SftpManager keeps one session per host, and every thread that works on  *)
(* a host's files looks it up there: the opens of the panel, of agents and *)
(* of a terminal that has just connected, listings, transfers, and the     *)
(* calls that make sure of a session first and try again on another one    *)
(* (sftp_mkdir, sftp_write_file).                                          *)
(*                                                                         *)
(* A thread works on a session under the guard of its entry and under the  *)
(* session's mutex: a transfer keeps both from its first byte to its last, *)
(* and whoever would use, remove or replace the entry waits.  Listings and *)
(* the single requests of the other calls are one step, and so is the wait *)
(* before them.                                                            *)
(***************************************************************************)
EXTENDS SftpPanel

CONSTANTS
    Others,         \* opens that are not the panel's
    Calls,          \* calls of sftp_mkdir, sftp_write_file and sftp_read_file
    PanelCalls,     \* those that are the panel's own
    Reads,          \* those that read, and try only once
    Casts,          \* who may take part in a behaviour: see cast
    MaxSessions     \* bound: SFTP sessions opened

ASSUME SessionsAssumption ==
    /\ Others \cap (1 .. MaxOpens) = {}
    /\ PanelCalls \cup Reads \subseteq Calls
    /\ MaxSessions \in Nat
    /\ Casts \subseteq [hosts: SUBSET Hosts, opens: Nat, moves: BOOLEAN, breaks: Nat,
                     others: SUBSET (Others \cup Calls \cup Transfers)]

VARIABLES
    cast,       \* the hosts there are, how often the panel opens one, whether its
                \* user moves about in directories, how many connections end, and
                \* who else works on files
    table,      \* SftpManager::sessions: the session of each host, 0 if none
    made,       \* the number of the last session opened
    broken,     \* the sessions whose connection is gone
    opener,     \* the threads of sftp_open and sftp_warmup
    call,       \* the threads of Calls
    lent        \* the session a transfer works on, 0 if it does not

threadVars == <<opener, call>>
sessionVars == <<cast, table, made, broken, opener, call, lent>>
allVars == <<vars, sessionVars>>
------------------------------------------------------------------------------
Openers == (1 .. MaxOpens) \cup Others
Session == 0 .. MaxSessions
OpenPlace == {"none", "look", "connect", "insert", "over"}
CallPlace == {"none", "ensure", "drop", "connect", "insert", "act", "evict",
              "ok", "failed", "over"}

SessionsInit ==
    /\ PanelInit
    /\ cast \in Casts
    /\ table = [h \in Hosts |-> 0]
    /\ made = 0
    /\ broken = {}
    /\ opener = [o \in Openers |-> [step |-> "none", host |-> {}, session |-> 0]]
    /\ call = [c \in Calls |->
           [step |-> "none", host |-> {}, session |-> 0, again |-> FALSE, failed |-> 0]]
    /\ lent = [t \in Transfers |-> 0]

(* No transfer holds the guard and the mutex of the host's entry.           *)
Free(hs) == \A t \in Transfers : lent[t] # 0 => transfer[t].host # hs

The(hs) == CHOOSE h \in hs : TRUE
Entry(hs) == table[The(hs)]
Put(hs, s) == table' = [table EXCEPT ![The(hs)] = s]

(* The connection under a session ends; nobody is told.  It does not matter *)
(* any more once the session is closed.                                     *)
InUse ==
    {table[h] : h \in Hosts} \cup {opener[o].session : o \in Openers}
        \cup {call[c].session : c \in Calls}

Breaks(s) ==
    /\ s \in InUse \ broken
    /\ Cardinality(broken) < cast.breaks
    /\ broken' = broken \cup {s}
    /\ UNCHANGED <<vars, cast, table, made, threadVars, lent>>
------------------------------------------------------------------------------
(* The panel opens a host, or another one does.                             *)
PanelOpens(h) ==
    /\ Len(opens) < cast.opens
    /\ OpenSession(h)
    /\ opener' = [opener EXCEPT ![Len(opens) + 1] =
           [step |-> "look", host |-> {h}, session |-> 0]]
    /\ UNCHANGED <<cast, table, made, broken, call, lent>>

OtherOpens(o, h) ==
    /\ o \in cast.others /\ opener[o].step = "none"
    /\ opener' = [opener EXCEPT ![o] = [step |-> "look", host |-> {h}, session |-> 0]]
    /\ UNCHANGED <<vars, cast, table, made, broken, call, lent>>

(* The thread answers: with the home directory, or with "/" if the session  *)
(* does not tell it, as one that is broken cannot.                          *)
Answers(o, s) ==
    /\ opener' = [opener EXCEPT ![o].step = "over", ![o].session = 0]
    /\ IF o \in Others THEN UNCHANGED vars
       ELSE OpenSucceeds(o, IF s \in broken THEN Root ELSE Home)

Finds(o) ==
    LET hs == opener[o].host IN
    /\ opener[o].step = "look" /\ Entry(hs) # 0 /\ Free(hs)
    /\ Answers(o, Entry(hs))
    /\ UNCHANGED <<cast, table, made, broken, call, lent>>

FindsNone(o) ==
    /\ opener[o].step = "look" /\ Entry(opener[o].host) = 0
    /\ opener' = [opener EXCEPT ![o].step = "connect"]
    /\ UNCHANGED <<vars, cast, table, made, broken, call, lent>>

Opened(o) ==
    /\ opener[o].step = "connect" /\ made < MaxSessions
    /\ made' = made + 1
    /\ opener' = [opener EXCEPT ![o].step = "insert", ![o].session = made + 1]
    /\ UNCHANGED <<vars, cast, table, broken, call, lent>>

(* Mutant: nobody is told of a connection that failed.                      *)
NotOpenedSilently(o) ==
    /\ opener[o].step = "connect"
    /\ opener' = [opener EXCEPT ![o].step = "over", ![o].session = 0]
    /\ UNCHANGED <<vars, cast, table, made, broken, call, lent>>

NotOpened(o) ==
    /\ opener[o].step = "connect"
    /\ opener' = [opener EXCEPT ![o].step = "over", ![o].session = 0]
    /\ IF o \in Others THEN UNCHANGED vars ELSE OpenFails(o)
    /\ UNCHANGED <<cast, table, made, broken, call, lent>>

(* What another thread has put there meanwhile is closed.                   *)
Inserts(o) ==
    /\ opener[o].step = "insert" /\ Free(opener[o].host)
    /\ Put(opener[o].host, opener[o].session)
    /\ Answers(o, opener[o].session)
    /\ UNCHANGED <<cast, made, broken, call, lent>>
------------------------------------------------------------------------------
(* sftp_list_dir takes the session there is.                                *)
Lists(i) ==
    LET hs == {requests[i].host} IN
    \/ /\ Entry(hs) \notin broken \cup {0} /\ Free(hs)
       /\ ListingArrives(i)
    \/ /\ Entry(hs) = 0 \/ Free(hs)
       /\ ListingFails(i)

PanelLists(i) == Asked(requests, i) /\ Lists(i) /\ UNCHANGED sessionVars

(* The user and the events of the panel, but for an open.                   *)
PanelActs ==
    /\ \/ cast.moves /\ \E p \in Paths : UserNavigates(p)
       \/ \E t \in Transfers \cap cast.others : StartTransfer(t)
    /\ UNCHANGED sessionVars

PanelHears(t) == Heard(t) /\ UNCHANGED sessionVars

(* A transfer takes the guard and the mutex ...                             *)
TransferBegins(t) ==
    LET hs == transfer[t].host IN
    /\ Running(t) /\ lent[t] = 0
    /\ Entry(hs) # 0 /\ Free(hs)
    /\ lent' = [lent EXCEPT ![t] = Entry(hs)]
    /\ UNCHANGED <<vars, cast, table, made, broken, threadVars>>

(* ... or finds no session, no file, no size.                               *)
TransferRefused(t) ==
    /\ lent[t] = 0 /\ ThreadRefuses(t)
    /\ UNCHANGED sessionVars

TransferEnds(t) ==
    /\ lent[t] # 0
    /\ \/ lent[t] \notin broken /\ ThreadEnds(t, "done")
       \/ ThreadEnds(t, "failed")
    /\ lent' = [lent EXCEPT ![t] = 0]
    /\ UNCHANGED <<cast, table, made, broken, threadVars>>
------------------------------------------------------------------------------
(* A call begins; At(c, step) is where its thread stands.                   *)
At(c, step) == call[c].step = step
Goes(c, step) == call' = [call EXCEPT ![c].step = step]

CallBegins(c, h) ==
    /\ c \in cast.others /\ At(c, "none")
    /\ call' = [call EXCEPT ![c].step = "ensure", ![c].host = {h}]
    /\ UNCHANGED <<vars, cast, table, made, broken, opener, lent>>

(* ensure_sftp_session takes the session there is, unless it is known to be *)
(* closed; a connection may be gone before that is known.                   *)
EnsureFinds(c) ==
    /\ At(c, "ensure") /\ Entry(call[c].host) # 0
    /\ Goes(c, "act")
    /\ UNCHANGED <<vars, cast, table, made, broken, opener, lent>>

EnsureMisses(c) ==
    /\ At(c, "ensure") /\ Entry(call[c].host) \in broken \cup {0}
    /\ Goes(c, "drop")
    /\ UNCHANGED <<vars, cast, table, made, broken, opener, lent>>

(* What is removed may be what another thread has just put there.           *)
Drops(c) ==
    /\ At(c, "drop") /\ Free(call[c].host)
    /\ Put(call[c].host, 0)
    /\ Goes(c, "connect")
    /\ UNCHANGED <<vars, cast, made, broken, opener, lent>>

CallOpened(c) ==
    /\ At(c, "connect") /\ made < MaxSessions
    /\ made' = made + 1
    /\ call' = [call EXCEPT ![c].step = "insert", ![c].session = made + 1]
    /\ UNCHANGED <<vars, cast, table, broken, opener, lent>>

CallInserts(c) ==
    /\ At(c, "insert") /\ Free(call[c].host)
    /\ Put(call[c].host, call[c].session)
    /\ call' = [call EXCEPT ![c].step = "act", ![c].session = 0]
    /\ UNCHANGED <<vars, cast, made, broken, opener, lent>>

(* An attempt ends without success; after the first one the session is      *)
(* removed, whoever has put it there.                                       *)
AttemptFails(c, s) ==
    call' = [call EXCEPT
        ![c].step = IF call[c].again \/ c \in Reads THEN "failed" ELSE "evict",
        ![c].failed = s]

CallNotOpened(c) ==
    /\ At(c, "connect")
    /\ AttemptFails(c, 0)
    /\ UNCHANGED <<vars, cast, table, made, broken, opener, lent>>

Acts(c) ==
    LET s == Entry(call[c].host) IN
    /\ At(c, "act") /\ s \notin broken \cup {0} /\ Free(call[c].host)
    /\ Goes(c, "ok")
    /\ UNCHANGED <<vars, cast, table, made, broken, opener, lent>>

ActsInVain(c) ==
    LET s == Entry(call[c].host) IN
    /\ At(c, "act")
    /\ s = 0 \/ Free(call[c].host)
    /\ AttemptFails(c, s)
    /\ UNCHANGED <<vars, cast, table, made, broken, opener, lent>>

(* Mutant: the second attempt makes sure of a session in the same way.      *)
EvictsNothing(c) ==
    /\ At(c, "evict")
    /\ call' = [call EXCEPT ![c].step = "ensure", ![c].again = TRUE]
    /\ UNCHANGED <<vars, cast, table, made, broken, opener, lent>>

Evicts(c) ==
    /\ At(c, "evict") /\ Free(call[c].host)
    /\ Put(call[c].host, 0)
    /\ call' = [call EXCEPT ![c].step = "ensure", ![c].again = TRUE]
    /\ UNCHANGED <<vars, cast, made, broken, opener, lent>>

(* op of the panel refreshes the remote side after a success, of whatever   *)
(* host it then is.                                                         *)
CallAnswered(c) ==
    /\ call[c].step \in {"ok", "failed"}
    /\ Goes(c, "over")
    /\ IF At(c, "ok") /\ c \in PanelCalls /\ Room THEN Navigate(path) ELSE UNCHANGED listVars
    /\ UNCHANGED <<host, session, opens, transferVars, cast, table, made, broken, opener, lent>>
------------------------------------------------------------------------------
OpenerStep(o) == Finds(o) \/ FindsNone(o) \/ Opened(o) \/ NotOpened(o) \/ Inserts(o)
CallStep(c) ==
    \/ EnsureFinds(c) \/ EnsureMisses(c) \/ Drops(c)
    \/ CallOpened(c) \/ CallNotOpened(c) \/ CallInserts(c)
    \/ Acts(c) \/ ActsInVain(c) \/ Evicts(c)
TransferStep(t) == TransferBegins(t) \/ TransferRefused(t) \/ TransferEnds(t)

(* The hosts for which a call may be made: the panel's own are for its host.*)
HostsOf(c) == IF c \in PanelCalls THEN host ELSE cast.hosts

(* All that happens, but for calls other than the given ones.               *)
Work(calls) ==
    \/ \E h \in cast.hosts : PanelOpens(h)
    \/ PanelActs
    \/ \E o \in Others, h \in cast.hosts : OtherOpens(o, h)
    \/ \E s \in 1 .. made : Breaks(s)
    \/ \E o \in Openers : OpenerStep(o)
    \/ \E i \in 1 .. MaxRequests : PanelLists(i)
    \/ \E t \in Transfers : TransferStep(t) \/ PanelHears(t)
    \/ \E c \in calls : (\E h \in HostsOf(c) : CallBegins(c, h)) \/ CallStep(c) \/ CallAnswered(c)

------------------------------------------------------------------------------
(* Every variable has its type.                                             *)
SessionsTypeOK ==
    /\ PanelTypeOK
    /\ table \in [Hosts -> Session]
    /\ made \in Session
    /\ broken \subseteq 1 .. made
    /\ opener \in [Openers -> [step: OpenPlace, host: SUBSET Hosts, session: Session]]
    /\ call \in [Calls -> [step: CallPlace, host: SUBSET Hosts, session: Session,
                           again: BOOLEAN, failed: Session]]
    /\ lent \in [Transfers -> Session]

(* A session that is about to be put into the table is in it for nobody and *)
(* in no other thread's hands.                                              *)
InHand ==
    {<<o, opener[o].session>> : o \in {p \in Openers : opener[p].step = "insert"}}
        \cup {<<c, call[c].session>> : c \in {d \in Calls : call[d].step = "insert"}}

HandsAreFresh ==
    /\ \A x \in InHand : x[2] \in 1 .. made /\ \A h \in Hosts : table[h] # x[2]
    /\ \A x, y \in InHand : x[2] = y[2] => x = y

(* A transfer keeps its session in the table to its end, whoever opens,     *)
(* drops or replaces sessions of the host meanwhile.                        *)
LentStays ==
    \A t \in Transfers : lent[t] # 0 => {lent[t]} = {table[h] : h \in transfer[t].host}

(* The second attempt of a call does not meet the session of the first one, *)
(* though other threads look, open and insert between the two.              *)
RetryIsFresh ==
    \A c \in Calls : call[c].again /\ call[c].failed # 0 =>
        \/ call[c].step \in {"ok", "failed", "over"}
        \/ \A h \in call[c].host : table[h] # call[c].failed

SessionsInv == SessionsTypeOK /\ HandsAreFresh /\ LentStays /\ RetryIsFresh

(* The panel settles, and every open and every call is answered, in spite   *)
(* of the waits for a transfer's guard.                                     *)
SessionsSettle ==
    /\ PanelSettles
    /\ \A o \in Openers : (opener[o].step # "none") ~> (opener[o].step = "over")
    /\ \A c \in Calls : (call[c].step # "none") ~> (call[c].step = "over")
==============================================================================
