------------------------------ MODULE SftpPanel ------------------------------
(***************************************************************************)
(* The file panel (app/src/sftp/store.rs): one store shared by every tab,  *)
(* which opens the SFTP channel of the active tab's host, lists remote     *)
(* directories and follows transfers.  Opens, listings and transfers run   *)
(* on threads of crates/ops-ssh/src/sftp.rs and answer in any order; the   *)
(* store tells late answers by the numbers open_seq and remote_seq.        *)
(*                                                                         *)
(* The local side has the same operations as the remote one on a file      *)
(* system that is always there; it is left out.                            *)
(***************************************************************************)
EXTENDS Naturals, Sequences, FiniteSets

CONSTANTS
    Hosts,          \* the hosts of the tabs
    Paths,          \* remote directories
    Root,           \* the path of a panel that has listed nothing yet
    Home,           \* the home directory of the user on a host
    Transfers,      \* the transfers the user may start, each once
    Uploads,        \* those of them that are uploads
    MaxOpens,       \* bound: open_session calls
    MaxRequests     \* bound: listings asked for

ASSUME PanelAssumption ==
    /\ {Root, Home} \subseteq Paths
    /\ Uploads \subseteq Transfers
    /\ MaxOpens \in Nat
    /\ MaxRequests \in Nat

VARIABLES
    host,       \* host_id, a set with the host or nothing
    session,    \* "Idle", "Connecting", "Ready" or "Failed"
    opens,      \* the opens asked for; open_seq is their number
    requests,   \* the remote listings asked for; remote_seq is their number
    path,       \* remote_path
    listing,    \* what remote_entries list: a set with a host and path, or nothing
    loading,    \* remote_loading
    transfer,   \* each transfer: what its thread did and what its row shows
    told        \* how often TransferFinished was emitted for each transfer

vars == <<host, session, opens, requests, path, listing, loading, transfer, told>>
listVars == <<requests, path, listing, loading>>
transferVars == <<transfer, told>>
------------------------------------------------------------------------------
Outcomes == {"running", "done", "failed"}
Row == {"none", "Transferring", "Done", "Error"}

(* host: whose file; thread: the outcome; event: a done event is in the     *)
(* queue; answer: the command has not been answered.                        *)
NotStarted ==
    [host |-> {}, row |-> "none", thread |-> "running", event |-> FALSE, answer |-> FALSE]

PanelInit ==
    /\ host = {}
    /\ session = "Idle"
    /\ opens = <<>>
    /\ requests = <<>>
    /\ path = Root
    /\ listing = {}
    /\ loading = FALSE
    /\ transfer = [t \in Transfers |-> NotStarted]
    /\ told = [t \in Transfers |-> 0]

Asked(q, i) == i \in DOMAIN q /\ q[i].phase = "asked"
Answered(q, i, phase) == [q EXCEPT ![i].phase = phase]

(* The bound leaves a request to every open that has yet to answer.         *)
Room == Len(requests) + Cardinality({i \in DOMAIN opens : Asked(opens, i)}) < MaxRequests
------------------------------------------------------------------------------
(* navigate: a listing of p is asked of the host of the moment.             *)
Navigate(p) ==
    /\ requests' = Append(requests,
           [host |-> CHOOSE h \in host : TRUE, path |-> p, phase |-> "asked"])
    /\ loading' = TRUE
    /\ UNCHANGED <<path, listing>>

(* The path field, a directory, a bookmark, go up; refresh is the button    *)
(* and what a finished file operation does.                                 *)
UserNavigates(p) ==
    /\ Room
    /\ host # {}
    /\ Navigate(p)
    /\ UNCHANGED <<host, session, opens, transferVars>>

Refresh == UserNavigates(path)

(* open_session: switching hosts resets the remote side.                    *)
OpenSession(h) ==
    /\ Room
    /\ Len(opens) < MaxOpens
    /\ IF host # {h}
       THEN path' = Root /\ listing' = {}
       ELSE UNCHANGED <<path, listing>>
    /\ host' = {h}
    /\ session' = "Connecting"
    /\ opens' = Append(opens, [host |-> h, phase |-> "asked"])
    /\ UNCHANGED <<requests, loading, transferVars>>

(* Mutant: whatever open answers decides the state of the panel.            *)
AnyOpen(i) == TRUE

CurrentOpen(i) == i = Len(opens)

(* sftp_open answers; only the last open counts, and goes to the home it    *)
(* was told.                                                                *)
OpenSucceeds(i, home) ==
    /\ Asked(opens, i)
    /\ opens' = Answered(opens, i, "ok")
    /\ IF CurrentOpen(i)
       THEN session' = "Ready" /\ Navigate(home)
       ELSE UNCHANGED <<session, listVars>>
    /\ UNCHANGED <<host, transferVars>>

OpenFails(i) ==
    /\ Asked(opens, i)
    /\ opens' = Answered(opens, i, "failed")
    /\ session' = IF CurrentOpen(i) THEN "Failed" ELSE session
    /\ UNCHANGED <<host, listVars, transferVars>>

(* Mutant: a listing that arrives is shown.                                 *)
AnyRequest(i) == TRUE

CurrentRequest(i) == i = Len(requests)

(* sftp_list_dir answers; only the last request counts.                     *)
ListingArrives(i) ==
    /\ Asked(requests, i)
    /\ requests' = Answered(requests, i, "ok")
    /\ IF CurrentRequest(i)
       THEN /\ loading' = FALSE
            /\ listing' = {<<requests[i].host, requests[i].path>>}
            /\ path' = requests[i].path
       ELSE UNCHANGED <<path, listing, loading>>
    /\ UNCHANGED <<host, session, opens, transferVars>>

ListingFails(i) ==
    /\ Asked(requests, i)
    /\ requests' = Answered(requests, i, "failed")
    /\ loading' = IF CurrentRequest(i) THEN FALSE ELSE loading
    /\ UNCHANGED <<host, session, opens, path, listing, transferVars>>
------------------------------------------------------------------------------
(* start_transfer: an upload or a download of the host of the moment.       *)
StartTransfer(t) ==
    /\ host # {}
    /\ transfer[t] = NotStarted
    /\ transfer' = [transfer EXCEPT ![t] =
           [NotStarted EXCEPT !.host = host, !.row = "Transferring", !.answer = TRUE]]
    /\ UNCHANGED <<host, session, opens, listVars, told>>

Running(t) == transfer[t].row # "none" /\ transfer[t].thread = "running"

(* upload_file_blocking, download_file_blocking: without a session or a     *)
(* file the thread returns an error and emits nothing; after that it emits  *)
(* done with the outcome it returns.                                        *)
ThreadRefuses(t) ==
    /\ Running(t)
    /\ transfer' = [transfer EXCEPT ![t].thread = "failed"]
    /\ UNCHANGED <<host, session, opens, listVars, told>>

ThreadEnds(t, outcome) ==
    /\ Running(t)
    /\ transfer' = [transfer EXCEPT ![t].thread = outcome, ![t].event = TRUE]
    /\ UNCHANGED <<host, session, opens, listVars, told>>

(* Mutant: the second one is told again.                                    *)
FinishTwice(t, seen) ==
    /\ transfer' = [transfer EXCEPT ![t] =
           [seen EXCEPT !.row = IF seen.thread = "done" THEN "Done" ELSE "Error"]]
    /\ told' = [told EXCEPT ![t] = @ + 1]

(* finish_transfer after the event or the error of the command: the first   *)
(* one decides.                                                             *)
Finish(t, seen) ==
    IF seen.row = "Transferring"
    THEN /\ transfer' = [transfer EXCEPT ![t] =
                [seen EXCEPT !.row = IF seen.thread = "done" THEN "Done" ELSE "Error"]]
         /\ told' = [told EXCEPT ![t] = @ + 1]
    ELSE /\ transfer' = [transfer EXCEPT ![t] = seen]
         /\ UNCHANGED told

(* A success refreshes the side that received the file, the remote one      *)
(* after an upload.                                                         *)
OnDone(t) ==
    /\ transfer[t].event
    /\ Finish(t, [transfer[t] EXCEPT !.event = FALSE])
    /\ IF /\ Room /\ t \in Uploads
          /\ transfer[t].row = "Transferring" /\ transfer[t].thread = "done"
       THEN Navigate(path)
       ELSE UNCHANGED listVars
    /\ UNCHANGED <<host, session, opens>>

(* Mutant: a command that fails is left to its event.                       *)
OnAnswerIgnored(t) ==
    /\ transfer[t].answer /\ transfer[t].thread # "running"
    /\ transfer' = [transfer EXCEPT ![t].answer = FALSE]
    /\ UNCHANGED <<host, session, opens, listVars, told>>

OnAnswer(t) ==
    /\ transfer[t].answer /\ transfer[t].thread # "running"
    /\ IF transfer[t].thread = "failed"
       THEN Finish(t, [transfer[t] EXCEPT !.answer = FALSE])
       ELSE transfer' = [transfer EXCEPT ![t].answer = FALSE] /\ UNCHANGED told
    /\ UNCHANGED <<host, session, opens, listVars>>
------------------------------------------------------------------------------
User ==
    \/ \E h \in Hosts : OpenSession(h)
    \/ \E p \in Paths : UserNavigates(p)
    \/ Refresh
    \/ \E t \in Transfers : StartTransfer(t)

OpenAnswers(i) == OpenSucceeds(i, Home) \/ OpenSucceeds(i, Root) \/ OpenFails(i)
ListingAnswers(i) == ListingArrives(i) \/ ListingFails(i)
ThreadStep(t) == ThreadRefuses(t) \/ \E o \in {"done", "failed"} : ThreadEnds(t, o)
Heard(t) == OnDone(t) \/ OnAnswer(t)

PanelNext ==
    \/ User
    \/ \E i \in 1 .. MaxOpens : OpenAnswers(i)
    \/ \E i \in 1 .. MaxRequests : ListingAnswers(i)
    \/ \E t \in Transfers : ThreadStep(t) \/ Heard(t)

PanelSpec == PanelInit /\ [][PanelNext]_vars

(* The threads of the backend end: their reads and writes fail with the     *)
(* connection at the latest.  The view takes what they answer.              *)
PanelFairness ==
    /\ \A i \in 1 .. MaxOpens : WF_vars(OpenAnswers(i))
    /\ \A i \in 1 .. MaxRequests : WF_vars(ListingAnswers(i))
    /\ \A t \in Transfers : WF_vars(ThreadStep(t)) /\ WF_vars(Heard(t))

PanelFairSpec == PanelSpec /\ PanelFairness
------------------------------------------------------------------------------
(* Every variable has its type.                                             *)
PanelTypeOK ==
    /\ host \subseteq Hosts /\ Cardinality(host) <= 1
    /\ session \in {"Idle", "Connecting", "Ready", "Failed"}
    /\ opens \in Seq([host: Hosts, phase: {"asked", "ok", "failed"}])
    /\ requests \in Seq([host: Hosts, path: Paths, phase: {"asked", "ok", "failed"}])
    /\ path \in Paths
    /\ listing \subseteq Hosts \X Paths /\ Cardinality(listing) <= 1
    /\ loading \in BOOLEAN
    /\ transfer \in
           [Transfers -> [host: SUBSET Hosts, row: Row, thread: Outcomes,
                          event: BOOLEAN, answer: BOOLEAN]]
    /\ told \in [Transfers -> 0 .. 2]

(* The panel's state is that of the last open, and that open was for the    *)
(* host of the panel: an open that answers late, for a host the user has    *)
(* left, changes nothing (the check of open_seq).                           *)
SessionIsOfHost ==
    LET last == opens[Len(opens)]
    IN  IF opens = <<>> THEN session = "Idle" /\ host = {}
        ELSE /\ host = {last.host}
             /\ session = CASE last.phase = "asked" -> "Connecting"
                            [] last.phase = "ok" -> "Ready"
                            [] last.phase = "failed" -> "Failed"

(* The spinner turns exactly while the last request has no answer, however  *)
(* many older ones answer before or after it.                               *)
SpinnerTellsTruth == loading <=> Asked(requests, Len(requests))

(* A listing on show is that of the path field, and once the last request   *)
(* is answered with a listing it is that one or has been reset: an older    *)
(* directory never comes back over a newer one (the check of remote_seq).   *)
ShowsLastAsked ==
    /\ \A l \in listing : l[2] = path
    /\ requests # <<>> => LET last == requests[Len(requests)]
                          IN  last.phase = "ok" => listing \subseteq {<<last.host, last.path>>}

(* A transfer's row tells how its thread ended, and its end is told once,   *)
(* whichever of the event and the answer comes first (finish_transfer).     *)
TransferTruth == \A t \in Transfers :
    /\ transfer[t].row = "Done" => transfer[t].thread = "done"
    /\ transfer[t].row = "Error" => transfer[t].thread = "failed"
    /\ told[t] = IF transfer[t].row \in {"Done", "Error"} THEN 1 ELSE 0

(* The panel is consistent: types, state, spinner, listing and transfers.   *)
PanelInv ==
    PanelTypeOK /\ SessionIsOfHost /\ SpinnerTellsTruth /\ ShowsLastAsked /\ TransferTruth

(* Nothing turns for ever: the panel leaves Connecting, the spinner stops   *)
(* or belongs to a newer request, and every transfer ends, also one whose   *)
(* thread failed before its first event.                                    *)
PanelSettles ==
    /\ (session = "Connecting") ~> (session # "Connecting")
    /\ loading ~> ~loading
    /\ \A t \in Transfers :
           (transfer[t].row = "Transferring") ~> (transfer[t].row \in {"Done", "Error"})
==============================================================================
