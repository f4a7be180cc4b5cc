-------------------------- MODULE TerminalWorkspace --------------------------
(***************************************************************************)
(* The terminal tabs of the app (app/src/terminal/workspace.rs): tabs with *)
(* a main pane and possibly a split pane, each the result of a connection  *)
(* attempt that runs in the background while the user retries, splits,     *)
(* closes tabs or quits.  The view runs on one thread; an attempt and a    *)
(* disconnect run on others, and their effects come whenever they come.    *)
(*                                                                         *)
(* The session an attempt brings up is named by the attempt.               *)
(***************************************************************************)
EXTENDS Naturals, Sequences, FiniteSets, SequencesExt

CONSTANTS
    Hosts,          \* the hosts tabs are opened for
    Local,          \* the target of a local shell, no host
    MaxTabs,        \* bound: tabs ever opened
    MaxAttempts     \* bound: connection attempts ever made

None == 0

ASSUME WorkspaceAssumption ==
    /\ Local \notin Hosts
    /\ None \notin Hosts \cup {Local}
    /\ MaxTabs \in Nat
    /\ MaxAttempts \in Nat

Keys == 1 .. MaxTabs
Attempts == 1 .. MaxAttempts
Parts == {"main", "split"}
Modes == {"tab", "all", "others", "left", "right"}

VARIABLES
    tabs,       \* the keys of the open tabs, in the order of the tab bar
    pane,       \* what each part of each tab shows
    host,       \* the host of each tab
    active,     \* the key of the active tab, or None
    attempts,   \* the attempts made so far
    saving,     \* the tabs whose new credentials are being saved
    open,       \* the sessions the terminal manager holds
    closing,    \* the sessions whose disconnect is on its way
    running     \* "yes"; "quit" or "windowless" after cx.quit(); then "exited"

vars == <<tabs, pane, host, active, attempts, saving, open, closing, running>>
------------------------------------------------------------------------------
NoPane == [state |-> "None", attempt |-> None, session |-> None]
Waiting(a) == [state |-> "Connecting", attempt |-> a, session |-> None]
Showing(a) == [state |-> "Connected", attempt |-> None, session |-> a]
Failed(s) == [state |-> "Error", attempt |-> None, session |-> s]

(* What a part of a tab shows; a closed tab shows nothing.                  *)
Panes == [state: {"None", "Connecting", "Connected", "Error"},
          attempt: {None} \cup Attempts,
          session: {None} \cup Attempts]

Phases == {"connecting", "up", "failed", "settled"}

Sessions(ks) == {pane[k][p].session : k \in ks, p \in Parts} \ {None}
IsOpen(k) == k \in Range(tabs)
Opened == Cardinality({k \in Keys : host[k] # None})

WorkspaceInit ==
    /\ tabs = <<>>
    /\ pane = [k \in Keys |-> [p \in Parts |-> NoPane]]
    /\ host = [k \in Keys |-> None]
    /\ active = None
    /\ attempts = <<>>
    /\ saving = {}
    /\ open = {}
    /\ closing = {}
    /\ running = "yes"
------------------------------------------------------------------------------
(* A background connection for part p of tab k begins.                      *)
BeginAttempt(k, p) ==
    /\ Len(attempts) < MaxAttempts
    /\ attempts' = Append(attempts, [key |-> k, part |-> p, phase |-> "connecting"])

NextAttempt == Len(attempts) + 1

(* Mutant: start_connect forgets to hang up the session it replaces.        *)
StartConnectOver(k) ==
    /\ BeginAttempt(k, "main")
    /\ pane' = [pane EXCEPT ![k]["main"] = Waiting(NextAttempt)]
    /\ active' = k
    /\ UNCHANGED closing

(* start_connect: the tab forgets the pane it had, whose session is hung    *)
(* up, waits for a new attempt and becomes the active one.                  *)
StartConnect(k) ==
    /\ BeginAttempt(k, "main")
    /\ pane' = [pane EXCEPT ![k]["main"] = Waiting(NextAttempt)]
    /\ closing' = closing \cup ({pane[k]["main"].session} \ {None})
    /\ active' = k

PushTab(h) ==
    /\ Opened < MaxTabs
    /\ tabs' = Append(tabs, Opened + 1)
    /\ host' = [host EXCEPT ![Opened + 1] = h]
    /\ StartConnect(Opened + 1)
    /\ UNCHANGED <<saving, open, running>>

(* The places in the tab bar of the host's tabs that are not broken.        *)
Alive(h) == {i \in DOMAIN tabs : host[tabs[i]] = h
                /\ pane[tabs[i]]["main"].state \in {"Connecting", "Connected"}}

(* The first of them becomes active.                                        *)
FocusHost(h) ==
    /\ running = "yes"
    /\ \E i \in Alive(h) : (\A j \in Alive(h) : i <= j) /\ active' = tabs[i]
    /\ UNCHANGED <<tabs, pane, host, attempts, saving, open, closing, running>>

OpenHost(h) ==
    /\ running = "yes"
    /\ Alive(h) = {}
    /\ PushTab(h)

OpenLocal ==
    /\ running = "yes"
    /\ PushTab(Local)

SetActive(k) ==
    /\ running = "yes"
    /\ IsOpen(k)
    /\ active' = k
    /\ UNCHANGED <<tabs, pane, host, attempts, saving, open, closing, running>>

(* The buttons of a tab whose connection failed: try again as it is, or     *)
(* after its new credentials are saved.                                     *)
Retry(k) ==
    /\ running = "yes"
    /\ IsOpen(k)
    /\ pane[k]["main"].state = "Error"
    /\ StartConnect(k)
    /\ UNCHANGED <<tabs, host, saving, open, running>>

SaveAuth(k) ==
    /\ running = "yes"
    /\ IsOpen(k)
    /\ pane[k]["main"].state = "Error"
    /\ host[k] \in Hosts
    /\ saving' = saving \cup {k}
    /\ UNCHANGED <<tabs, pane, host, active, attempts, open, closing, running>>

(* The tab may be closed, retried or connected by the time the save answers.*)
AuthSaved(k) ==
    /\ running # "exited"
    /\ k \in saving
    /\ saving' = saving \ {k}
    /\ IF IsOpen(k)
       THEN StartConnect(k)
       ELSE UNCHANGED <<pane, closing, active, attempts>>
    /\ UNCHANGED <<tabs, host, open, running>>

AuthNotSaved(k) ==
    /\ running # "exited"
    /\ k \in saving
    /\ saving' = saving \ {k}
    /\ UNCHANGED <<tabs, pane, host, active, attempts, open, closing, running>>

OpenSplit(k) ==
    /\ running = "yes"
    /\ IsOpen(k)
    /\ pane[k]["main"].state = "Connected"
    /\ pane[k]["split"].state = "None"
    /\ BeginAttempt(k, "split")
    /\ pane' = [pane EXCEPT ![k]["split"] = Waiting(NextAttempt)]
    /\ UNCHANGED <<tabs, host, active, saving, open, closing, running>>
------------------------------------------------------------------------------
(* The background connection ends: its session is registered, or it failed. *)
ConnectionComesUp(a) ==
    /\ running # "exited"
    /\ attempts[a].phase = "connecting"
    /\ attempts' = [attempts EXCEPT ![a].phase = "up"]
    /\ open' = open \cup {a}
    /\ UNCHANGED <<tabs, pane, host, active, saving, closing, running>>

ConnectionFails(a) ==
    /\ running # "exited"
    /\ attempts[a].phase = "connecting"
    /\ attempts' = [attempts EXCEPT ![a].phase = "failed"]
    /\ UNCHANGED <<tabs, pane, host, active, saving, open, closing, running>>

(* Mutant: an answer is taken by whatever waits in its part of the tab.     *)
AnyWaiting(a) ==
    LET k == attempts[a].key
    IN  IsOpen(k) /\ pane[k][attempts[a].part].state = "Connecting"

Current(a) ==
    LET k == attempts[a].key
    IN  IsOpen(k) /\ pane[k][attempts[a].part].attempt = a

(* finish_connect, finish_split: the view takes the result.  A result that  *)
(* is no longer wanted is hung up.  Only the main pane takes the focus.     *)
FinishAttempt(a) ==
    /\ running # "exited"
    /\ attempts[a].phase \in {"up", "failed"}
    /\ attempts' = [attempts EXCEPT ![a].phase = "settled"]
    /\ LET k == attempts[a].key
           p == attempts[a].part
           came == attempts[a].phase = "up"
       IN  IF Current(a)
           THEN /\ pane' = [pane EXCEPT ![k][p] = IF came THEN Showing(a) ELSE Failed(None)]
                /\ active' = IF p = "main" THEN k ELSE active
                /\ UNCHANGED closing
           ELSE /\ closing' = IF came THEN closing \cup {a} ELSE closing
                /\ UNCHANGED <<pane, active>>
    /\ UNCHANGED <<tabs, host, saving, open, running>>

(* terminal_disconnect on its own task.                                     *)
Disconnect(s) ==
    /\ running # "exited"
    /\ s \in closing
    /\ closing' = closing \ {s}
    /\ open' = open \ {s}
    /\ UNCHANGED <<tabs, pane, host, active, attempts, saving, running>>

(* A write finds the session's actor gone and drops its registration.       *)
WriteFindsItClosed(s) ==
    /\ running # "exited"
    /\ s \in open \cap Sessions(Range(tabs))
    /\ open' = open \ {s}
    /\ UNCHANGED <<tabs, pane, host, active, attempts, saving, closing, running>>

(* An idle_disconnected or link_down report: every connected tab of the     *)
(* host is marked; its pane stays, and a split is not looked at.            *)
OnConnectionStatus(h) ==
    LET hit == {k \in Range(tabs) : host[k] = h /\ pane[k]["main"].state = "Connected"}
    IN  /\ running # "exited"
        /\ hit # {}
        /\ pane' = [k \in Keys |-> IF k \in hit
                       THEN [pane[k] EXCEPT !["main"] = Failed(pane[k]["main"].session)]
                       ELSE pane[k]]
        /\ UNCHANGED <<tabs, host, active, attempts, saving, open, closing, running>>
------------------------------------------------------------------------------
(* Mutant: the split goes and its session stays up.                         *)
CloseSplitOver(k) ==
    /\ running = "yes"
    /\ IsOpen(k)
    /\ pane[k]["split"].state # "None"
    /\ pane' = [pane EXCEPT ![k]["split"] = NoPane]
    /\ UNCHANGED <<tabs, host, active, attempts, saving, open, closing, running>>

CloseSplit(k) ==
    /\ running = "yes"
    /\ IsOpen(k)
    /\ pane[k]["split"].state # "None"
    /\ pane' = [pane EXCEPT ![k]["split"] = NoPane]
    /\ closing' = closing \cup ({pane[k]["split"].session} \ {None})
    /\ UNCHANGED <<tabs, host, active, attempts, saving, open, running>>

(* terminal_tab_close_targets; the "tab" entry is close_tab.                *)
Targets(k, mode) ==
    LET at == CHOOSE i \in DOMAIN tabs : tabs[i] = k
    IN  CASE mode = "tab" -> {k}
          [] mode = "all" -> Range(tabs)
          [] mode = "others" -> Range(tabs) \ {k}
          [] mode = "left" -> Range(SubSeq(tabs, 1, at - 1))
          [] mode = "right" -> Range(SubSeq(tabs, at + 1, Len(tabs)))

(* The tabs that stay when some close, in their order: retain, by places so *)
(* that proofs can follow it.                                               *)
Remaining(closed) ==
    LET kept == {i \in DOMAIN tabs : tabs[i] \notin closed}
        place(i) == Cardinality({j \in kept : j <= i})
    IN  [n \in 1 .. Cardinality(kept) |-> tabs[CHOOSE i \in kept : place(i) = n]]

(* Mutant: nothing becomes active when the last tab of the bar is closed.   *)
ActiveAfterCloseInPlace(closed, preferred) ==
    LET remaining == Remaining(closed)
        first == CHOOSE i \in DOMAIN tabs :
                    tabs[i] \in closed /\ \A j \in 1 .. i - 1 : tabs[j] \notin closed
    IN  CASE active \in Range(remaining) -> active
          [] active \notin Range(remaining) /\ preferred \in Range(remaining) -> preferred
          [] OTHER -> IF first \in DOMAIN remaining THEN remaining[first] ELSE None

(* active_key_after_close: the active tab if it stays, else the preferred   *)
(* one, else the one that takes the place of the first closed tab, else the *)
(* one before it.                                                           *)
ActiveAfterClose(closed, preferred) ==
    LET remaining == Remaining(closed)
        first == CHOOSE i \in DOMAIN tabs :
                    tabs[i] \in closed /\ \A j \in 1 .. i - 1 : tabs[j] \notin closed
    IN  CASE active \in Range(remaining) -> active
          [] active \notin Range(remaining) /\ preferred \in Range(remaining) -> preferred
          [] OTHER -> IF first \in DOMAIN remaining THEN remaining[first]
                      ELSE IF remaining # <<>> THEN Last(remaining) ELSE None

(* close_tabs: both panes of every closed tab are hung up.                  *)
CloseTabs(closed, preferred) ==
    /\ closed # {}
    /\ active' = ActiveAfterClose(closed, preferred)
    /\ tabs' = Remaining(closed)
    /\ pane' = [k \in Keys |-> IF k \in closed THEN [p \in Parts |-> NoPane] ELSE pane[k]]
    /\ closing' = closing \cup Sessions(closed)
    /\ UNCHANGED <<host, attempts, saving, open>>

Close(k, mode) ==
    /\ running = "yes"
    /\ IsOpen(k)
    /\ CloseTabs(Targets(k, mode), IF mode \in {"all", "tab"} THEN None ELSE k)
    /\ UNCHANGED running

(* The Quit action closes every session; closing the last window does not.  *)
Quit ==
    /\ running = "yes"
    /\ running' = "quit"
    /\ IF tabs = <<>>
       THEN UNCHANGED <<tabs, pane, host, active, attempts, saving, open, closing>>
       ELSE CloseTabs(Range(tabs), None)

LastWindowClosed ==
    /\ running = "yes"
    /\ running' = "windowless"
    /\ UNCHANGED <<tabs, pane, host, active, attempts, saving, open, closing>>

(* The event loop returns, main returns and the process is gone: nothing    *)
(* waits for the tasks that hang sessions up.                               *)
Exit ==
    /\ running \in {"quit", "windowless"}
    /\ running' = "exited"
    /\ UNCHANGED <<tabs, pane, host, active, attempts, saving, open, closing>>

Exited ==
    /\ running = "exited"
    /\ UNCHANGED vars
------------------------------------------------------------------------------
OpenAny == OpenLocal \/ \E h \in Hosts : OpenHost(h) \/ FocusHost(h)
OnTab(k) == SetActive(k) \/ Retry(k) \/ SaveAuth(k) \/ OpenSplit(k) \/ CloseSplit(k)
Background(a) == ConnectionComesUp(a) \/ ConnectionFails(a) \/ FinishAttempt(a)

WorkspaceNext ==
    \/ OpenAny
    \/ \E k \in Keys : OnTab(k) \/ AuthSaved(k) \/ AuthNotSaved(k)
    \/ \E k \in Keys, mode \in Modes : Close(k, mode)
    \/ \E a \in DOMAIN attempts : Background(a)
    \/ \E s \in Attempts : Disconnect(s) \/ WriteFindsItClosed(s)
    \/ \E h \in Hosts : OnConnectionStatus(h)
    \/ Quit \/ LastWindowClosed \/ Exit \/ Exited

WorkspaceSpec == WorkspaceInit /\ [][WorkspaceNext]_vars

(* A connection has a timeout, the runtime runs its tasks and the view its  *)
(* callbacks, while the process lives; nobody has to click anything.        *)
WorkspaceFairness ==
    /\ \A a \in Attempts : WF_vars(a \in DOMAIN attempts /\ Background(a))
    /\ \A s \in Attempts : WF_vars(Disconnect(s))

WorkspaceFairSpec == WorkspaceSpec /\ WorkspaceFairness
------------------------------------------------------------------------------
Undelivered == {a \in DOMAIN attempts : attempts[a].phase = "up"}
Shown == Sessions(Range(tabs))

(* Every variable has its type: tabs lists opened tabs once each, a pane    *)
(* and an attempt are what their constructors make.                         *)
WorkspaceTypeOK ==
    /\ tabs \in Seq(Keys) /\ IsInjective(tabs)
    /\ pane \in [Keys -> [Parts -> Panes]]
    /\ host \in [Keys -> Hosts \cup {Local, None}]
    /\ active \in {None} \cup Keys
    /\ attempts \in Seq([key: Keys, part: Parts, phase: Phases])
    /\ saving \subseteq Keys
    /\ open \subseteq Attempts /\ closing \subseteq Attempts
    /\ running \in {"yes", "quit", "windowless", "exited"}

(* No session leaks: whatever the user did while its connection was on its  *)
(* way, a registered session is in a pane, in an answer the view has yet to *)
(* take, or in a disconnect - and in one of them only, so nothing hangs up  *)
(* a session a pane shows (start_connect, finish_connect, finish_split,     *)
(* close_split, close_tabs).                                                *)
NoSessionLeaks ==
    /\ open \subseteq Shown \cup Undelivered \cup closing
    /\ Shown \cap closing = {} /\ Shown \cap Undelivered = {}
    /\ closing \cap Undelivered = {}
    /\ \A k1, k2 \in Keys, p1, p2 \in Parts :
          /\ pane[k1][p1].session # None
          /\ pane[k1][p1].session = pane[k2][p2].session
          => k1 = k2 /\ p1 = p2

(* A spinner has something to wait for: a part of a tab is connecting       *)
(* exactly while it names an attempt, that attempt was made for it and its  *)
(* answer is not yet taken; a connected part has a session.                 *)
SpinnersWait == \A k \in Keys, p \in Parts :
    LET v == pane[k][p]
    IN  /\ v.state = "Connecting" <=> v.attempt # None
        /\ v.state = "Connecting" => /\ v.attempt \in DOMAIN attempts
                                     /\ attempts[v.attempt].key = k
                                     /\ attempts[v.attempt].part = p
                                     /\ attempts[v.attempt].phase # "settled"
        /\ v.state = "Connected" => v.session # None

(* There is an active tab exactly while there are tabs, and it is one of    *)
(* them, whichever tabs a close took away (active_key_after_close).         *)
ActiveIsOpen == IF tabs = <<>> THEN active = None ELSE IsOpen(active)

(* The view is consistent: types, spinners and focus.                       *)
WorkspaceInv == WorkspaceTypeOK /\ SpinnersWait /\ ActiveIsOpen

(* The last attempt wins: a session that appears in a part of a tab comes   *)
(* from the last attempt made for that part, however the answers are        *)
(* ordered (the attempt check of finish_connect and finish_split).          *)
LastAttemptWins == [][\A k \in Keys, p \in Parts :
    LET s == pane'[k][p].session
    IN  s \notin {None, pane[k][p].session} =>
            \A a \in DOMAIN attempts :
                attempts[a].key = k /\ attempts[a].part = p => a <= s]_vars

(* An attempt's answer is taken, and a session no pane shows is hung up or  *)
(* shown, unless the process ends first.                                    *)
Unshown(s) == s \in open /\ s \notin Shown
Unsettled(a) == a \in DOMAIN attempts /\ attempts[a].phase # "settled"
NothingLingers == \A s \in Attempts :
    (Unshown(s) \/ Unsettled(s)) ~> (~Unshown(s) /\ ~Unsettled(s)) \/ running = "exited"
==============================================================================
