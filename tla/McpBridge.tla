----------------------------- MODULE McpBridge -----------------------------
(***************************************************************************)
(* The server of the external MCP bridge (app/src/mcp_bridge/mod.rs,       *)
(* McpBridge) and its listeners (crates/ops-ai/src/mcp_bridge.rs, start).  *)
(* apply brings the server in line with the preferences: it drops the old  *)
(* handle, remembers the settings it wants and asks the async runtime for  *)
(* a listener; the answer comes back to the main thread later, when the    *)
(* settings may be different ones.  Dropping a handle only signals the     *)
(* accept loop, which gives the port back when it gets to run.             *)
(*                                                                         *)
(* The discovery file tells the stdio launcher where the server is.  The   *)
(* bridge goes on when the file cannot be written or removed, and an       *)
(* earlier run of the app may have left one.                               *)
(***************************************************************************)
EXTENDS Naturals, FiniteSets

CONSTANTS
  Fixed,      \* settings (address, port, token) that name one and the same port
  AnyPort,    \* settings that let the system choose the port (stdio only)
  Absent,
  MaxStarts   \* bound on the listeners asked for

ASSUME BridgeAssumption ==
  /\ MaxStarts \in Nat
  /\ Fixed \cap AnyPort = {} /\ Absent \notin Fixed \cup AnyPort \cup Nat

VARIABLES
  on, setting,   \* external_mcp.enabled and the rest, in the preferences
  desired, status, handle,   \* the fields of McpBridge
  starts,        \* calls of start made so far
  wants, at,     \* of each: its settings, and how far it is
  listening,     \* the starts whose socket is open
  stopping,      \* those whose accept loop has been told to end
  discovery,     \* the start that the discovery file describes
  unsaved        \* history: the file was left as it was when it should change

prefsVars == <<on, setting>>
startVars == <<starts, wants, at, listening>>
bridgeVars == <<on, setting, desired, status, handle, starts, wants, at,
                listening, stopping, discovery, unsaved>>
fileVars == <<discovery, unsaved>>

Setting == Fixed \cup AnyPort
Start == 1..MaxStarts
EarlierRun == 0   \* the server that a file left by an earlier run describes
At == {"none", "binding", "bound", "refused", "over"}

BridgeInit ==
  /\ on = FALSE /\ setting \in Setting
  /\ desired = Absent /\ status = "disabled" /\ handle = Absent
  /\ starts = 0
  /\ wants = [i \in Start |-> Absent] /\ at = [i \in Start |-> "none"]
  /\ listening = {} /\ stopping = {}
  /\ discovery \in {Absent, EarlierRun} /\ unsaved = (discovery # Absent)
-----------------------------------------------------------------------------
(* BridgeHandle::drop signals the accept loop. *)
Dropped(h) == {h} \ {Absent}

(* write_discovery goes by way of a temporary file and a rename, so that a  *)
(* write that fails leaves the old file; a failure to write is only logged, *)
(* and one of remove_discovery is ignored.                                  *)
FileBecomes(file) ==
  \/ discovery' = file /\ unsaved' = FALSE
  \/ UNCHANGED discovery /\ unsaved' = TRUE

StopServerOnly ==
  /\ handle' = Absent /\ desired' = Absent /\ status' = "disabled"
  /\ FileBecomes(Absent)
  /\ UNCHANGED <<startVars, stopping>>

StopServer ==
  /\ handle' = Absent /\ desired' = Absent /\ status' = "disabled"
  /\ FileBecomes(Absent)
  /\ stopping' = stopping \cup Dropped(handle)
  /\ UNCHANGED startVars

Restart(s) ==
  /\ starts < MaxStarts
  /\ starts' = starts + 1
  /\ wants' = [wants EXCEPT ![starts + 1] = s]
  /\ at' = [at EXCEPT ![starts + 1] = "binding"]
  /\ desired' = s /\ status' = "starting"
  /\ handle' = Absent /\ stopping' = stopping \cup Dropped(handle)
  /\ UNCHANGED <<listening, fileVars>>

(* apply, for preferences that are loaded and have a token. *)
Apply ==
  \/ ~on' /\ StopServer
  \/ /\ on' /\ desired = setting'
     /\ UNCHANGED <<desired, status, handle, startVars, stopping, fileVars>>
  \/ on' /\ desired # setting' /\ Restart(setting')

Switch == on' = ~on /\ UNCHANGED setting /\ Apply

(* Any other update of the preferences; after an error it tries the same    *)
(* settings again, and while external MCP is off it removes the file again. *)
Change == \E s \in Setting : setting' = s /\ UNCHANGED on /\ Apply

(* check_idle, in temporary mode, when no call came for long enough. *)
IdleOff == status = "running" /\ on /\ on' = FALSE /\ UNCHANGED setting /\ Apply

Conflict(i) == wants[i] \in Fixed /\ \E j \in listening : wants[j] \in Fixed

(* A fixed port may also be in use by another program. *)
Bind(i) ==
  /\ at[i] = "binding"
  /\ \/ ~Conflict(i)
        /\ at' = [at EXCEPT ![i] = "bound"]
        /\ listening' = listening \cup {i}
     \/ wants[i] \in Fixed
        /\ at' = [at EXCEPT ![i] = "refused"]
        /\ UNCHANGED listening
  /\ UNCHANGED <<prefsVars, desired, status, handle, starts, wants, stopping,
                 fileVars>>

LoopEnds(i) ==
  /\ i \in stopping
  /\ stopping' = stopping \ {i} /\ listening' = listening \ {i}
  /\ UNCHANGED <<prefsVars, desired, status, handle, starts, wants, at,
                 fileVars>>

(* The answer, when the settings changed again while the listener started. *)
AnswerLate(i) ==
  /\ at[i] \in {"bound", "refused"} /\ desired # wants[i]
  /\ at' = [at EXCEPT ![i] = "over"]
  /\ stopping' = stopping \cup ({i} \cap listening)
  /\ UNCHANGED <<prefsVars, desired, status, handle, starts, wants, listening,
                 fileVars>>

KeepHandle(i) ==
  /\ status' = "running" /\ handle' = i /\ FileBecomes(i)
  /\ stopping' = stopping \cup Dropped(handle)
  /\ at' = [at EXCEPT ![i] = "over"]
  /\ UNCHANGED <<prefsVars, desired, starts, wants, listening>>

AnswerAnyway(i) == at[i] = "bound" /\ KeepHandle(i)

AnswerOk(i) == at[i] = "bound" /\ desired = wants[i] /\ KeepHandle(i)

AnswerErr(i) ==
  /\ at[i] = "refused" /\ desired = wants[i]
  /\ desired' = Absent /\ status' = "error"
  /\ at' = [at EXCEPT ![i] = "over"]
  /\ UNCHANGED <<prefsVars, handle, starts, wants, listening, stopping,
                 fileVars>>

ServerStep(i) ==
  Bind(i) \/ LoopEnds(i) \/ AnswerLate(i) \/ AnswerOk(i) \/ AnswerErr(i)

BridgeNext == Switch \/ Change \/ IdleOff \/ \E i \in Start : ServerStep(i)

(* The runtime's tasks and the main thread run; nobody has to change the    *)
(* settings.                                                                *)
BridgeSpec ==
  /\ BridgeInit /\ [][BridgeNext]_bridgeVars
  /\ \A i \in Start : WF_bridgeVars(ServerStep(i))
-----------------------------------------------------------------------------
BridgeTypeOK ==
  /\ on \in BOOLEAN /\ setting \in Setting
  /\ desired \in Setting \cup {Absent}
  /\ status \in {"disabled", "starting", "running", "error"}
  /\ handle \in Start \cup {Absent}
  /\ discovery \in Start \cup {Absent, EarlierRun} /\ unsaved \in BOOLEAN
  /\ starts \in 0..MaxStarts
  /\ wants \in [Start -> Setting \cup {Absent}] /\ at \in [Start -> At]
  /\ listening \subseteq Start /\ stopping \subseteq listening

(* Every open socket has an owner: the handle, an answer on its way, or a   *)
(* loop that has been told to end.                                          *)
NoOrphan ==
  \A i \in listening : i = handle \/ at[i] = "bound" \/ i \in stopping

HandleIsOpen ==
  handle # Absent => handle \in listening \ stopping /\ at[handle] = "over"

(* A start has the settings it was asked for; its socket is open from when  *)
(* it is bound until its loop ends, and nobody ends the loop of a start     *)
(* whose answer is on its way.                                              *)
StartsAreKnown ==
  \A i \in Start :
    /\ at[i] = "none" <=> starts < i
    /\ at[i] # "none" => wants[i] \in Setting
    /\ at[i] = "bound" => i \in listening
    /\ i \in listening => at[i] \in {"bound", "over"}
    /\ i \in stopping => at[i] = "over"

(* While external MCP is off there is no handle and no start whose answer   *)
(* would be taken, and the file was "removed when the bridge stops" unless  *)
(* that failed; while it is on, only the answer for the present settings is *)
(* taken.                                                                   *)
OffIsOff ==
  /\ ~on => handle = Absent /\ status = "disabled" /\ (discovery = Absent \/ unsaved)
  /\ desired # Absent => on /\ desired = setting

(* What the window shows as running is the server of the present settings,  *)
(* and the file describes that one unless it could not be written.          *)
RunningIsServed ==
  status = "running" =>
    /\ handle # Absent /\ (discovery = handle \/ unsaved)
    /\ wants[handle] = setting /\ desired = setting

(* Whatever file was left behind, the launcher reaches no other server than *)
(* the bridge's: a listener that the file describes is that one, or it is   *)
(* closed, or has been told to close; and it is one that was taken.         *)
FileLeadsNowhereElse ==
  /\ discovery \in listening \ stopping => discovery = handle
  /\ discovery \in Start => at[discovery] = "over"

(* The books of the bridge: its sockets have owners, off means off,         *)
(* "running" names the server of the present settings, and so does the      *)
(* discovery file or nothing that answers.                                  *)
BridgeInv ==
  BridgeTypeOK /\ NoOrphan /\ HandleIsOpen /\ StartsAreKnown /\ OffIsOff
    /\ RunningIsServed /\ FileLeadsNowhereElse

(* How far a start is from its end, and that all only go on: whatever the   *)
(* user does meanwhile, no listener is taken back to an earlier stage, and  *)
(* each step of the runtime takes one to a later one.                       *)
Stage(i) ==
  CASE at[i] = "none" -> 5
    [] at[i] = "binding" -> 4
    [] at[i] = "bound" -> 3
    [] at[i] = "refused" -> 2
    [] at[i] = "over" -> IF i \notin listening THEN 0
                         ELSE IF i \in stopping THEN 1 ELSE 2
StartsGoOn ==
  [][\A i \in Start : /\ Stage(i)' <= Stage(i)
                      /\ ServerStep(i) => Stage(i)' < Stage(i)]_bridgeVars

(* While it is off, a socket that is open is one whose loop was told to     *)
(* end, or whose answer will tell it.                                       *)
OffIsClosing ==
  ~on => \A i \in listening :
           i \in stopping \/ (at[i] = "bound" /\ desired # wants[i])

(* "Running exactly while external MCP is on": a bridge that stays off      *)
(* closes every listener, those that were still starting included.          *)
OffCloses == <>[](~on) => <>[](listening = {})

=============================================================================
