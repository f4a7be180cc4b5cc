---------------------------- MODULE RemoteEditor ----------------------------
(***************************************************************************)
(* An editor window over a remote directory (app/src/editor/window.rs).    *)
(* Its loads and saves are calls of sftp_read_file and sftp_write_file on  *)
(* the sessions of SftpSessions, each on a thread of its own, while the    *)
(* user types, picks other files, saves and closes the window.             *)
(*                                                                         *)
(* A text is one of a few; a write that fails may leave the file as it     *)
(* was, cut short, or written.                                             *)
(***************************************************************************)
EXTENDS SftpSessions

CONSTANTS
    Files,      \* the files of the directory
    Texts,      \* what a file may contain
    Cut,        \* what a write that failed half way leaves
    Save,       \* the call that saves, one at a time
    Loads,      \* the calls that load
    MaxSaves,   \* bound: saves
    MaxLoads    \* bound: loads

ASSUME EditorAssumption ==
    /\ Texts # {} /\ Cut \notin Texts
    /\ Save \in Calls \ (Reads \cup PanelCalls)
    /\ Loads \subseteq Reads \ PanelCalls
    /\ MaxSaves \in Nat
    /\ MaxLoads \in Nat

VARIABLES
    window,     \* "open", "asking" about unsaved text, "closing", "closed"
    current,    \* current_path, a set with the file or nothing
    text,       \* what the editor holds
    original,   \* what it compares the text with
    dirty,      \* what it makes of that
    saving,     \* a save is on its way
    saved,      \* the file and text it carries
    saves,      \* the number of saves begun
    loads,      \* the loads begun; load_seq is their number
    left,       \* how the window was left
    remote,     \* the files
    mixed       \* a load and a save were on their way at once, or a save failed

windowVars == <<window, current, text, original, dirty, saving, saved, saves, loads, left>>
editorVars == <<windowVars, remote, mixed>>
everything == <<allVars, editorVars>>
panelVars == <<vars, cast, opener, lent>>
------------------------------------------------------------------------------
Mine == {Save} \cup Loads
AnyText == Texts \cup {Cut}

EditorInit ==
    /\ SessionsInit
    /\ window = IF Mine \cap cast.others # {} THEN "open" ELSE "closed"
    /\ current = {}
    /\ text = Cut /\ original = Cut
    /\ dirty = FALSE /\ saving = FALSE
    /\ saved = <<>>
    /\ saves = 0
    /\ loads = <<>>
    /\ left = "not"
    /\ remote = [f \in Files |-> CHOOSE x \in Texts : TRUE]
    /\ mixed = FALSE

Usable == window \in {"open", "closing"}

(* The loads on their way.                                                  *)
Loading ==
    {i \in DOMAIN loads :
        /\ call[loads[i].call].step # "over"
        /\ \A j \in DOMAIN loads : j > i => loads[j].call # loads[i].call}

(* A call of the editor begins; the last one of its thread is over.         *)
Asks(c, h) ==
    /\ c \in cast.others /\ call[c].step \in {"none", "over"}
    /\ call' = [call EXCEPT ![c] =
           [step |-> "ensure", host |-> {h}, session |-> 0, again |-> FALSE, failed |-> 0]]
    /\ UNCHANGED <<panelVars, table, made, broken>>

(* load_file: a click on a file of the tree, also over unsaved text.        *)
LoadFile(c, f, h) ==
    /\ Usable /\ Len(loads) < MaxLoads
    /\ Asks(c, h)
    /\ loads' = Append(loads, [call |-> c, file |-> f, text |-> Cut])
    /\ mixed' = (mixed \/ saving)
    /\ UNCHANGED <<window, current, text, original, dirty, saving, saved, saves, left, remote>>

LoadReads(i) ==
    /\ Acts(loads[i].call)
    /\ loads' = [loads EXCEPT ![i].text = remote[loads[i].file]]
    /\ UNCHANGED <<window, current, text, original, dirty, saving, saved, saves, left,
                   remote, mixed>>

(* Only the last load fills the editor.                                     *)
LoadEnds(i) ==
    LET c == loads[i].call IN
    /\ CallAnswered(c)
    /\ IF i = Len(loads) /\ At(c, "ok") /\ window # "closed"
       THEN /\ current' = {loads[i].file}
            /\ text' = loads[i].text /\ original' = loads[i].text
            /\ dirty' = FALSE
       ELSE UNCHANGED <<current, text, original, dirty>>
    /\ UNCHANGED <<window, saving, saved, saves, loads, left, remote, mixed>>

Type(x) ==
    /\ Usable /\ current # {} /\ text # x
    /\ text' = x
    /\ dirty' = (x # original)
    /\ UNCHANGED <<allVars, window, current, original, saving, saved, saves, loads, left,
                   remote, mixed>>
------------------------------------------------------------------------------
(* save: nothing without a file, and nothing while another save runs.       *)
SaveBegins(h) ==
    /\ current # {} /\ ~saving /\ saves < MaxSaves
    /\ Asks(Save, h)
    /\ saving' = TRUE
    /\ saved' = <<The(current), text>>
    /\ saves' = saves + 1
    /\ mixed' = (mixed \/ Loading # {})
    /\ UNCHANGED <<current, text, original, dirty, loads, left, remote>>

UserSaves(h) == Usable /\ SaveBegins(h) /\ UNCHANGED window

SaveWrites ==
    /\ Acts(Save)
    /\ remote' = [remote EXCEPT ![saved[1]] = saved[2]]
    /\ UNCHANGED <<windowVars, mixed>>

SaveBreaksOff ==
    /\ ActsInVain(Save)
    /\ \/ /\ call'[Save].failed # 0
          /\ \E x \in {Cut, saved[2]} : remote' = [remote EXCEPT ![saved[1]] = x]
       \/ UNCHANGED remote
    /\ UNCHANGED <<windowVars, mixed>>

(* Mutant: the text of the moment is taken for the one that was saved.      *)
AfterSaveNow == <<text, FALSE>>

(* What the editor compares with, and what comes of it.                     *)
AfterSave == <<saved[2], text # saved[2]>>

(* A window that was closing goes, whether or not its text was saved.       *)
SaveEnds ==
    LET ok == At(Save, "ok") IN
    /\ CallAnswered(Save)
    /\ saving' = FALSE
    /\ mixed' = (mixed \/ ~ok)
    /\ IF ok /\ window # "closed"
       THEN original' = AfterSave[1] /\ dirty' = AfterSave[2]
       ELSE UNCHANGED <<original, dirty>>
    /\ IF window = "closing"
       THEN window' = "closed" /\ left' = IF ok THEN "saved" ELSE "failed"
       ELSE UNCHANGED <<window, left>>
    /\ UNCHANGED <<current, text, saved, saves, loads, remote>>
------------------------------------------------------------------------------
Leave(how) ==
    /\ window' = "closed" /\ left' = how
    /\ UNCHANGED <<allVars, current, text, original, saving, saved, saves, loads, remote, mixed>>

(* The close button: a window with unsaved text asks.                       *)
CloseClean == window = "open" /\ ~dirty /\ Leave("clean") /\ UNCHANGED dirty

CloseAsks ==
    /\ window = "open" /\ dirty
    /\ window' = "asking"
    /\ UNCHANGED <<allVars, current, text, original, dirty, saving, saved, saves, loads, left,
                   remote, mixed>>

(* "Save": the window goes when save returns, which it does at once while   *)
(* another save runs.                                                       *)
CloseSaves(h) == window = "asking" /\ SaveBegins(h) /\ window' = "closing"
CloseSavesNot == window = "asking" /\ saving /\ Leave("unfinished") /\ UNCHANGED dirty
CloseDiscards == window = "asking" /\ Leave("discarded") /\ dirty' = FALSE

(* The button again while a window that saves is still there: with the      *)
(* answer to what it asks.                                                  *)
CloseAgain ==
    /\ window = "closing"
    /\ \/ ~dirty /\ Leave("clean") /\ UNCHANGED dirty
       \/ dirty /\ Leave("unfinished") /\ UNCHANGED dirty
       \/ dirty /\ Leave("discarded") /\ dirty' = FALSE
------------------------------------------------------------------------------
MyCall(c) ==
    /\ EnsureFinds(c) \/ EnsureMisses(c) \/ Drops(c) \/ CallOpened(c) \/ CallNotOpened(c)
         \/ CallInserts(c) \/ Evicts(c)
    /\ UNCHANGED editorVars

LoadFails(i) == ActsInVain(loads[i].call) /\ UNCHANGED editorVars

EditorUser ==
    \/ \E h \in cast.hosts : UserSaves(h) \/ CloseSaves(h)
    \/ \E h \in cast.hosts, c \in Loads, f \in Files : LoadFile(c, f, h)
    \/ \E x \in Texts : Type(x)
    \/ CloseClean \/ CloseAsks \/ CloseSavesNot \/ CloseDiscards \/ CloseAgain

EditorSystem ==
    \/ \E c \in Mine : MyCall(c)
    \/ \E i \in Loading : LoadReads(i) \/ LoadFails(i) \/ LoadEnds(i)
    \/ SaveWrites \/ SaveBreaksOff \/ SaveEnds

EditorNext ==
    \/ Work(Calls \ Mine) /\ UNCHANGED editorVars
    \/ EditorUser
    \/ EditorSystem

(* Threads run on, and what they ask of a host is answered or fails with    *)
(* its connection.  The views take what they answer.                        *)
EditorFairness ==
    /\ \A o \in Openers : WF_everything(OpenerStep(o) /\ UNCHANGED editorVars)
    /\ \A i \in 1 .. MaxRequests : WF_everything(PanelLists(i) /\ UNCHANGED editorVars)
    /\ \A t \in Transfers :
           /\ WF_everything(TransferStep(t) /\ UNCHANGED editorVars)
           /\ WF_everything(PanelHears(t) /\ UNCHANGED editorVars)
    /\ \A c \in Calls \ Mine :
           WF_everything((CallStep(c) \/ CallAnswered(c)) /\ UNCHANGED editorVars)
    /\ WF_everything(EditorSystem)

EditorSpec == EditorInit /\ [][EditorNext]_everything /\ EditorFairness
------------------------------------------------------------------------------
(* Every variable has its type.                                             *)
EditorTypeOK ==
    /\ window \in {"open", "asking", "closing", "closed"}
    /\ current \subseteq Files /\ Cardinality(current) <= 1
    /\ {text, original} \subseteq AnyText
    /\ {dirty, saving, mixed} \subseteq BOOLEAN
    /\ saved \in {<<>>} \cup (Files \X AnyText)
    /\ saves \in 0 .. MaxSaves
    /\ loads \in Seq([call: Loads, file: Files, text: AnyText])
    /\ left \in {"not", "clean", "saved", "failed", "unfinished", "discarded"}
    /\ remote \in [Files -> AnyText]

(* A text that is shown as clean is in the file, though the user types and  *)
(* saves in any order, as long as loads and saves do not overlap and no     *)
(* save fails: what was typed while a save ran stays dirty after it.        *)
CleanIsStored ==
    window # "closed" /\ current # {} /\ ~dirty /\ ~saving /\ ~mixed
        => remote[The(current)] = text

(* The mark is right as long as the window is there, loads that overlap     *)
(* with saves included.                                                     *)
DirtyIsExact == window # "closed" => (dirty <=> text # original)

(* A window left after its save succeeded has left that text in the file.   *)
SavedIsStored == left = "saved" => remote[saved[1]] = saved[2]

EditorInv == EditorTypeOK /\ CleanIsStored /\ DirtyIsExact /\ SavedIsStored

(* The panel settles, every open and every call is answered, and a save     *)
(* ends, in spite of the waits for a transfer's guard.                      *)
EverythingSettles ==
    /\ SessionsSettle
    /\ saving ~> ~saving

(* The panel over the threads of the sessions does what SftpPanel promises, *)
(* its fairness included: every open, listing and transfer answers.         *)
ImplementsPanel == PanelFairSpec
==============================================================================
