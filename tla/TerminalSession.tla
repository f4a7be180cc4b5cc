-------------------------- MODULE TerminalSession --------------------------
(***************************************************************************)
(* One terminal session from the shell to the pane and back                *)
(* (crates/ops-ssh/src/terminal.rs, TerminalStreams of                     *)
(* crates/ops-core/src/events.rs, app/src/terminal/pane.rs).               *)
(*                                                                         *)
(* Output: a reader thread collects what arrives and hands it, with        *)
(* try_send, to a bounded channel; a pump joins what lies there and puts   *)
(* it on the session's stream, which the pane reads.  The empty string     *)
(* says that the session is closed.                                        *)
(*                                                                         *)
(* Input: the pane has an unbounded queue, whose forwarder looks the       *)
(* session up and gives each item, with try_send, to the bounded channel   *)
(* of the actor, which writes to the shell.  The size of a local terminal  *)
(* is set by the forwarder itself.                                         *)
(*                                                                         *)
(* A piece of output and an item of input are numbered as they come.  A    *)
(* message of output is the sequence of its pieces, the closing one <<>>.  *)
(***************************************************************************)
EXTENDS Naturals, Sequences, Functions

CONSTANTS
    EmitterCap,     \* EMITTER_CHANNEL_CAPACITY
    ActorCap,       \* ACTOR_CHANNEL_CAPACITY
    MaxPieces,      \* bound: pieces of output
    MaxItems        \* bound: items of input

ASSUME SessionAssumption ==
    /\ EmitterCap \in Nat \ {0} /\ ActorCap \in Nat \ {0}
    /\ MaxPieces \in Nat /\ MaxItems \in Nat

VARIABLES
    kind,       \* "ssh" or "local"
    far,        \* the channel or the shell at the other end: "open", "closed"
    pieces,     \* the pieces the reader has read
    reader,     \* "reads", "marks" (about to send the closing message), "over"
    batch,      \* the pieces the reader holds
    emitter,    \* the channel to the pump
    pump,       \* "idle", "joins", "over"
    buffer,     \* the pieces the pump holds
    stream,     \* the session's stream
    lost,       \* the pieces refused by a full channel ...
    markLost,   \* ... and the closing message so refused
    pane,       \* "none" as yet, "open", "gone"
    shown,      \* the messages the pane has shown
    told,       \* pane.closed
    typed,      \* the items of input: "write" or "resize"
    pty,        \* the pane's queue
    forwarder,  \* "looks", "sends" (it has the session's sender), "over"
    queue,      \* the actor's channel: items, Disconnect
    actor,      \* "waits", "writes", "over"
    item,       \* the item the actor writes
    applied,    \* the items that reached the shell
    registered, \* the manager has the session
    cleanup,    \* the thread of a disconnect: "none", "kill", "join", "over"
    missed      \* Disconnect was refused by a full channel

outVars == <<pieces, reader, batch, emitter, pump, buffer, stream, lost, markLost>>
paneVars == <<pane, shown, told>>
inVars == <<typed, pty, forwarder, queue, actor, item, applied>>
endVars == <<registered, cleanup, missed>>
sessionVars == <<kind, far, outVars, paneVars, inVars, endVars>>

Disconnect == 0
Mark == <<>>

SessionInit ==
    /\ kind \in {"ssh", "local"}
    /\ far = "open" /\ pieces = 0 /\ reader = "reads" /\ batch = <<>>
    /\ emitter = <<>> /\ pump = "idle" /\ buffer = <<>> /\ stream = <<>>
    /\ lost = {} /\ markLost = FALSE
    /\ pane = "none" /\ shown = <<>> /\ told = FALSE
    /\ typed = <<>> /\ pty = <<>> /\ forwarder = "looks"
    /\ queue = <<>> /\ actor = "waits" /\ item = Disconnect /\ applied = <<>>
    /\ registered = TRUE /\ cleanup = "none" /\ missed = FALSE
-----------------------------------------------------------------------------
(* The reader reads a piece, or flushes what it holds after 16 ms or 128 KB. *)
ReadPiece ==
    /\ reader = "reads" /\ pieces < MaxPieces
    /\ pieces' = pieces + 1
    /\ batch' = Append(batch, pieces')
    /\ UNCHANGED <<kind, far, reader, emitter, pump, buffer, stream, lost, markLost,
                   paneVars, inVars, endVars>>

(* flush_terminal_batch: an empty batch is not sent, a refused one is gone. *)
FlushBatch ==
    /\ batch' = <<>>
    /\ IF batch # <<>> /\ Len(emitter) < EmitterCap
       THEN emitter' = Append(emitter, batch) /\ UNCHANGED lost
       ELSE lost' = lost \cup Range(batch) /\ UNCHANGED emitter

Flush ==
    /\ reader = "reads" /\ batch # <<>>
    /\ FlushBatch
    /\ UNCHANGED <<kind, far, pieces, reader, pump, buffer, stream, markLost,
                   paneVars, inVars, endVars>>

(* Eof, Close, or the end of the shell's output: a last flush, then the mark. *)
ReadEnd ==
    /\ reader = "reads" /\ far = "closed"
    /\ FlushBatch
    /\ reader' = "marks"
    /\ UNCHANGED <<kind, far, pieces, pump, buffer, stream, markLost,
                   paneVars, inVars, endVars>>

SendMark ==
    /\ reader = "marks"
    /\ reader' = "over"
    /\ IF Len(emitter) < EmitterCap
       THEN emitter' = Append(emitter, Mark) /\ UNCHANGED markLost
       ELSE markLost' = TRUE /\ UNCHANGED emitter
    /\ UNCHANGED <<kind, far, pieces, batch, pump, buffer, stream, lost,
                   paneVars, inVars, endVars>>

(* TerminalStreams::emit: nobody hears it once the pane is gone. *)
Emit(messages) ==
    stream' = IF pane = "gone" THEN stream ELSE stream \o messages

PumpTakes ==
    /\ emitter # <<>> /\ pump # "over"
    /\ emitter' = Tail(emitter)
    /\ UNCHANGED <<kind, far, pieces, reader, batch, lost, markLost,
                   paneVars, inVars, endVars>>

PumpBegins ==
    /\ pump = "idle" /\ PumpTakes /\ Head(emitter) # Mark
    /\ buffer' = Head(emitter) /\ pump' = "joins"
    /\ UNCHANGED stream

PumpPassesMark ==
    /\ pump = "idle" /\ PumpTakes /\ Head(emitter) = Mark
    /\ Emit(<<Mark>>)
    /\ UNCHANGED <<pump, buffer>>

(* More for the buffer, which may be big enough now. *)
PumpJoins ==
    /\ pump = "joins" /\ PumpTakes /\ Head(emitter) # Mark
    /\ \/ buffer' = buffer \o Head(emitter) /\ UNCHANGED <<pump, stream>>
       \/ /\ Emit(<<buffer \o Head(emitter)>>)
          /\ buffer' = <<>> /\ pump' = "idle"

(* Mutants: the mark overtakes the buffer, or is forgotten. *)
PumpPutsMarkFirst ==
    /\ pump = "joins" /\ PumpTakes /\ Head(emitter) = Mark
    /\ Emit(<<Mark, buffer>>)
    /\ buffer' = <<>> /\ pump' = "idle"

PumpForgetsMark ==
    /\ pump = "joins" /\ PumpTakes /\ Head(emitter) = Mark
    /\ Emit(<<buffer>>)
    /\ buffer' = <<>> /\ pump' = "idle"

PumpEnds ==
    /\ pump = "joins" /\ PumpTakes /\ Head(emitter) = Mark
    /\ Emit(<<buffer, Mark>>)
    /\ buffer' = <<>> /\ pump' = "idle"

(* The 4 ms are over, or the reader is and its channel is empty. *)
PumpEmits ==
    /\ pump = "joins"
    /\ Emit(<<buffer>>)
    /\ buffer' = <<>> /\ pump' = "idle"
    /\ UNCHANGED <<kind, far, pieces, reader, batch, emitter, lost, markLost,
                   paneVars, inVars, endVars>>

PumpStops ==
    /\ pump = "idle" /\ emitter = <<>> /\ reader = "over"
    /\ pump' = "over"
    /\ UNCHANGED <<kind, far, pieces, reader, batch, emitter, buffer, stream, lost,
                   markLost, paneVars, inVars, endVars>>

PumpStep == PumpBegins \/ PumpPassesMark \/ PumpJoins \/ PumpEnds \/ PumpEmits \/ PumpStops
-----------------------------------------------------------------------------
(* TerminalPane::new claims the stream. *)
ClaimStream ==
    /\ pane = "none" /\ registered
    /\ pane' = "open"
    /\ UNCHANGED <<kind, far, outVars, shown, told, inVars, endVars>>

(* The pane takes what lies on the stream, or a part; what follows a mark in *)
(* the same take is not looked at.                                           *)
OnOutput(n) ==
    LET taken == SubSeq(stream, 1, n)
        ends == {i \in 1 .. n : taken[i] = Mark}
        last == IF ends = {} THEN n ELSE (CHOOSE i \in ends : \A j \in ends : i <= j) - 1
    IN
    /\ pane = "open"
    /\ stream' = SubSeq(stream, n + 1, Len(stream))
    /\ shown' = shown \o SubSeq(taken, 1, last)
    /\ told' = (told \/ ends # {})
    /\ UNCHANGED <<kind, far, pieces, reader, batch, emitter, pump, buffer, lost,
                   markLost, pane, inVars, endVars>>

PaneReads == \E n \in 1 .. Len(stream) : OnOutput(n)

(* The tab is closed: the pane is dropped and the session hung up. *)
ClosePane ==
    /\ pane \in {"none", "open"}
    /\ pane' = "gone"
    /\ stream' = <<>>
    /\ UNCHANGED <<kind, far, pieces, reader, batch, emitter, pump, buffer, lost,
                   markLost, shown, told, inVars, endVars>>
-----------------------------------------------------------------------------
(* A key, a paste, an answer of the screen, or a new size of the pane. *)
Type(what) ==
    /\ pane = "open" /\ Len(typed) < MaxItems
    /\ typed' = Append(typed, what)
    /\ pty' = Append(pty, Len(typed'))
    /\ UNCHANGED <<kind, far, outVars, paneVars, forwarder, queue, actor, item,
                   applied, endVars>>

ForwarderVars == <<kind, far, outVars, paneVars, typed, actor, item, cleanup, missed>>

(* terminal_write and terminal_resize look the session up ... *)
LookUp ==
    /\ forwarder = "looks" /\ pty # <<>> /\ registered
    /\ \/ kind = "ssh" \/ typed[Head(pty)] = "write"
    /\ forwarder' = "sends"
    /\ UNCHANGED <<ForwarderVars, pty, queue, applied, registered>>

(* ... ("session not found" ends the forwarder) ... *)
NotFound ==
    /\ forwarder = "looks" /\ pty # <<>> /\ ~registered
    /\ forwarder' = "over"
    /\ pty' = Tail(pty)
    /\ UNCHANGED <<ForwarderVars, queue, applied, registered>>

(* ... a local terminal is resized at once ... *)
ResizeLocal ==
    /\ forwarder = "looks" /\ pty # <<>> /\ registered
    /\ kind = "local" /\ typed[Head(pty)] = "resize"
    /\ pty' = Tail(pty)
    /\ applied' = Append(applied, Head(pty))
    /\ UNCHANGED <<ForwarderVars, forwarder, queue, registered>>

(* ... and try_send what the actor is to do.  A full channel refuses it; a   *)
(* write that finds the actor gone takes the session out of the manager.     *)
SendItem ==
    /\ forwarder = "sends" /\ forwarder' = "looks"
    /\ pty' = Tail(pty)
    /\ queue' = IF actor # "over" /\ Len(queue) < ActorCap
                THEN Append(queue, Head(pty)) ELSE queue
    /\ registered' = (registered /\ ~(actor = "over" /\ typed[Head(pty)] = "write"))
    /\ UNCHANGED <<ForwarderVars, applied>>

(* The pane is gone and its queue empty. *)
ForwarderStops ==
    /\ forwarder = "looks" /\ pty = <<>> /\ pane = "gone"
    /\ forwarder' = "over"
    /\ UNCHANGED <<ForwarderVars, pty, queue, applied, registered>>

ForwarderStep == LookUp \/ NotFound \/ ResizeLocal \/ SendItem \/ ForwarderStops

ActorVars == <<kind, outVars, paneVars, typed, pty, forwarder, endVars>>

ActorTakes ==
    /\ actor = "waits" /\ queue # <<>> /\ Head(queue) # Disconnect
    /\ actor' = "writes" /\ item' = Head(queue)
    /\ queue' = Tail(queue)
    /\ UNCHANGED <<ActorVars, far, applied>>

(* A write to the other end returns; it fails only when that is closed. *)
ActorWrites ==
    /\ actor = "writes"
    /\ item' = Disconnect
    /\ \/ actor' = "waits" /\ applied' = Append(applied, item)
       \/ far = "closed" /\ actor' = "over" /\ UNCHANGED applied
    /\ UNCHANGED <<ActorVars, far, queue>>

(* Disconnect: an SSH channel is closed; of a local one the writer is dropped. *)
ActorDisconnects ==
    /\ actor = "waits" /\ queue # <<>> /\ Head(queue) = Disconnect
    /\ actor' = "over"
    /\ queue' = Tail(queue)
    /\ far' = IF kind = "ssh" THEN "closed" ELSE far
    /\ UNCHANGED <<ActorVars, item, applied>>

(* recv answers None when no sender is left: none in the manager, with the   *)
(* cleanup thread, or with the forwarder.  Whether a dropped SSH channel is  *)
(* closed is up to the library.                                              *)
NoSender == ~registered /\ cleanup \notin {"kill", "join"} /\ forwarder # "sends"

ActorIsAlone ==
    /\ actor = "waits" /\ queue = <<>> /\ NoSender
    /\ actor' = "over"
    /\ far' \in IF kind = "ssh" THEN {far, "closed"} ELSE {far}
    /\ UNCHANGED <<ActorVars, queue, item, applied>>

ActorStep == ActorTakes \/ ActorWrites \/ ActorDisconnects \/ ActorIsAlone
-----------------------------------------------------------------------------
(* terminal_disconnect, when the pane is gone. *)
HangUp ==
    /\ pane = "gone" /\ registered
    /\ registered' = FALSE
    /\ cleanup' = IF kind = "local" THEN "kill" ELSE "join"
    /\ IF actor # "over" /\ Len(queue) < ActorCap
       THEN queue' = Append(queue, Disconnect) /\ UNCHANGED missed
       ELSE missed' = (actor # "over") /\ UNCHANGED queue
    /\ UNCHANGED <<kind, far, outVars, paneVars, typed, pty, forwarder, actor, item,
                   applied>>

(* cleanup_terminal_session_in_background: the shell is killed, but what it  *)
(* started may hold its terminal; the actor is joined, an SSH one for 500 ms *)
(* at most; then the handle and its sender are dropped.                      *)
Kill ==
    /\ cleanup = "kill" /\ cleanup' = "join"
    /\ far' \in {far, "closed"}
    /\ UNCHANGED <<kind, outVars, paneVars, inVars, registered, missed>>


Join ==
    /\ cleanup = "join" /\ cleanup' = "over"
    /\ kind = "ssh" \/ actor = "over"
    /\ UNCHANGED <<kind, far, outVars, paneVars, inVars, registered, missed>>

(* The shell ends, the server closes the channel, the connection is lost. *)
FarCloses ==
    /\ far = "open" /\ far' = "closed"
    /\ UNCHANGED <<kind, outVars, paneVars, inVars, endVars>>

SessionNext ==
    \/ ReadPiece \/ Flush \/ ReadEnd \/ SendMark
    \/ PumpStep
    \/ ClaimStream \/ PaneReads \/ ClosePane
    \/ \E what \in {"write", "resize"} : Type(what)
    \/ ForwarderStep
    \/ ActorStep
    \/ HangUp \/ Kill \/ Join
    \/ FarCloses

(* Threads and tasks run, the window takes its turns, and a write returns:   *)
(* the other end reads or is closed.                                         *)
SessionSpec ==
    /\ SessionInit /\ [][SessionNext]_sessionVars
    /\ WF_sessionVars(ReadEnd \/ SendMark)
    /\ WF_sessionVars(PumpStep)
    /\ WF_sessionVars(PaneReads)
    /\ WF_sessionVars(ForwarderStep)
    /\ WF_sessionVars(ActorStep)
    /\ WF_sessionVars(HangUp \/ Kill \/ Join)
-----------------------------------------------------------------------------
SessionTypeOK ==
    /\ kind \in {"ssh", "local"} /\ far \in {"open", "closed"}
    /\ reader \in {"reads", "marks", "over"} /\ pump \in {"idle", "joins", "over"}
    /\ Len(emitter) <= EmitterCap /\ Len(queue) <= ActorCap
    /\ pane \in {"none", "open", "gone"} /\ told \in BOOLEAN
    /\ forwarder \in {"looks", "sends", "over"}
    /\ actor \in {"waits", "writes", "over"}
    /\ cleanup \in {"none", "kill", "join", "over"}
    /\ pump = "joins" <=> buffer # <<>>

(* On its way to the pane, oldest first, with the mark in its place.         *)
Messages ==
    stream \o (IF buffer = <<>> THEN <<>> ELSE <<buffer>>) \o emitter
           \o (IF batch = <<>> THEN <<>> ELSE <<batch>>)

InOrder(s) == \A i, j \in DOMAIN s : i < j => s[i] < s[j]

(* The pieces of some messages, and messages whose pieces, read one after    *)
(* another, are in order and none twice.                                     *)
PiecesOf(ms) == UNION {Range(ms[i]) : i \in DOMAIN ms}
AllInOrder(ms) ==
    /\ \A i \in DOMAIN ms : InOrder(ms[i])
    /\ \A i, j \in DOMAIN ms : i < j =>
           \A x \in Range(ms[i]), y \in Range(ms[j]) : x < y

(* What the pane shows is what the shell wrote, in order and once, with      *)
(* nothing missing but what a full channel refused, though the output is     *)
(* cut, joined and handed on by three tasks.                                 *)
OutputIsTrue ==
    LET out == shown \o Messages IN
    /\ AllInOrder(out)
    /\ pane # "gone" => 1 .. pieces = PiecesOf(out) \cup lost

(* "closed" is the last word: it is told once the output has ended, and      *)
(* nothing that was not refused comes after it.                              *)
ClosedIsLast ==
    /\ \A i \in DOMAIN Messages : Messages[i] = Mark => i = Len(Messages)
    /\ told => /\ far = "closed" /\ reader = "over"
               /\ stream = <<>> /\ buffer = <<>> /\ emitter = <<>>
               /\ pane = "open" => 1 .. pieces = PiecesOf(shown) \cup lost

(* "writes and resizes must not reorder" (app/src/terminal/pane.rs): what    *)
(* reaches the shell comes in the order of the pane, each item once; only    *)
(* the sizes of a local terminal, which do not pass through the actor,       *)
(* overtake writes.                                                          *)
ByActor(i) == kind = "ssh" \/ typed[i] = "write"
InputInOrder == \A i, j \in DOMAIN applied :
    i < j /\ ByActor(applied[i]) /\ ByActor(applied[j]) => applied[i] < applied[j]

SessionInv == SessionTypeOK /\ OutputIsTrue /\ ClosedIsLast /\ InputInOrder

(* A pane hears that its session has closed, unless the closing message met  *)
(* a full channel (terminal.rs, TerminalOutputEmitter::emit).                *)
HearsTheEnd ==
    far = "closed" /\ pane = "open" ~> told \/ markLost \/ pane = "gone"

(* terminal_disconnect: a session that was hung up has its actor ended, or  *)
(* Disconnect on its way to it, or a cleanup that will drop the sender.     *)
DisconnectArrives ==
    ~registered => \/ actor = "over" \/ Disconnect \in Range(queue)
                   \/ missed /\ cleanup # "none"


=============================================================================
