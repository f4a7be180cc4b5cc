----------------------------- MODULE SshRegistry -----------------------------
(***************************************************************************)
(* The pool of shared SSH connections (SshConnectionRegistry in            *)
(* crates/ops-ssh/src/ssh/mod.rs), for one key of its map: the requests of *)
(* several threads, each with one retry, and the thread that reaps.        *)
(*                                                                         *)
(* A connection may go down at any moment, unnoticed at first.  The map's  *)
(* read guard is held while a pooled connection is probed, and removing or *)
(* inserting waits for it; between two accesses to the map anything may    *)
(* happen.  The time since the last use is one of the ages the code tells  *)
(* apart.                                                                  *)
(***************************************************************************)
EXTENDS Integers, FiniteSets

CONSTANTS
  Client,         \* the threads with a request for this key
  MaxConnections  \* bound on the connections ever made

ASSUME RegistryAssumption ==
  /\ IsFiniteSet(Client) /\ "reaper" \notin Client
  /\ MaxConnections \in Nat \ {0}

VARIABLES
  viaJump, \* is it the key of a connection through jump hosts?
  link,    \* the state of each connection, known to nobody
  pool,    \* the connection the map holds for the key, 0 if none
  age,     \* the time since its last_activity
  guards,  \* the threads that hold the map's read guard
  lock,    \* the holders of the key's lock: one at most
  pc, conn, attempt, first,  \* of each client; first: its first connection
  reaper,  \* where the reaper stands
  probed,  \* the connection it probes, 0 if none
  made     \* connections made so far

poolVars == <<pool, age>>
clientVars == <<pc, conn, attempt, first>>
reaperVars == <<reaper, probed>>
vars == <<viaJump, link, poolVars, guards, lock, clientVars, reaperVars, made>>

Connection == 1..MaxConnections

(* The ages: up to 30 s, more, and beyond idle_timeout.  The reaper probes *)
(* only after 60 s; until then it need not look in this model.             *)
Fresh == 0
Stale == 1
Idle == 2

Down(t) == t # 0 /\ link[t] = "down"

(* is_dead and is_closed of the pooled connection.  A connection that is   *)
(* down is taken for a live one as long as the library has not noticed, or *)
(* another thread holds its handle; never the other way round.             *)
SeenDead == Down(pool)
SeenAlive == pool # 0

(* health_probe opens a channel: never on a link that is down, and on one  *)
(* that is up unless the handle is held for too long.                      *)
Answers(t) == link[t] = "up"

Init ==
  /\ viaJump \in BOOLEAN
  /\ \E l \in {"none", "up"} :
       /\ link = [t \in Connection |-> IF t = 1 THEN l ELSE "none"]
       /\ pool = (IF l = "none" THEN 0 ELSE 1)
  /\ made = pool
  /\ age \in (IF pool = 0 THEN {Fresh} ELSE {Fresh, Stale})
  /\ guards = {} /\ lock = {}
  /\ pc = [c \in Client |-> "idle"]
  /\ conn = [c \in Client |-> 0]
  /\ attempt = [c \in Client |-> 0]
  /\ first = [c \in Client |-> 0]
  /\ reaper = "sleep" /\ probed = 0

(* Someone may still look at the connection. *)
Matters(t) ==
  \/ t = pool \/ t = probed
  \/ \E c \in Client : t = conn[c]

Goto(c, place) == pc' = [pc EXCEPT ![c] = place]

(* The request returns; the caller keeps what it got. *)
Finish(c, answer) ==
  /\ Goto(c, answer)
  /\ conn' = [conn EXCEPT ![c] = 0]
  /\ first' = [first EXCEPT ![c] = 0]
  /\ attempt' = [attempt EXCEPT ![c] = 0]

Writable == guards = {}

(* DashMap::remove for the key, whatever the map holds by now. *)
Remove ==
  /\ Writable
  /\ pool' = 0 /\ age' = Fresh

Insert(t) ==
  /\ Writable
  /\ pool' = t /\ age' = Fresh

Release(c) == lock' = lock \ {c}
-----------------------------------------------------------------------------
(* A request: execute, open_sftp_session, open_terminal_channel.           *)
Request(c) ==
  /\ pc[c] = "idle"
  /\ attempt' = [attempt EXCEPT ![c] = 1]
  /\ Goto(c, "look")
  /\ UNCHANGED <<viaJump, link, poolVars, guards, lock, conn, first, reaperVars, made>>

(* get_existing found nothing: take the lock, or connect under it. *)
Miss(c) == Goto(c, IF c \in lock THEN "connect" ELSE "lock")

Look(c) ==
  /\ pc[c] = "look"
  /\ \/ pool = 0 /\ Miss(c) /\ UNCHANGED <<guards, conn>>
     \/ SeenDead /\ Goto(c, "dropDead") /\ UNCHANGED <<guards, conn>>
     \/ SeenAlive /\ age = Fresh /\ Goto(c, "touch") /\ UNCHANGED <<guards, conn>>
     \/ /\ SeenAlive /\ age > Fresh
        /\ guards' = guards \cup {c}
        /\ conn' = [conn EXCEPT ![c] = pool]
        /\ Goto(c, "probe")
  /\ UNCHANGED <<viaJump, link, poolVars, lock, attempt, first, reaperVars, made>>

Probe(c) ==
  /\ pc[c] = "probe"
  /\ guards' = guards \ {c}
  /\ \/ Answers(conn[c]) /\ Goto(c, "touch")
     \/ Goto(c, "dropProbed")
  /\ conn' = [conn EXCEPT ![c] = 0]
  /\ UNCHANGED <<viaJump, link, poolVars, lock, attempt, first, reaperVars, made>>

(* remove_if(is_dead), and the miss whether or not it removed anything. *)
DropDead(c) ==
  /\ pc[c] = "dropDead"
  /\ Writable
  /\ \/ SeenDead /\ Remove
     \/ (SeenAlive \/ pool = 0) /\ UNCHANGED poolVars
  /\ Miss(c)
  /\ UNCHANGED <<viaJump, link, guards, lock, conn, attempt, first, reaperVars, made>>

(* The probe failed: the key is removed without a look at what it holds. *)
DropProbed(c) ==
  /\ pc[c] = "dropProbed"
  /\ Remove
  /\ Miss(c)
  /\ UNCHANGED <<viaJump, link, guards, lock, conn, attempt, first, reaperVars, made>>

UseConnection(c, t) ==
  /\ conn' = [conn EXCEPT ![c] = t]
  /\ first' = IF attempt[c] = 1 THEN [first EXCEPT ![c] = t] ELSE first
  /\ Goto(c, "use")

(* The entry is fetched a second time: it may be gone, or another one. *)
Touch(c) ==
  /\ pc[c] = "touch"
  /\ \/ pool = 0 /\ Miss(c) /\ UNCHANGED <<age, lock, conn, first>>
     \/ pool # 0 /\ age' = Fresh /\ UseConnection(c, pool) /\ Release(c)
  /\ UNCHANGED <<viaJump, link, pool, guards, attempt, reaperVars, made>>

(* Without the second look under the lock. *)
AcquireAndConnect(c) ==
  /\ pc[c] = "lock"
  /\ lock = {}
  /\ lock' = {c}
  /\ Goto(c, "connect")
  /\ UNCHANGED <<viaJump, link, poolVars, guards, conn, attempt, first, reaperVars, made>>

(* Without waiting for the one who holds the lock. *)
AcquireAnyway(c) ==
  /\ pc[c] = "lock"
  /\ lock' = lock \cup {c}
  /\ Goto(c, "look")
  /\ UNCHANGED <<viaJump, link, poolVars, guards, conn, attempt, first, reaperVars, made>>

Acquire(c) ==
  /\ pc[c] = "lock"
  /\ lock = {}
  /\ lock' = {c}
  /\ Goto(c, "look")
  /\ UNCHANGED <<viaJump, link, poolVars, guards, conn, attempt, first, reaperVars, made>>
-----------------------------------------------------------------------------
(* connect_and_store_locked, and the second half of                        *)
(* get_shared_connection_via_jump.                                         *)
Connect(c) ==
  /\ pc[c] = "connect"
  /\ made < MaxConnections
  /\ made' = made + 1
  /\ link' = [link EXCEPT ![made + 1] = "up"]
  /\ conn' = [conn EXCEPT ![c] = made + 1]
  /\ Goto(c, "store")
  /\ UNCHANGED <<viaJump, poolVars, guards, lock, attempt, first, reaperVars>>

(* A failure that keeps the lock. *)
ConnectFailsLocked(c) ==
  /\ pc[c] = "connect"
  /\ Finish(c, "failed")
  /\ UNCHANGED <<viaJump, link, poolVars, guards, lock, reaperVars, made>>

ConnectFails(c) ==
  /\ pc[c] = "connect"
  /\ Release(c)
  /\ Finish(c, "failed")
  /\ UNCHANGED <<viaJump, link, poolVars, guards, reaperVars, made>>

(* A live connection in the map is preferred to the new one, which is      *)
(* dropped; through jump hosts the new one is stored without a look.       *)
KeepExisting(c) ==
  /\ ~viaJump /\ SeenAlive
  /\ UseConnection(c, pool)
  /\ UNCHANGED poolVars

StoreNew(c) ==
  /\ viaJump \/ pool = 0 \/ SeenDead
  /\ Insert(conn[c])
  /\ UseConnection(c, conn[c])

Store(c) ==
  /\ pc[c] = "store"
  /\ KeepExisting(c) \/ StoreNew(c)
  /\ Release(c)
  /\ UNCHANGED <<viaJump, link, guards, attempt, reaperVars, made>>
-----------------------------------------------------------------------------
(* The command, the SFTP session or the shell on the connection. *)
Use(c) ==
  /\ pc[c] = "use"
  /\ \/ link[conn[c]] = "up" /\ Finish(c, "done")
     \/ attempt[c] = 2 /\ Finish(c, "failed")
     \/ attempt[c] = 1 /\ Goto(c, "evict") /\ UNCHANGED <<conn, first, attempt>>
  /\ UNCHANGED <<viaJump, link, poolVars, guards, lock, reaperVars, made>>

(* The failed connection stays in the map. *)
EvictNothing(c) ==
  /\ pc[c] = "evict"
  /\ Writable
  /\ attempt' = [attempt EXCEPT ![c] = @ + 1]
  /\ conn' = [conn EXCEPT ![c] = 0]
  /\ Goto(c, IF viaJump THEN "look" ELSE "lock")
  /\ UNCHANGED <<viaJump, link, poolVars, guards, lock, first, reaperVars, made>>

(* remove_if_same, or remove for a key through jump hosts; then once more: *)
(* reconnect_and_store begins with the lock, the other with a look.        *)
Evict(c) ==
  /\ pc[c] = "evict"
  /\ IF viaJump \/ pool = conn[c] THEN Remove ELSE Writable /\ UNCHANGED poolVars
  /\ attempt' = [attempt EXCEPT ![c] = @ + 1]
  /\ conn' = [conn EXCEPT ![c] = 0]
  /\ Goto(c, IF viaJump THEN "look" ELSE "lock")
  /\ UNCHANGED <<viaJump, link, guards, lock, first, reaperVars, made>>
-----------------------------------------------------------------------------
(* reap_and_health_check, for the key.  The state of an entry is Active    *)
(* whenever the reaper reads it: only the reaper changes it, just before   *)
(* it removes the key.                                                     *)
ReapLook ==
  /\ reaper = "sleep"
  /\ pool # 0
  /\ \/ SeenDead /\ reaper' = "dropDead"
     \/ SeenAlive /\ age = Idle /\ reaper' = "dropIdle"
     \/ SeenAlive /\ age = Stale /\ reaper' = "again"
  /\ UNCHANGED <<viaJump, link, poolVars, guards, lock, clientVars, probed, made>>

ReapAgain ==
  /\ reaper = "again"
  /\ IF pool = 0
     THEN reaper' = "sleep" /\ UNCHANGED <<guards, probed>>
     ELSE /\ guards' = guards \cup {"reaper"}
          /\ probed' = pool
          /\ reaper' = "probe"
  /\ UNCHANGED <<viaJump, link, poolVars, lock, clientVars, made>>

ReapProbe ==
  /\ reaper = "probe"
  /\ guards' = guards \ {"reaper"}
  /\ \/ /\ Answers(probed)
        /\ reaper' = "sleep" /\ probed' = 0
     \/ reaper' = "dropProbed" /\ UNCHANGED probed
  /\ UNCHANGED <<viaJump, link, poolVars, lock, clientVars, made>>

ReapDrop ==
  /\ reaper \in {"dropDead", "dropIdle", "dropProbed"}
  /\ Remove
  /\ reaper' = "sleep" /\ probed' = 0
  /\ UNCHANGED <<viaJump, link, guards, lock, clientVars, made>>
-----------------------------------------------------------------------------
(* The network, the clock, terminals that touch the key as they are used,  *)
(* and remove_connection when a jump host is disconnected.                 *)
LinkFails(t) ==
  /\ Matters(t)
  /\ link[t] = "up"
  /\ link' = [link EXCEPT ![t] = "down"]
  /\ UNCHANGED <<viaJump, poolVars, guards, lock, clientVars, reaperVars, made>>

TimePasses ==
  /\ pool # 0 /\ age < Idle
  /\ age' = age + 1
  /\ UNCHANGED <<viaJump, link, pool, guards, lock, clientVars, reaperVars, made>>

TouchConnection ==
  /\ pool # 0 /\ age # Fresh
  /\ age' = Fresh
  /\ UNCHANGED <<viaJump, link, pool, guards, lock, clientVars, reaperVars, made>>

RemoveConnection ==
  /\ pool # 0
  /\ Remove
  /\ UNCHANGED <<viaJump, link, guards, lock, clientVars, reaperVars, made>>

AskStep(c) == Look(c) \/ Probe(c) \/ DropDead(c) \/ DropProbed(c) \/ Touch(c) \/ Acquire(c)
ConnectStep(c) == Connect(c) \/ ConnectFails(c) \/ Store(c)
ClientStep(c) == AskStep(c) \/ ConnectStep(c) \/ Use(c) \/ Evict(c)
ReaperStep == ReapLook \/ ReapAgain \/ ReapProbe \/ ReapDrop
Environment ==
  \/ \E t \in Connection : LinkFails(t)
  \/ TimePasses \/ TouchConnection \/ RemoveConnection

Next ==
  \/ \E c \in Client : Request(c) \/ ClientStep(c)
  \/ ReaperStep
  \/ Environment

(* Connecting, probing and using a connection have time limits or end with *)
(* the connection, and every thread that can go on does.  Strong fairness: *)
(* the reaper sleeps between its probes, so a thread that waits to change  *)
(* the map gets in.                                                        *)
Spec == Init /\ [][Next]_vars
             /\ \A c \in Client : SF_vars(ClientStep(c))
             /\ WF_vars(ReapProbe)
-----------------------------------------------------------------------------
Looking == {"look", "probe", "dropDead", "dropProbed", "touch"}
Connecting == {"connect", "store"}
Place == Looking \cup Connecting \cup {"idle", "lock", "use", "evict", "done", "failed"}

(* Types of the registry, of its clients and of the reaper. *)
TypeOK ==
  /\ viaJump \in BOOLEAN
  /\ link \in [Connection -> {"none", "up", "down"}]
  /\ made \in 0..MaxConnections
  /\ pool \in 0..made /\ age \in Fresh..Idle
  /\ guards \subseteq Client \cup {"reaper"}
  /\ lock \subseteq Client
  /\ pc \in [Client -> Place]
  /\ conn \in [Client -> 0..made] /\ first \in [Client -> 0..made]
  /\ attempt \in [Client -> 0..2]
  /\ reaper \in {"sleep", "again", "probe", "dropDead", "dropIdle", "dropProbed"}
  /\ probed \in 0..made

Gone == pool = 0 \/ Down(pool)

(* connect_and_store_locked: while a thread connects or stores, it alone   *)
(* holds the key's lock, and the map holds no working connection: a host   *)
(* never gets a second connection beside a good one.                       *)
ConnectOnlyWhenGone ==
  \A c \in Client : pc[c] \in Connecting => lock = {c} /\ Gone

(* SshConnectionRegistry.connections: what is stored is the newest         *)
(* connection made, over none or a dead one; so a connection that left the *)
(* map never comes back and a working one is never pushed out by another.  *)
OnlyNewOverGone ==
  [][pool' # pool /\ pool' # 0 => pool' = made /\ Gone]_vars

(* execute, open_sftp_session, open_terminal_channel: the second attempt   *)
(* never runs on the connection on which the first one failed.             *)
RetryIsFresh ==
  \A c \in Client :
    attempt[c] = 2 /\ pc[c] = "use" => conn[c] # first[c]

(* The lock is held by one client, somewhere between taking it and storing, *)
(* and a client that found a dead connection under it still finds no other. *)
LockRule ==
  /\ \A c, d \in lock : c = d
  /\ \A c \in lock : pc[c] \in Looking \cup Connecting
  /\ \A c \in lock : pc[c] = "dropDead" => Gone

(* A connection about to be stored is the newest and unknown to the others. *)
StoreRule ==
  \A c \in Client : pc[c] = "store" =>
    /\ conn[c] = made /\ made # 0 /\ pool # made
    /\ \A d \in Client : first[d] # made

(* The connection of a failed first attempt is out of the map for good.     *)
AttemptRule ==
  \A c \in Client :
    /\ pc[c] \in {"use", "evict"} => conn[c] # 0 /\ attempt[c] \in {1, 2}
    /\ pc[c] \in {"use", "evict"} /\ attempt[c] = 1 => first[c] = conn[c]
    /\ pc[c] = "evict" => attempt[c] = 1
    /\ attempt[c] = 2 => first[c] # 0 /\ first[c] # pool
    /\ pc[c] \in Looking \cup Connecting \cup {"lock"} => attempt[c] \in {1, 2}

PoolBooks ==
  /\ TypeOK /\ LockRule /\ ConnectOnlyWhenGone
  /\ StoreRule /\ AttemptRule /\ RetryIsFresh

(* The map's read guard is held for a probe, which ends with an answer.     *)
Probing == {c \in Client : pc[c] = "probe"} \cup {r \in {"reaper"} : reaper = "probe"}
ProbeRule == guards = Probing

(* Nobody hangs: a request goes on, or waits for the map and with it for a  *)
(* probe, or waits for the lock, whose holder does not wait for a lock.     *)
UnderWay(c) == pc[c] \notin {"idle", "done", "failed"}
GoesOn(c) ==
  /\ pc[c] = "lock" => lock = {}
  /\ pc[c] \in {"dropDead", "dropProbed", "evict"} => Writable
  /\ pc[c] = "store" => Writable \/ (~viaJump /\ SeenAlive)
NobodyHangs ==
  \A c \in Client : UnderWay(c) =>
    \/ GoesOn(c)
    \/ Probing # {}
    \/ pc[c] = "lock" /\ \E d \in lock : GoesOn(d)

(* The pool of a key is consistent: types, lock, who connects, what is      *)
(* stored, what a second attempt runs on, and no request hangs.             *)
Inv == PoolBooks /\ ProbeRule /\ NobodyHangs

(* The steps a request has left at most: two attempts, each with two looks, *)
(* before the lock and under it, one connection and one use.                *)
Left ==
  [use |-> 2, evict |-> 1, store |-> 3, connect |-> 4, lock |-> 8,
   touch |-> 5, dropDead |-> 5, dropProbed |-> 5, probe |-> 6, look |-> 7]
StepsLeft(c) ==
  IF ~UnderWay(c) THEN IF pc[c] = "idle" THEN 23 ELSE 0
  ELSE Left[pc[c]] + (IF pc[c] \in Looking /\ c \notin lock THEN 4 ELSE 0)
                   + (IF attempt[c] = 1 THEN 11 ELSE 0)

(* Only its own steps take a request on, and each does: it does not come    *)
(* back to where it was, whatever others do to the map meanwhile.           *)
RequestsAreShort ==
  [][\A c \in Client :
       /\ Request(c) \/ ClientStep(c) => StepsLeft(c)' < StepsLeft(c)
       /\ ~(Request(c) \/ ClientStep(c)) => StepsLeft(c)' = StepsLeft(c)]_vars

(* A request gets a connection or an error in the end, however links fail  *)
(* and threads interleave: no one waits for a lock that is not given back. *)
RequestsEnd ==
  \A c \in Client : (pc[c] # "idle") ~> (pc[c] \in {"done", "failed"})
=============================================================================
