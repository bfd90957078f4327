----------------------------- MODULE HostRoster -----------------------------
(***************************************************************************)
(* Who is in a hosted Play Together session, at the grain of the mutex     *)
(* `HostShared::inner` (session/host.rs).                                  *)
(*                                                                         *)
(* Four kinds of thread change the roster:                                 *)
(*   - the accept thread, which spawns a connection's reader and writer    *)
(*     and only then registers the connection in `inner.conns`;            *)
(*   - the connection's reader, which admits it on its Hello;              *)
(*   - whoever closes a connection: its own reader, its writer, the tick   *)
(*     thread, any thread whose push overflows its queue, the host's kick; *)
(*   - the application, which leaves the session.                          *)
(*                                                                         *)
(* A connection's outbound queue is FIFO (module OutboundQueue), so what a *)
(* client's roster will be is decided by the messages queued for it:       *)
(* told[c] is the roster those messages spell, in the order queued.        *)
(***************************************************************************)
EXTENDS Naturals, FiniteSets

CONSTANTS
    Conn,             \* connections the listener accepts, each used once
    MaxParticipants,  \* HostConfig::max_participants, the host included
    MaxClosing,       \* bound: connections closed one by one
    MayLeave,         \* bound: whether the application leaves the session
    None              \* no connection

ASSUME ConnAssumption == IsFiniteSet(Conn) /\ None \notin Conn
ASSUME MaxParticipantsAssumption == MaxParticipants \in Nat \ {0}
ASSUME BoundsAssumption == MaxClosing \in Nat /\ MayLeave \in BOOLEAN

\* HOST_PEER_ID; clients get 2, 3, ...; 0 is "not admitted".
HostPeerId == 1

\* HostInner::next_peer_id of a new session.
FirstClientId == HostPeerId + 1

VARIABLES
    running,     \* HostShared::running
    accepting,   \* the connection add_connection is setting up, or None
    spawned,     \* connections whose reader and writer threads exist
    conns,       \* HostInner::conns
    nextPeerId,  \* HostInner::next_peer_id
    follows,     \* the keys of HostInner::follows
    peerId,      \* ConnShared::peer_id of each connection
    closing,     \* connections whose ConnShared::closing is set
    reader,      \* where each connection's reader thread is
    joinTodo,    \* connections a reader has yet to send PeerJoined to
    closer,      \* how far close_connection has got with each connection
    closeId,     \* the peer id close_connection read
    leftTodo,    \* connections it has yet to send PeerLeft to
    leaving,     \* how far HostSession::leave has got
    leaveTodo,   \* connections leave has yet to close
    welcomed,    \* connections a Welcome was queued on
    told,        \* the roster the messages queued on each connection spell
    hostTold,    \* the roster the Joined and Left events spell to the host
    untimely     \* history: admitted unregistered, or closed while admitted

vars == <<running, accepting, spawned, conns, nextPeerId, follows, peerId,
          closing, reader, joinTodo, closer, closeId, leftTodo, leaving,
          leaveTodo, welcomed, told, hostTold, untimely>>

readerVars == <<reader, joinTodo>>
closerVars == <<closer, closeId, leftTodo>>
leaveVars  == <<running, leaving, leaveTodo>>
viewVars   == <<welcomed, told, hostTold>>

-----------------------------------------------------------------------------

\* Mutants of the next definition: a connection counts as admitted only when
\* its reader is done admitting, or before it has been admitted at all.
AdmittedAndIdle == {c \in conns : peerId[c] # 0 /\ reader[c] = "idle"}
RegisteredConns == conns

\* HostConn::admitted, over the registered connections.
AdmittedConns == {c \in conns : peerId[c] # 0}

\* The ids of the registered connections whose ParticipantInfo is set. It is
\* set in the critical section that stores the id, so the two agree.
Participants == {peerId[c] : c \in AdmittedConns}

\* Queue `change` of the roster on connection d; a closed queue takes nothing.
Tell(d, view) == told' = IF d \in closing THEN told ELSE [told EXCEPT ![d] = view]

-----------------------------------------------------------------------------

Init ==
    /\ running = TRUE
    /\ accepting = None
    /\ spawned = {}
    /\ conns = {}
    /\ nextPeerId = FirstClientId
    /\ follows = {}
    /\ peerId = [c \in Conn |-> 0]
    /\ closing = {}
    /\ reader = [c \in Conn |-> "idle"]
    /\ joinTodo = [c \in Conn |-> {}]
    /\ closer = [c \in Conn |-> "open"]
    /\ closeId = [c \in Conn |-> 0]
    /\ leftTodo = [c \in Conn |-> {}]
    /\ leaving = "no"
    /\ leaveTodo = {}
    /\ welcomed = {}
    /\ told = [c \in Conn |-> {}]
    /\ hostTold = {}
    /\ untimely = {}

-----------------------------------------------------------------------------
(* The accept thread.                                                      *)

\* A mutant of the next definition: the accept loop does not look at `running`.
AcceptAlways(c) ==
    /\ accepting = None
    /\ c \notin spawned
    /\ accepting' = c
    /\ spawned' = spawned \union {c}
    /\ UNCHANGED <<conns, nextPeerId, follows, peerId, closing, untimely,
                   readerVars, closerVars, leaveVars, viewVars>>

\* add_connection up to the two spawns: from here the reader may run.
Accept(c) ==
    /\ running
    /\ accepting = None
    /\ c \notin spawned
    /\ accepting' = c
    /\ spawned' = spawned \union {c}
    /\ UNCHANGED <<conns, nextPeerId, follows, peerId, closing, untimely,
                   readerVars, closerVars, leaveVars, viewVars>>

\* The end of add_connection: the connection is registered, closing or not.
Register(c) ==
    /\ accepting = c
    /\ accepting' = None
    /\ conns' = conns \union {c}
    /\ UNCHANGED <<spawned, nextPeerId, follows, peerId, closing, untimely,
                   readerVars, closerVars, leaveVars, viewVars>>

\* The end of add_connection when a thread could not be spawned: the
\* connection is closed without an announcement and never registered.
SpawnFailed(c) ==
    /\ accepting = c
    /\ accepting' = None
    /\ closing' = closing \union {c}
    /\ closer' = IF closer[c] = "open" THEN [closer EXCEPT ![c] = "done"] ELSE closer
    /\ UNCHANGED <<spawned, conns, nextPeerId, follows, peerId, untimely, closeId,
                   leftTodo, readerVars, leaveVars, viewVars>>

-----------------------------------------------------------------------------
(* The reader thread of connection c, admitting it.                        *)

\* A Hello that passes every check made before the lock is taken.
ReadHello(c) ==
    /\ c \in spawned
    /\ reader[c] = "idle"
    /\ running
    /\ c \notin closing
    /\ peerId[c] = 0
    /\ reader' = [reader EXCEPT ![c] = "admitting"]
    /\ UNCHANGED <<accepting, spawned, conns, nextPeerId, follows, peerId, closing,
                   untimely, joinTodo, closerVars, leaveVars, viewVars>>

\* A mutant of the next definition: off by one.
SessionOverfull == Cardinality(AdmittedConns) + 1 > MaxParticipants

SessionFull == Cardinality(AdmittedConns) + 1 >= MaxParticipants

\* admit's critical section: the Welcome is queued and the id stored under the
\* lock. `admitted` in the code is every registered connection with an info.
Admit(c) ==
    /\ reader[c] = "admitting"
    /\ ~SessionFull
    /\ peerId' = [peerId EXCEPT ![c] = nextPeerId]
    /\ nextPeerId' = nextPeerId + 1
    /\ follows' = follows \union {nextPeerId}
    /\ welcomed' = IF c \in closing THEN welcomed ELSE welcomed \union {c}
    /\ Tell(c, {HostPeerId} \union Participants)
    /\ untimely' = IF c \in conns THEN untimely ELSE untimely \union {c}
    /\ reader' = [reader EXCEPT ![c] = "joining"]
    /\ UNCHANGED <<accepting, spawned, conns, closing, joinTodo, hostTold,
                   closerVars, leaveVars>>

\* admit refuses with SessionFull: close_connection on the reader itself.
RefuseFull(c) ==
    /\ reader[c] = "admitting"
    /\ SessionFull
    /\ reader' = [reader EXCEPT ![c] = "stopped"]
    /\ closing' = closing \union {c}
    /\ closer' = IF c \in closing THEN closer ELSE [closer EXCEPT ![c] = "begun"]
    /\ UNCHANGED <<accepting, spawned, conns, nextPeerId, follows, peerId, untimely,
                   joinTodo, closeId, leftTodo, leaveVars, viewVars>>

\* broadcast(PeerJoined): the admitted connections, read under the lock.
JoinTargets(c) ==
    /\ reader[c] = "joining"
    /\ reader' = [reader EXCEPT ![c] = "telling"]
    /\ joinTodo' = [joinTodo EXCEPT ![c] = AdmittedConns \ {c}]
    /\ UNCHANGED <<accepting, spawned, conns, nextPeerId, follows, peerId, closing,
                   untimely, closerVars, leaveVars, viewVars>>

\* ... and the push to one of them.
SendJoined(c, d) ==
    /\ reader[c] = "telling"
    /\ d \in joinTodo[c]
    /\ joinTodo' = [joinTodo EXCEPT ![c] = @ \ {d}]
    /\ Tell(d, told[d] \union {peerId[c]})
    /\ UNCHANGED <<accepting, spawned, conns, nextPeerId, follows, peerId, closing,
                   untimely, reader, welcomed, hostTold, closerVars, leaveVars>>

\* admit's last statement: the Joined event.
PushJoined(c) ==
    /\ reader[c] = "telling"
    /\ joinTodo[c] = {}
    /\ reader' = [reader EXCEPT ![c] = "idle"]
    /\ hostTold' = hostTold \union {peerId[c]}
    /\ untimely' = IF c \in closing THEN untimely \union {c} ELSE untimely
    /\ UNCHANGED <<accepting, spawned, conns, nextPeerId, follows, peerId, closing,
                   joinTodo, welcomed, told, closerVars, leaveVars>>

-----------------------------------------------------------------------------
(* close_connection on c, by whichever thread calls it first.              *)

BeginClose(c) ==
    /\ c \in spawned
    /\ c \notin closing
    /\ Cardinality(closing) < MaxClosing
    /\ closing' = closing \union {c}
    /\ closer' = [closer EXCEPT ![c] = "begun"]
    /\ UNCHANGED <<accepting, spawned, conns, nextPeerId, follows, peerId, untimely,
                   joinTodo, closeId, leftTodo, leaveVars, viewVars>>

\* By c's own reader (a Goodbye, an Error, a broken message, end of file, an
\* idle timeout): the reader is between messages, and stops.
ReaderCloses(c) ==
    /\ reader[c] = "idle"
    /\ BeginClose(c)
    /\ reader' = [reader EXCEPT ![c] = "stopped"]

\* By any other thread (a failed write, the tick's handshake deadline, a full
\* queue, a kick), wherever c's reader is.
OtherCloses(c) ==
    /\ BeginClose(c)
    /\ UNCHANGED reader

\* `let peer_id = conn.peer_id()`, after begin_close and outside the lock.
ReadPeerId(c) ==
    /\ closer[c] = "begun"
    /\ closeId' = [closeId EXCEPT ![c] = peerId[c]]
    /\ closer' = [closer EXCEPT ![c] = "identified"]
    /\ UNCHANGED <<accepting, spawned, conns, nextPeerId, follows, peerId, closing,
                   untimely, leftTodo, readerVars, leaveVars, viewVars>>

\* The critical section: out of conns and follows.
RemoveConn(c) ==
    /\ closer[c] = "identified"
    /\ conns' = conns \ {c}
    /\ follows' = follows \ {closeId[c]}
    /\ closer' = [closer EXCEPT ![c] = IF closeId[c] = 0 THEN "done" ELSE "removed"]
    /\ UNCHANGED <<accepting, spawned, nextPeerId, peerId, closing, untimely,
                   closeId, leftTodo, readerVars, leaveVars, viewVars>>

PushLeft(c) ==
    /\ closer[c] = "removed"
    /\ hostTold' = hostTold \ {closeId[c]}
    /\ closer' = [closer EXCEPT ![c] = "leaving"]
    /\ UNCHANGED <<accepting, spawned, conns, nextPeerId, follows, peerId, closing,
                   untimely, closeId, leftTodo, welcomed, told, readerVars, leaveVars>>

\* broadcast(PeerLeft), if still running, to everyone but the peer itself.
LeftTargets(c) ==
    /\ closer[c] = "leaving"
    /\ closer' = [closer EXCEPT ![c] = "telling"]
    /\ leftTodo' = [leftTodo EXCEPT
                      ![c] = IF running THEN {d \in AdmittedConns : peerId[d] # closeId[c]} ELSE {}]
    /\ UNCHANGED <<accepting, spawned, conns, nextPeerId, follows, peerId, closing,
                   untimely, closeId, readerVars, leaveVars, viewVars>>

SendLeft(c, d) ==
    /\ closer[c] = "telling"
    /\ d \in leftTodo[c]
    /\ leftTodo' = [leftTodo EXCEPT ![c] = @ \ {d}]
    /\ Tell(d, told[d] \ {closeId[c]})
    /\ UNCHANGED <<accepting, spawned, conns, nextPeerId, follows, peerId, closing,
                   untimely, closer, closeId, welcomed, hostTold, readerVars, leaveVars>>

\* close_connection returns (its own sinks are ended on the way out).
EndClose(c) ==
    /\ closer[c] = "telling"
    /\ leftTodo[c] = {}
    /\ closer' = [closer EXCEPT ![c] = "done"]
    /\ UNCHANGED <<accepting, spawned, conns, nextPeerId, follows, peerId, closing,
                   untimely, closeId, leftTodo, readerVars, leaveVars, viewVars>>

-----------------------------------------------------------------------------
(* HostSession::leave, on the application's thread.                        *)

Leave ==
    /\ MayLeave
    /\ leaving = "no"
    /\ leaving' = "stopping"
    /\ running' = FALSE
    /\ UNCHANGED <<accepting, spawned, conns, nextPeerId, follows, peerId, closing,
                   untimely, leaveTodo, readerVars, closerVars, viewVars>>

TakeConns ==
    /\ leaving = "stopping"
    /\ leaving' = "closing"
    /\ leaveTodo' = conns
    /\ conns' = {}
    /\ follows' = {}
    /\ UNCHANGED <<running, accepting, spawned, nextPeerId, peerId, closing,
                   untimely, readerVars, closerVars, viewVars>>

\* A Goodbye and begin_close: nobody is told of a departure.
CloseTaken(c) ==
    /\ leaving = "closing"
    /\ c \in leaveTodo
    /\ leaveTodo' = leaveTodo \ {c}
    /\ closing' = closing \union {c}
    /\ closer' = IF c \in closing THEN closer ELSE [closer EXCEPT ![c] = "done"]
    /\ UNCHANGED <<running, leaving, accepting, spawned, conns, nextPeerId, follows,
                   peerId, untimely, closeId, leftTodo, readerVars, viewVars>>

-----------------------------------------------------------------------------

\* Steps a running thread takes without waiting for anything outside the host.
ReaderStep(c) ==
    \/ Admit(c)
    \/ RefuseFull(c)
    \/ JoinTargets(c)
    \/ \E d \in Conn : SendJoined(c, d)
    \/ PushJoined(c)

CloserStep(c) ==
    \/ ReadPeerId(c)
    \/ RemoveConn(c)
    \/ PushLeft(c)
    \/ LeftTargets(c)
    \/ \E d \in Conn : SendLeft(c, d)
    \/ EndClose(c)

Next ==
    \/ \E c \in Conn :
        \/ Accept(c)
        \/ Register(c)
        \/ SpawnFailed(c)
        \/ ReadHello(c)
        \/ ReaderStep(c)
        \/ ReaderCloses(c)
        \/ OtherCloses(c)
        \/ CloserStep(c)
        \/ CloseTaken(c)
    \/ Leave
    \/ TakeConns

Spec == Init /\ [][Next]_vars

-----------------------------------------------------------------------------
(* Properties.                                                             *)

TypeOK ==
    /\ running \in BOOLEAN
    /\ accepting \in Conn \union {None}
    /\ spawned \subseteq Conn
    /\ conns \subseteq Conn
    /\ nextPeerId \in Nat \ 0..HostPeerId
    /\ follows \subseteq Nat
    /\ peerId \in [Conn -> Nat]
    /\ closing \subseteq Conn
    /\ reader \in [Conn -> {"idle", "admitting", "joining", "telling", "stopped"}]
    /\ joinTodo \in [Conn -> SUBSET Conn]
    /\ closer \in [Conn -> {"open", "begun", "identified", "removed", "leaving",
                            "telling", "done"}]
    /\ closeId \in [Conn -> Nat]
    /\ leftTodo \in [Conn -> SUBSET Conn]
    /\ leaving \in {"no", "stopping", "closing"}
    /\ leaveTodo \subseteq Conn
    /\ welcomed \subseteq Conn
    /\ told \in [Conn -> SUBSET Nat]
    /\ hostTold \subseteq Nat
    /\ untimely \subseteq Conn

\* No thread is between two statements of admit, close_connection or
\* add_connection, and the session is still up.
Quiescent ==
    /\ running
    /\ accepting = None
    /\ \A c \in Conn : reader[c] \in {"idle", "stopped"} /\ closer[c] \in {"open", "done"}

\* The participants still connected.
Present == {c \in Conn : peerId[c] # 0 /\ c \notin closing}

\* Everyone who ever was admitted and has since been closed.
Departed == {c \in Conn : peerId[c] # 0 /\ c \in closing}

\* HostConfig::max_participants bounds the session however many readers admit
\* at once: the count and the admission share one critical section. Counts the
\* participants that were registered when they were admitted: a reader may admit
\* its connection before add_connection registers it, which is then not counted.
Capacity ==
    Cardinality(AdmittedConns \ untimely) + 1 <= MaxParticipants

\* Once the threads are at rest, every participant that is present has been
\* told of every other, and so has the host: of two joining at once, the later
\* one's Welcome names the earlier, or it is sent the other's PeerJoined.
EveryoneIsTold ==
    Quiescent =>
        \A c \in Present \ untimely :
            /\ peerId[c] \in hostTold
            /\ HostPeerId \in told[c]
            /\ \A d \in Present \ (untimely \union {c}) : peerId[d] \in told[c]

\* Once the threads are at rest, nobody present still lists a participant that
\* departed, neither does the host, and its FollowSlot is gone. Speaks of those
\* whose admission was over before they closed: one closed by another thread while its
\* reader is still in admit is announced as joined after, or without, PeerLeft.
NoGhosts ==
    Quiescent =>
        \A c \in Departed \ untimely :
            /\ peerId[c] \notin hostTold \union follows
            /\ \A d \in Present \ untimely : peerId[c] \notin told[d]

\* Nothing but the Welcome ever opens a client's conversation: no step tells a
\* client of a change to a roster it has not been sent yet.
WelcomeFirst ==
    [][\A c \in Conn : told'[c] # told[c] => c \in welcomed']_<<told, welcomed>>

\* When leave has returned, at most one connection is left behind: the one
\* whose add_connection was under way, since the accept loop stops after it.
\* (One may be: what is registered after leave has taken conns nobody closes.)
LeaveLeavesAtMostOne ==
    leaving = "closing" /\ leaveTodo = {} => Cardinality(spawned \ closing) <= 1
=============================================================================
