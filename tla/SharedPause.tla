----------------------------- MODULE SharedPause -----------------------------
(***************************************************************************)
(* Sync pause in a Play Together session: one player's pause pauses        *)
(* everyone, or only the host's does.                                      *)
(*                                                                         *)
(* The host keeps the session's setting and pause state                    *)
(* (HostShared::sync_pause). Each player's frontend keeps what it has      *)
(* heard of the setting and the pause state it last agreed to              *)
(* (synced_paused), and once a tick publishes its game's pause if that     *)
(* differs, or puts the game back where only the host may pause.           *)
(*                                                                         *)
(* At the host, a client's Pause is noted and relayed by that client's     *)
(* reader thread, and the host's own pause and setting by its application  *)
(* thread: each notes first, then looks up who is connected, then queues   *)
(* the message on one connection after another. Connections are first in   *)
(* first out in both directions (module OutboundQueue).                    *)
(***************************************************************************)
EXTENDS Naturals, Sequences, FiniteSets

CONSTANTS
    Host,         \* the hosting player
    Client,       \* the players who may join
    Modes,        \* the settings the host picks from
    Choices,      \* what players set their game's pause to
    MaxChanges,   \* bound: pause changes made by players
    MaxSettings,  \* bound: settings picked
    MaxResets     \* bound: races started

ASSUME HostAssumption == Host \notin Client
ASSUME ClientAssumption == IsFiniteSet(Client)
ASSUME ModesAssumption == Modes \subseteq {"off", "host only", "everyone"}
ASSUME ChoicesAssumption == Choices \subseteq BOOLEAN
ASSUME PauseBoundsAssumption == {MaxChanges, MaxSettings, MaxResets} \subseteq Nat

Player == Client \union {Host}

VARIABLES
    session,    \* HostShared::sync_pause
    admitted,   \* the clients that have been welcomed
    sending,    \* what each reader, and the host's application, is relaying
    inbox,      \* messages and events on their way to each player's frontend
    outbox,     \* Pause messages on their way from each client
    mode,       \* the setting as each frontend has heard it
    paused,     \* whether each player's game is paused
    synced,     \* PlayTogetherSession::synced_paused
    resetDue,   \* PlayTogetherSession::pending_reset
    overtaken,  \* history: a setting and a Pause were being relayed at once
    crossed,    \* history: a Pause was sent while another word was on its way
    sends,      \* history: Pause messages published
    changes, settings, resets

hostVars  == <<session, admitted>>
wireVars  == <<sending, inbox, outbox>>
gameVars  == <<mode, paused, synced, resetDue>>
countVars == <<overtaken, crossed, sends, changes, settings, resets>>
vars == <<hostVars, wireVars, gameVars, countVars>>

Sync(m, p) == [kind |-> "sync", mode |-> m, paused |-> p]
Pause(p)   == [kind |-> "pause", mode |-> "off", paused |-> p]
ResetAll   == [kind |-> "reset", mode |-> "off", paused |-> FALSE]

Idle == [step |-> "idle", message |-> ResetAll, todo |-> {}]
Noted(message) == [step |-> "noted", message |-> message, todo |-> {}]

\* A session has just been bound: sync pause is off until the frontend says.
Init ==
    /\ session = [mode |-> "off", paused |-> FALSE]
    /\ admitted = {}
    /\ sending = [p \in Player |-> Idle]
    /\ inbox = [p \in Player |-> <<>>]
    /\ outbox = [c \in Client |-> <<>>]
    /\ mode = [p \in Player |-> "off"]
    /\ paused \in [Player -> BOOLEAN]
    /\ synced = [p \in Player |-> FALSE]
    /\ resetDue = [p \in Player |-> FALSE]
    /\ overtaken = FALSE /\ crossed = FALSE
    /\ sends = 0 /\ changes = 0 /\ settings = 0 /\ resets = 0

-----------------------------------------------------------------------------
(* The host: admission, and relaying by readers and the application.       *)

\* A mutant of the next action: a joiner is not told the session's pause.
JoinUntold(c) ==
    /\ c \notin admitted
    /\ admitted' = admitted \union {c}
    /\ inbox' = [inbox EXCEPT ![c] = <<Sync(session.mode, FALSE)>>]
    /\ UNCHANGED <<session, sending, outbox, gameVars, countVars>>

\* admit: the SyncPause is queued before the connection counts as admitted.
Join(c) ==
    /\ c \notin admitted
    /\ admitted' = admitted \union {c}
    /\ inbox' = [inbox EXCEPT ![c] = <<Sync(session.mode, session.paused)>>]
    /\ UNCHANGED <<session, sending, outbox, gameVars, countVars>>

\* note_pause: whether a pause from p counts.
Counts(p) == session.mode = "everyone" \/ (session.mode = "host only" /\ p = Host)

\* note_pause, for a message whose relay is then to be done.
NotePause(p, isPaused) ==
    IF Counts(p)
    THEN /\ session' = [session EXCEPT !.paused = isPaused]
         /\ sending' = [sending EXCEPT ![p] = Noted(Pause(isPaused))]
    ELSE UNCHANGED <<session, sending>>

SyncBeingSent == sending[Host].step # "idle" /\ sending[Host].message.kind = "sync"

\* A client's Pause reaches its reader thread.
PauseArrives(c) ==
    /\ sending[c].step = "idle"
    /\ outbox[c] # <<>>
    /\ NotePause(c, Head(outbox[c]))
    /\ outbox' = [outbox EXCEPT ![c] = Tail(@)]
    /\ overtaken' = (overtaken \/ SyncBeingSent)
    /\ UNCHANGED <<admitted, inbox, gameVars, crossed, sends, changes, settings, resets>>

\* admitted_conns, under the lock.
LookUp(p) ==
    /\ sending[p].step = "noted"
    /\ sending' = [sending EXCEPT ![p].step = "telling", ![p].todo = admitted \ {p}]
    /\ UNCHANGED <<hostVars, inbox, outbox, gameVars, countVars>>

TellOne(p, c) ==
    /\ sending[p].step = "telling"
    /\ c \in sending[p].todo
    /\ sending' = [sending EXCEPT ![p].todo = @ \ {c}]
    /\ inbox' = [inbox EXCEPT ![c] = Append(@, sending[p].message)]
    /\ UNCHANGED <<hostVars, outbox, gameVars, countVars>>

\* The last statement: the event for the host's own frontend.
TellHost(p) ==
    /\ sending[p].step = "telling"
    /\ sending[p].todo = {}
    /\ sending' = [sending EXCEPT ![p] = Idle]
    /\ inbox' = IF p # Host \/ sending[p].message = ResetAll
                THEN [inbox EXCEPT ![Host] = Append(@, sending[p].message)]
                ELSE inbox
    /\ UNCHANGED <<hostVars, outbox, gameVars, countVars>>

-----------------------------------------------------------------------------
(* Each player's frontend. The host's is the thread that also relays.      *)

Ready(p) == p \in admitted \/ (p = Host /\ sending[Host].step = "idle")

\* push_sync_pause_to_session: everyone is to adopt the host's own pause.
PickMode(m) ==
    /\ Ready(Host)
    /\ settings < MaxSettings
    /\ settings' = settings + 1
    /\ session' = [mode |-> m, paused |-> paused[Host]]
    /\ mode' = [mode EXCEPT ![Host] = m]
    /\ synced' = [synced EXCEPT ![Host] = paused[Host]]
    /\ sending' = [sending EXCEPT ![Host] = Noted(Sync(m, paused[Host]))]
    /\ overtaken' = (overtaken \/ inbox[Host] # <<>>
                               \/ \E c \in Client : sending[c].step # "idle")
    /\ crossed' = (crossed \/ \E c \in Client : outbox[c] # <<>>)
    /\ UNCHANGED <<admitted, inbox, outbox, paused, resetDue, sends, changes, resets>>

\* The player, or anything else, pauses or unpauses the game.
ChangePause(p, isPaused) ==
    /\ Ready(p)
    /\ changes < MaxChanges
    /\ paused[p] # isPaused
    /\ changes' = changes + 1
    /\ paused' = [paused EXCEPT ![p] = isPaused]
    /\ UNCHANGED <<hostVars, wireVars, mode, synced, resetDue, overtaken, crossed, sends,
                   settings, resets>>

\* A mutant of the next definition: what is adopted is not noted as agreed.
AdoptOnly(p, isPaused) ==
    /\ paused' = [paused EXCEPT ![p] = isPaused]
    /\ UNCHANGED synced

\* adopt_synced_pause.
Adopt(p, isPaused) ==
    /\ paused' = [paused EXCEPT ![p] = isPaused]
    /\ synced' = [synced EXCEPT ![p] = isPaused]

\* handle_session_event: SyncPauseChanged, PauseChanged or ResetAll.
HandleEvent(p) ==
    /\ Ready(p)
    /\ inbox[p] # <<>>
    /\ inbox' = [inbox EXCEPT ![p] = Tail(@)]
    /\ LET event == Head(inbox[p]) IN
        /\ mode' = IF event.kind = "sync" THEN [mode EXCEPT ![p] = event.mode] ELSE mode
        /\ resetDue' = IF event.kind = "reset" THEN [resetDue EXCEPT ![p] = TRUE] ELSE resetDue
        /\ IF event.kind = "pause" \/ (event.kind = "sync" /\ event.mode # "off")
           THEN Adopt(p, event.paused)
           ELSE UNCHANGED <<paused, synced>>
    /\ UNCHANGED <<hostVars, sending, outbox, countVars>>

\* The countdown of a race is over: everyone unpauses, nobody says so.
ResetFires(p) ==
    /\ Ready(p)
    /\ resetDue[p]
    /\ resetDue' = [resetDue EXCEPT ![p] = FALSE]
    /\ Adopt(p, FALSE)
    /\ UNCHANGED <<hostVars, wireVars, mode, countVars>>

\* Where only the host may pause, a client's game is put back.
PutBack(c) ==
    /\ c \in Client
    /\ mode[c] = "host only"
    /\ paused[c] # synced[c]
    /\ paused' = [paused EXCEPT ![c] = synced[c]]
    /\ UNCHANGED <<hostVars, wireVars, mode, synced, resetDue, countVars>>

\* Something on its way says otherwise than the pause p is about to publish: the
\* opposite Pause, from or to anyone, or a SyncPause that p has yet to hear.
OtherwiseComing(p) ==
    LET Otherwise(m) == m.kind = "pause" /\ m.paused # paused[p]
    IN \/ SyncBeingSent
       \/ \E i \in DOMAIN inbox[p] : inbox[p][i].kind = "sync"
       \/ \E q \in Player :
            \/ sending[q].step # "idle" /\ Otherwise(sending[q].message)
            \/ \E i \in DOMAIN inbox[q] : Otherwise(inbox[q][i])
       \/ \E c \in Client : \E i \in DOMAIN outbox[c] : outbox[c][i] # paused[p]

\* Where p may pause, a pause that was not agreed on is published.
Publish(p) ==
    /\ Ready(p)
    /\ mode[p] = "everyone" \/ (mode[p] = "host only" /\ p = Host)
    /\ paused[p] # synced[p]
    /\ synced' = [synced EXCEPT ![p] = paused[p]]
    /\ sends' = sends + 1
    /\ crossed' = (crossed \/ OtherwiseComing(p))
    /\ IF p = Host
       THEN NotePause(Host, paused[Host]) /\ UNCHANGED outbox
       ELSE /\ outbox' = [outbox EXCEPT ![p] = Append(@, paused[p])]
            /\ UNCHANGED <<session, sending>>
    /\ UNCHANGED <<admitted, inbox, mode, paused, resetDue, overtaken, changes, settings,
                   resets>>

\* send_reset_all: HostShared::sync_pause is left as it is.
StartRace ==
    /\ Ready(Host)
    /\ resets < MaxResets
    /\ resets' = resets + 1
    /\ sending' = [sending EXCEPT ![Host] = Noted(ResetAll)]
    /\ UNCHANGED <<hostVars, inbox, outbox, gameVars, overtaken, crossed, sends, changes,
                   settings>>

-----------------------------------------------------------------------------

Next ==
    \/ \E c \in Client : Join(c) \/ PauseArrives(c) \/ PutBack(c)
    \/ \E p \in Player :
        \/ LookUp(p)
        \/ \E c \in Client : TellOne(p, c)
        \/ TellHost(p)
        \/ \E isPaused \in Choices : ChangePause(p, isPaused)
        \/ HandleEvent(p)
        \/ ResetFires(p)
        \/ Publish(p)
    \/ \E m \in Modes : PickMode(m)
    \/ StartRace

Spec == Init /\ [][Next]_vars

-----------------------------------------------------------------------------
(* Properties.                                                             *)

Message == [kind : {"sync", "pause", "reset"}, mode : Modes \union {"off"}, paused : BOOLEAN]

\* Types, and who may be sent what: nothing is on its way to or from a client
\* that has not been welcomed, and readers relay nothing but pauses.
TypeOK ==
    /\ session \in [mode : Modes \union {"off"}, paused : BOOLEAN]
    /\ admitted \subseteq Client
    /\ sending \in [Player -> [step : {"idle", "noted", "telling"}, message : Message,
                               todo : SUBSET Client]]
    /\ inbox \in [Player -> Seq(Message)]
    /\ outbox \in [Client -> Seq(BOOLEAN)]
    /\ mode \in [Player -> Modes \union {"off"}]
    /\ paused \in [Player -> BOOLEAN] /\ synced \in [Player -> BOOLEAN]
    /\ resetDue \in [Player -> BOOLEAN] /\ overtaken \in BOOLEAN /\ crossed \in BOOLEAN
    /\ sends \in Nat /\ changes \in Nat /\ settings \in Nat /\ resets \in Nat
    /\ \A c \in Client \ admitted : inbox[c] = <<>> /\ outbox[c] = <<>>
    /\ \A c \in Client : sending[c].step # "idle" => sending[c].message.kind = "pause"

\* Nothing is on its way, and no frontend has anything left to do.
Settled ==
    /\ \A p \in Player : /\ sending[p].step = "idle" /\ inbox[p] = <<>> /\ ~resetDue[p]
                         /\ mode[p] = "off" \/ paused[p] = synced[p]
    /\ \A c \in Client : outbox[c] = <<>>

\* The session's pause state is the one everybody's game is in.
InAgreement == \A p \in admitted \union {Host} : paused[p] = session.paused

\* Where only the host may pause, everyone ends up in the state the host is in,
\* joiners and clients whose own Pause was on its way included, unless a setting
\* and a Pause were being relayed at once, or a race reset everyone unasked.
HostRules ==
    Settled /\ session.mode = "host only" /\ resets = 0 /\ ~overtaken => InAgreement

\* Where everyone may pause, whatever the order in which the players' equal
\* pauses are relayed and joiners welcomed, all end in the state noted last: the
\* documented "last `Pause` relayed wins". Opposite pauses that cross are left
\* out: neither sender hears its own message back, and they may stay apart.
LastPauseWins ==
    Settled /\ session.mode = "everyone" /\ resets = 0 /\ ~overtaken /\ ~crossed => InAgreement

\* Whoever may pause, once nothing is on its way the players agree as the setting
\* promises.
PausesAgree == HostRules /\ LastPauseWins

\* A pause that was adopted is never published back, whoever else pauses, joins,
\* resets or changes the setting meanwhile: every Pause a frontend publishes is
\* owed to a change of its own, so two players cannot answer each other for ever.
NoEcho == sends <= changes
=============================================================================
