----------------------------- MODULE LinkCable -----------------------------
(***************************************************************************)
(* Plugging a link cable between two players of a Play Together session:   *)
(* the handshake of their frontends (play_together/link.rs) through the    *)
(* link roster of the host (session/host.rs, "Link cable roster").         *)
(*                                                                         *)
(* The host routes a player's link messages on that player's own thread:   *)
(* a client's reader, the host's application thread. Each step under the   *)
(* lock is one action; what remains to be done after it, delivering and    *)
(* announcing, is the thread's work. Closing a connection is done by       *)
(* another thread, concurrently with that connection's reader.             *)
(*                                                                         *)
(* Link messages travel on the urgent lane, PeerLeft on the ordinary one   *)
(* (module TwoLanes): an urgent message goes in anywhere behind the urgent *)
(* ones that wait. The consoles are all of one family. PeerLinked and      *)
(* PeerUnlinked only narrow whom a player may ask (link_precondition, as   *)
(* how closely the other game is followed does): here a precondition that  *)
(* the handshake itself does not decide may fail at any time, and they are *)
(* left out, as are the frames exchanged while linked.                     *)
(***************************************************************************)
EXTENDS Naturals, Sequences, SequencesExt, FiniteSets

CONSTANTS
    Host,     \* the hosting player
    Client,   \* the players with a connection
    Nobody,   \* no player
    MaxTurns  \* bound: requests made, cables pulled and connections closed, together

ASSUME HostAssumption == Host \notin Client
ASSUME ClientAssumption == IsFiniteSet(Client)
ASSUME NobodyAssumption == Nobody \notin Client \union {Host}
ASSUME LinkBoundsAssumption == MaxTurns \in Nat

Player == Client \union {Host}

\* A player's messages are routed by its reader (the host's by the application
\* thread); a closing connection has a closer besides.
Thread == Player \X {"reader", "closer"}
Reader(p) == <<p, "reader">>
Closer(c) == <<c, "closer">>

VARIABLES
    conns,      \* the clients in HostInner::conns
    closing,    \* the clients whose ConnShared::closing is set
    links,      \* HostInner::links, each as <<requester, accepter>>
    requests,   \* HostInner::link_requests
    endedBy,    \* history: <<p, q>> if p's own Unlink took p and q off the record
    work,       \* what each thread has yet to do
    outbox,     \* link messages on their way from each player
    inbox,      \* messages and events on their way to each player's frontend
    link,       \* PlayTogetherSession::link
    peers,      \* the other players each frontend lists
    turn        \* how many such turns were taken: a request's nonce is its turn

rosterVars == <<conns, closing, links, requests, endedBy>>
frontVars  == <<link, peers, turn>>
vars == <<rosterVars, work, outbox, inbox, frontVars>>

Say(kind, from, to, nonce) == [kind |-> kind, from |-> from, to |-> to, nonce |-> nonce]
Answer(m, kind) == Say(kind, m.to, m.from, m.nonce)

UrgentKinds == {"request", "accept", "decline", "start", "unlink"}

Job(do, m, todo) == [do |-> do, message |-> m, todo |-> todo]
Deliver(m) == Job("deliver", m, {})

\* The broadcast of PeerLeft, one connection after the other.
Announce(m) == Job("announce", m, Client)

TakeTurn == turn < MaxTurns /\ turn' = turn + 1

NoLink == [phase |-> "none", peer |-> Nobody, nonce |-> 0]
Phase(phase, peer, nonce) == [phase |-> phase, peer |-> peer, nonce |-> nonce]

Init ==
    /\ conns = Client /\ closing = {} /\ links = {} /\ requests = {} /\ endedBy = {}
    /\ work = [t \in Thread |-> <<>>]
    /\ outbox = [p \in Player |-> <<>>]
    /\ inbox = [p \in Player |-> <<>>]
    /\ link = [p \in Player |-> NoLink]
    /\ peers = [p \in Player |-> Player \ {p}]
    /\ turn = 0

-----------------------------------------------------------------------------
(* HostShared::route_link, a branch for each kind of message.              *)

IsLinked(p) == \E l \in links : p \in {l[1], l[2]}
AreLinked(p, q) == <<p, q>> \in links \/ <<q, p>> \in links
Pairs(m) == {<<m.from, m.to>>, <<m.to, m.from>>}

Takes(p, kind) ==
    /\ p \notin closing
    /\ work[Reader(p)] = <<>>
    /\ outbox[p] # <<>>
    /\ Head(outbox[p]).kind = kind

Then(p, jobs) ==
    /\ outbox' = [outbox EXCEPT ![p] = Tail(@)]
    /\ work' = [work EXCEPT ![Reader(p)] = jobs]

\* The target's console is looked up before the roster is locked.
RouteRequest(p) ==
    /\ Takes(p, "request")
    /\ LET m == Head(outbox[p])
       IN Then(p, IF m.to \in conns \union {Host}
                  THEN <<Job("record", m, {})>>
                  ELSE <<Deliver(Answer(m, "decline"))>>)
    /\ UNCHANGED <<rosterVars, inbox, frontVars>>

\* One outstanding request per requester: a new one replaces the old.
RecordRequest(p) ==
    /\ work[Reader(p)] # <<>> /\ Head(work[Reader(p)]).do = "record"
    /\ LET m == Head(work[Reader(p)]).message
           busy == IsLinked(m.from) \/ IsLinked(m.to)
       IN /\ requests' = IF busy THEN requests
                         ELSE {r \in requests : r[1] # m.from}
                                \union {<<m.from, m.to, m.nonce>>}
          /\ work' = [work EXCEPT ![Reader(p)] =
                        <<Deliver(IF busy THEN Answer(m, "decline") ELSE m)>>]
    /\ UNCHANGED <<conns, closing, links, endedBy, outbox, inbox, frontVars>>

\* Mutant of the next definition: nobody asks whether an end got linked meanwhile.
AcceptBusy(p) ==
    /\ Takes(p, "accept")
    /\ LET m == Head(outbox[p])
           isAsked == <<m.to, m.from, m.nonce>> \in requests
       IN /\ requests' = requests \ {<<m.to, m.from, m.nonce>>}
          /\ links' = links \union (IF isAsked THEN {<<m.to, m.from>>} ELSE {})
          /\ endedBy' = endedBy \ Pairs(m)
          /\ Then(p, IF isAsked THEN <<Deliver(m)>>
                     ELSE <<>>)
    /\ UNCHANGED <<conns, closing, inbox, frontVars>>

RouteAccept(p) ==
    /\ Takes(p, "accept")
    /\ LET m == Head(outbox[p])
           isAsked == <<m.to, m.from, m.nonce>> \in requests
           busy == IsLinked(m.from) \/ IsLinked(m.to)
       IN /\ requests' = requests \ {<<m.to, m.from, m.nonce>>}
          /\ links' = links \union (IF isAsked /\ ~busy THEN {<<m.to, m.from>>} ELSE {})
          /\ endedBy' = IF isAsked /\ ~busy THEN endedBy \ Pairs(m) ELSE endedBy
          /\ Then(p, IF ~isAsked THEN <<>>
                     ELSE IF busy THEN <<Deliver(Answer(m, "unlink"))>>
                     ELSE <<Deliver(m)>>)
    /\ UNCHANGED <<conns, closing, inbox, frontVars>>

RouteDecline(p) ==
    /\ Takes(p, "decline")
    /\ LET m == Head(outbox[p])
           isAsked == <<m.to, m.from, m.nonce>> \in requests
       IN /\ requests' = requests \ {<<m.to, m.from, m.nonce>>}
          /\ Then(p, IF isAsked THEN <<Deliver(m)>> ELSE <<>>)
    /\ UNCHANGED <<conns, closing, links, endedBy, inbox, frontVars>>

RouteStart(p) ==
    /\ Takes(p, "start")
    /\ LET m == Head(outbox[p])
       IN Then(p, IF AreLinked(m.from, m.to) THEN <<Deliver(m)>> ELSE <<>>)
    /\ UNCHANGED <<rosterVars, inbox, frontVars>>

\* Mutant of the next definition: only the requester's word clears the record.
UnlinkByRequester(p) ==
    /\ Takes(p, "unlink")
    /\ LET m == Head(outbox[p])
       IN /\ requests' = {r \in requests : {r[1], r[2]} # {m.from, m.to}}
          /\ links' = links \ {<<m.from, m.to>>}
          /\ endedBy' = IF AreLinked(m.from, m.to) THEN endedBy \union {<<m.from, m.to>>} ELSE endedBy
          /\ Then(p, IF AreLinked(m.from, m.to) THEN <<Deliver(m)>> ELSE <<>>)
    /\ UNCHANGED <<conns, closing, inbox, frontVars>>

RouteUnlink(p) ==
    /\ Takes(p, "unlink")
    /\ LET m == Head(outbox[p])
       IN /\ requests' = {r \in requests : {r[1], r[2]} # {m.from, m.to}}
          /\ links' = links \ Pairs(m)
          /\ endedBy' = IF AreLinked(m.from, m.to) THEN endedBy \union {<<m.from, m.to>>} ELSE endedBy
          /\ Then(p, IF AreLinked(m.from, m.to)
                     THEN <<Deliver(m)>>
                     ELSE <<>>)
    /\ UNCHANGED <<conns, closing, inbox, frontVars>>

-----------------------------------------------------------------------------
(* What is left to do: deliver_link and broadcast.                         *)

DoesNext(t, do) == work[t] # <<>> /\ Head(work[t]).do = do
Done(t) == work' = [work EXCEPT ![t] = Tail(@)]

IsUrgent(m) == m.kind \in UrgentKinds
LastUrgent(box) == Cardinality({i \in DOMAIN box : \E j \in i..Len(box) : IsUrgent(box[j])})

\* Behind the urgent messages, before or among the ordinary ones.
Overtaking(box, m) == {InsertAt(box, i, m) : i \in (LastUrgent(box) + 1)..(Len(box) + 1)}

Delivering(t) ==
    /\ DoesNext(t, "deliver")
    /\ LET m == Head(work[t]).message
       IN \E box \in (IF m.to = Host THEN {Append(inbox[m.to], m)}
                       ELSE IF m.to \in conns \ closing THEN Overtaking(inbox[m.to], m)
                       ELSE {inbox[m.to]}) :
            inbox' = [inbox EXCEPT ![m.to] = box]
    /\ Done(t)
    /\ UNCHANGED <<rosterVars, outbox, frontVars>>

Announcing(t, c) ==
    /\ DoesNext(t, "announce")
    /\ LET j == Head(work[t])
       IN /\ c \in j.todo
          /\ inbox' = [inbox EXCEPT ![c] = IF c \in conns \ closing THEN Append(@, j.message) ELSE @]
          /\ work' = [work EXCEPT ![t] = <<Job(j.do, j.message, j.todo \ {c})>> \o Tail(@)]
    /\ UNCHANGED <<rosterVars, outbox, frontVars>>

Announced(t) ==
    /\ DoesNext(t, "announce")
    /\ Head(work[t]).todo = {}
    /\ Done(t)
    /\ UNCHANGED <<rosterVars, outbox, inbox, frontVars>>

-----------------------------------------------------------------------------
(* HostShared::close_connection, for any reason a connection ends.         *)

\* begin_close drops what was queued.
BeginClose(c) ==
    /\ c \in conns \ closing
    /\ TakeTurn
    /\ closing' = closing \union {c}
    /\ inbox' = [inbox EXCEPT ![c] = <<>>]
    /\ outbox' = [outbox EXCEPT ![c] = <<>>]
    /\ work' = [work EXCEPT ![Closer(c)] = <<Job("remove", Say("left", c, Nobody, 0), {})>>]
    /\ UNCHANGED <<conns, links, requests, endedBy, link, peers>>

Removing(c) ==
    /\ DoesNext(Closer(c), "remove")
    /\ LET m == Head(work[Closer(c)]).message
       IN /\ inbox' = [inbox EXCEPT ![Host] = Append(@, m)]
          /\ work' = [work EXCEPT ![Closer(c)] = <<Job("depart", m, {})>>]
    /\ conns' = conns \ {c}
    /\ UNCHANGED <<closing, links, requests, endedBy, outbox, frontVars>>

PartnersOf(c) == {p \in Player : AreLinked(c, p)}
Unplugs(c) == SetToSeq({Deliver(Say("unlink", c, p, 0)) : p \in PartnersOf(c)})

\* Mutant of the next definition: the departure is broadcast first.
TellThenUnlink(c) ==
    /\ DoesNext(Closer(c), "depart")
    /\ requests' = {r \in requests : c \notin {r[1], r[2]}}
    /\ links' = {l \in links : c \notin {l[1], l[2]}}
    /\ work' = [work EXCEPT ![Closer(c)] =
                    <<Announce(Head(work[Closer(c)]).message)>> \o Unplugs(c)]
    /\ UNCHANGED <<conns, closing, endedBy, outbox, inbox, frontVars>>

\* unlink_departed, then the broadcast of PeerLeft.
Departing(c) ==
    /\ DoesNext(Closer(c), "depart")
    /\ requests' = {r \in requests : c \notin {r[1], r[2]}}
    /\ links' = {l \in links : c \notin {l[1], l[2]}}
    /\ work' = [work EXCEPT ![Closer(c)] =
                    Unplugs(c) \o <<Announce(Head(work[Closer(c)]).message)>>]
    /\ UNCHANGED <<conns, closing, endedBy, outbox, inbox, frontVars>>

-----------------------------------------------------------------------------
(* A player's frontend (link.rs), one event or command at a time. The      *)
(* host's messages are routed before send_link returns to it.              *)

CanAct(p) ==
    IF p = Host THEN outbox[p] = <<>> /\ work[Reader(p)] = <<>> ELSE p \notin closing

\* "holding" is the middle of hold_for_link: nothing else runs before it is over.
Idle(p) == CanAct(p) /\ link[p].phase # "holding"

Hears(p, kind) == Idle(p) /\ inbox[p] # <<>> /\ Head(inbox[p]).kind = kind
Heard(p) == inbox' = [inbox EXCEPT ![p] = Tail(@)]

SetLink(p, phase) == link' = [link EXCEPT ![p] = phase]

\* send_link refuses a target that left: the host knows at once, a client from when
\* it has read of it.
Refusals(p, q) ==
    IF p = Host THEN {q \notin conns}
    ELSE IF Say("left", q, Nobody, 0) \in ToSet(inbox[p]) THEN BOOLEAN
    ELSE {FALSE}

Post(p, m, refused) == outbox' = [outbox EXCEPT ![p] = IF refused THEN @ ELSE Append(@, m)]
Tell(p, kind, q, nonce) ==
    \E refused \in Refusals(p, q) : Post(p, Say(kind, p, q, nonce), refused)

\* link_precondition, what the handshake decides of it.
MayLink(p, q) == link[p] = NoLink /\ q \in peers[p]

Request(p, q) ==
    /\ Idle(p)
    /\ MayLink(p, q)
    /\ TakeTurn
    /\ \E refused \in Refusals(p, q) :
        /\ Post(p, Say("request", p, q, turn'), refused)
        /\ SetLink(p, IF refused THEN NoLink ELSE Phase("requesting", q, turn'))
    /\ UNCHANGED <<rosterVars, work, inbox, peers>>

HearRequest(p) ==
    /\ Hears(p, "request")
    /\ LET m == Head(inbox[p])
       IN \/ /\ MayLink(p, m.from)
             /\ SetLink(p, Phase("incoming", m.from, m.nonce))
             /\ UNCHANGED outbox
          \/ /\ Tell(p, "decline", m.from, m.nonce)
             /\ UNCHANGED link
    /\ Heard(p)
    /\ UNCHANGED <<rosterVars, work, peers, turn>>

\* link_respond_in: an accept that cannot be sent leaves the request pending.
Accept(p) ==
    /\ Idle(p)
    /\ link[p].phase = "incoming"
    /\ LET q == link[p].peer
           n == link[p].nonce
       IN \/ /\ q \in peers[p]
             /\ \E refused \in Refusals(p, q) :
                 /\ Post(p, Say("accept", p, q, n), refused)
                 /\ SetLink(p, IF refused THEN link[p] ELSE Phase("holding", q, n))
          \/ /\ Tell(p, "decline", q, n)
             /\ SetLink(p, NoLink)
    /\ UNCHANGED <<rosterVars, work, inbox, peers, turn>>

\* The rest of hold_for_link: it stops the game and says where, or it cannot.
Hold(p) ==
    /\ CanAct(p)
    /\ link[p].phase = "holding"
    /\ LET q == link[p].peer
           n == link[p].nonce
       IN \/ \E refused \in Refusals(p, q) :
                 /\ Post(p, Say("start", p, q, n), refused)
                 /\ SetLink(p, IF refused THEN NoLink ELSE Phase("starting", q, n))
          \/ /\ Tell(p, "unlink", q, 0)
             /\ SetLink(p, NoLink)
    /\ UNCHANGED <<rosterVars, work, inbox, peers, turn>>

\* An answer to nothing it asked for: the host has recorded the pair, so undo that.
HearAccept(p) ==
    /\ Hears(p, "accept")
    /\ LET m == Head(inbox[p])
       IN IF link[p] = Phase("requesting", m.from, m.nonce)
          THEN SetLink(p, Phase("holding", m.from, m.nonce)) /\ UNCHANGED outbox
          ELSE Tell(p, "unlink", m.from, 0) /\ UNCHANGED link
    /\ Heard(p)
    /\ UNCHANGED <<rosterVars, work, peers, turn>>

HearDecline(p) ==
    /\ Hears(p, "decline")
    /\ LET m == Head(inbox[p])
       IN SetLink(p, IF link[p] = Phase("requesting", m.from, m.nonce)
                     THEN NoLink ELSE link[p])
    /\ Heard(p)
    /\ UNCHANGED <<rosterVars, work, outbox, peers, turn>>

\* Mutant of the next definition: it gives the attempt up without a word.
GiveUpUntold(p) ==
    /\ Hears(p, "start")
    /\ LET m == Head(inbox[p])
           isIts == link[p] = Phase("starting", m.from, m.nonce)
       IN \/ isIts /\ SetLink(p, Phase("plugged", m.from, m.nonce))
          \/ SetLink(p, IF isIts THEN NoLink ELSE link[p])
    /\ Heard(p)
    /\ UNCHANGED <<rosterVars, work, outbox, peers, turn>>

\* Both starts are known: it plugs in, unless the other game cannot be lent.
HearStart(p) ==
    /\ Hears(p, "start")
    /\ LET m == Head(inbox[p])
       IN IF link[p] = Phase("starting", m.from, m.nonce)
          THEN \/ SetLink(p, Phase("plugged", m.from, m.nonce)) /\ UNCHANGED outbox
               \/ SetLink(p, NoLink) /\ Tell(p, "unlink", m.from, 0)
          ELSE UNCHANGED <<link, outbox>>
    /\ Heard(p)
    /\ UNCHANGED <<rosterVars, work, peers, turn>>

HearUnlink(p) ==
    /\ Hears(p, "unlink")
    /\ SetLink(p, IF link[p].peer = Head(inbox[p]).from THEN NoLink ELSE link[p])
    /\ Heard(p)
    /\ UNCHANGED <<rosterVars, work, outbox, peers, turn>>

\* A departed player's link ends untold, and its entry goes.
HearLeft(p) ==
    /\ Hears(p, "left")
    /\ LET q == Head(inbox[p]).from
       IN /\ SetLink(p, IF link[p].peer = q THEN NoLink ELSE link[p])
          /\ peers' = [peers EXCEPT ![p] = @ \ {q}]
    /\ Heard(p)
    /\ UNCHANGED <<rosterVars, work, outbox, turn>>

\* unlink_cable with tell: the player pulls the cable, withdraws or declines, a
\* timeout passes, or the core ends the link.
Pull(p) ==
    /\ Idle(p)
    /\ link[p] # NoLink
    /\ TakeTurn
    /\ LET q == link[p].peer
       IN IF link[p].phase = "incoming" THEN Tell(p, "decline", q, link[p].nonce)
          ELSE Tell(p, "unlink", q, 0)
    /\ SetLink(p, NoLink)
    /\ UNCHANGED <<rosterVars, work, inbox, peers>>

-----------------------------------------------------------------------------

Route(p) ==
    \/ RouteRequest(p) \/ RecordRequest(p) \/ RouteAccept(p)
    \/ RouteDecline(p) \/ RouteStart(p) \/ RouteUnlink(p)

Work(t) ==
    \/ Delivering(t)
    \/ \E c \in Client : Announcing(t, c)
    \/ Announced(t)

Close(c) == BeginClose(c) \/ Removing(c) \/ Departing(c)

Frontend(p) ==
    \/ \E q \in Player : Request(p, q)
    \/ Accept(p) \/ Hold(p) \/ Pull(p)
    \/ HearRequest(p) \/ HearAccept(p) \/ HearDecline(p) \/ HearStart(p)
    \/ HearUnlink(p) \/ HearLeft(p)

Next ==
    \/ \E p \in Player : Route(p) \/ Frontend(p)
    \/ \E t \in Thread : Work(t)
    \/ \E c \in Client : Close(c)

Spec == Init /\ [][Next]_vars

-----------------------------------------------------------------------------
(* Properties.                                                             *)

Phases == {"none", "requesting", "incoming", "holding", "starting", "plugged"}

\* Every part has its type, and a frontend's link is with a player it lists
\* (play_together.rs:1584-1595, link.rs:298).
TypeOK ==
    /\ conns \subseteq Client /\ closing \subseteq Client
    /\ links \subseteq Player \X Player
    /\ requests \subseteq Player \X Player \X (1..MaxTurns)
    /\ \A p \in Player :
        /\ link[p].phase \in Phases
        /\ link[p].phase = "none" <=> link[p] = NoLink
        /\ link[p].peer \in peers[p] \union {Nobody}
        /\ peers[p] \subseteq Player \ {p}

\* A console has one link port: the roster never plugs a player into two others,
\* whatever is accepted at once (host.rs:467-473).
OneCable ==
    \A k, l \in links : k # l => {k[1], k[2]} \intersect {l[1], l[2]} = {}

PluggedInto(p, q) == link[p].phase = "plugged" /\ link[p].peer = q

\* The players whose connection is not about to end.
Staying == Player \ closing

AtRest ==
    /\ \A t \in Thread : work[t] = <<>>
    /\ \A p \in Staying : outbox[p] = <<>> /\ inbox[p] = <<>>
    /\ \A p \in Staying : link[p].phase \in {"none", "plugged"}

\* When nothing is on its way, the players on record as linked are plugged into each
\* other: a record that outlived its cable would have every later request of theirs
\* declined as busy (host.rs:440-449, link.rs:562-572).
RecordsHold ==
    AtRest => \A p, q \in Staying : AreLinked(p, q) => PluggedInto(p, q)

\* Closing a connection unplugs before it tells (host.rs:371-373): a plugged player
\* that hears of its partner's departure first is owed the `Unlink` by the partner's
\* own reader, which was relaying it, and never by the one who closed the connection;
\* or the record had been ended by an `Unlink` of its own, sent about an earlier attempt
\* (link.rs:562-572), and it is plugged in at one end only.
UnlinkFirst ==
    \A p \in Client \ closing : \A q \in Client :
        /\ PluggedInto(p, q)
        /\ inbox[p] # <<>> /\ Head(inbox[p]) = Say("left", q, Nobody, 0)
        => LET unlink == Say("unlink", q, p, 0)
           IN \/ Deliver(unlink) \in ToSet(work[Reader(q)])
              \/ unlink \in ToSet(inbox[p])
              \/ <<p, q>> \in endedBy

\* A player plugs in once both have stopped for the same attempt (link.rs:16-18, 80-83):
\* the one it is plugged into has stopped its game for that attempt or is plugged in too.
\* Or it has ended that attempt and its `Unlink` is on its way; or the record had been
\* ended by an `Unlink` of the plugged player, sent about an earlier attempt.
PluggedTogether ==
    \A p, q \in Staying : PluggedInto(p, q) =>
        LET unlink == Say("unlink", q, p, 0)
        IN \/ link[q] \in {Phase(x, p, link[p].nonce) : x \in {"starting", "plugged"}}
           \/ unlink \in ToSet(outbox[q])
           \/ Deliver(unlink) \in ToSet(work[Reader(q)])
           \/ unlink \in ToSet(inbox[p])
           \/ <<p, q>> \in endedBy
=============================================================================
