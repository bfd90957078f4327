------------------------ MODULE LinkCable_invariants ------------------------
(***************************************************************************)
(* The inductive invariants of the link roster and the handshake, and what *)
(* each step does to what they speak of. LinkCable_proofs proves them, for *)
(* any number of clients, requests, cables pulled and connections closed.  *)
(*                                                                         *)
(* OneCable is inductive as it stands. Links are added by RouteAccept      *)
(* alone, which looks for both ends in every recorded link and adds the    *)
(* pair under the same lock; RouteUnlink and Departing only remove.        *)
(*                                                                         *)
(* RecordsHold speaks of rest, so what is on its way has to be followed.   *)
(*   Types    every queue, line of jobs and handshake is well formed;      *)
(*   Numbers  the nonce of a request belongs to one request, which is      *)
(*            routed once and is in one place at a time;                   *)
(*   Views    of two players that stay, either one's own Unlink is on its  *)
(*            way to the host, or one sees the other as the record says:   *)
(*            linked, it has the cable or gets it, and nothing that is     *)
(*            on its way can untie it.                                     *)
(* A view is a predicate of a few values (Fine), so that a step that       *)
(* changes one of them is checked against that one only. Together they are *)
(* inductive (HandshakeKept), and at rest they say RecordsHold.            *)
(*                                                                         *)
(* UnlinkFirst speaks of a player that stays and its partner that leaves,  *)
(* where Views is silent. Beside Types and Numbers it takes                *)
(*   Attempts  a request is in one place and unanswered while it is there, *)
(*             a start has the number of a turn taken, an Unlink none;     *)
(*   Partings  a closer owes its Unlinks before its farewell, and a        *)
(*             farewell that arrived leaves only farewells to come;        *)
(*   Cables    a plugged player that stays is on record with a partner     *)
(*             that has not left it, or the partner's Unlink is on its     *)
(*             way, or its own Unlink ended the record.                    *)
(*                                                                         *)
(* PluggedTogether speaks of two players that stay and of one attempt, so  *)
(* what is of another attempt of the two has to be told from it. Beside    *)
(* Types, Numbers, Attempts and Views it takes                             *)
(*   Lanes    what travels from one player to another keeps its order, and *)
(*            an accept travels once, ahead of the start;                  *)
(*   Lined    of a player that is in for an attempt, nothing that opens    *)
(*            another one is behind what opened this one;                  *)
(*   Pasts    while something of another attempt of the two is left, the   *)
(*            other player is not in for this one;                         *)
(*   Meets    when the other's start has come, or is on its way between    *)
(*            two players on record, it has stopped for this attempt, or   *)
(*            its Unlink is on its way, or the plugged player's own Unlink *)
(*            ended the record.                                            *)
(***************************************************************************)
EXTENDS LinkCable

\* PeerLeft of c; the letters between two players, and those that ask.
Left(c) == Say("left", c, Nobody, 0)
Letter == [kind : UrgentKinds, from : Player, to : Player, nonce : 0..MaxTurns]
Ask == {m \in Letter : m.kind = "request"}

\* A player's letters; what its reader may have to do, what its closer may, and what
\* may reach its frontend.
Mail(p) == {m \in Letter : m.from = p /\ m.to # p}
News(p) == {m \in Letter : m.to = p /\ m.from # p}
Task(p) == {Job("record", m, {}) : m \in Mail(p) \cap Ask}
             \union {Deliver(m) : m \in Mail(p)}
             \union {Deliver(m) : m \in {o \in News(p) : o.kind \in {"decline", "unlink"}}}
Duty(c) == {Job(do, Left(c), {}) : do \in {"remove", "depart"}}
             \union {Job("announce", Left(c), todo) : todo \in SUBSET Client}
             \union {Deliver(Say("unlink", c, q, 0)) : q \in Player \ {c}}

\* A frontend that has something going on with another player.
Linking == [phase : Phases \ {"none"}, peer : Player, nonce : 0..MaxTurns]

\* The roster's types; those of a player's frontend, outbox, inbox, reader and closer.
Typed ==
    /\ conns \subseteq Client /\ closing \subseteq Client /\ Client \ closing \subseteq conns
    /\ links \subseteq Player \X Player
    /\ \A l \in links : l[1] # l[2]
    /\ requests \subseteq Player \X Player \X (0..MaxTurns)
    /\ \A r \in requests : r[1] # r[2]
    /\ turn \in 0..MaxTurns

FrontTyped(p) ==
    /\ peers[p] \subseteq Player \ {p}
    /\ link[p] = NoLink \/ (link[p] \in Linking /\ link[p].peer \in peers[p])

OutTyped(p) == outbox[p] \in Seq(Mail(p))
InTyped(p) == inbox[p] \in Seq(News(p) \union {Left(c) : c \in closing})
ReadTyped(p) == work[Reader(p)] = <<>> \/ \E j \in Task(p) : work[Reader(p)] = <<j>>
CloseTyped(p) == /\ work[Closer(p)] \in Seq(Duty(p))
                 /\ work[Closer(p)] # <<>> => p \in closing

Wired ==
    /\ DOMAIN work = Thread
    /\ DOMAIN outbox = Player /\ DOMAIN inbox = Player
    /\ DOMAIN link = Player /\ DOMAIN peers = Player
    /\ \A p \in Player : OutTyped(p) /\ InTyped(p) /\ ReadTyped(p) /\ CloseTyped(p) /\ FrontTyped(p)
Types == Typed /\ Wired

\* The messages of the jobs of a line that deliver, or record.
Carry(jobs, do) == {j.message : j \in {k \in ToSet(jobs) : k.do = do}}
Carried(p) == Carry(work[Reader(p)], "deliver")
Recording(p) == Carry(work[Reader(p)], "record")

\* Where a request is: not recorded yet; on its way, or in the hands of the asked; on
\* record or accepted.
Waiting(m) == m \in ToSet(outbox[m.from]) \/ m \in Recording(m.from)
Arrived(m) ==
    \/ m \in Carried(m.from)
    \/ m \in ToSet(inbox[m.to])
    \/ link[m.to] = Phase("incoming", m.from, m.nonce)
    \/ Answer(m, "accept") \in ToSet(outbox[m.to])
Answered(m) ==
    \/ <<m.from, m.to, m.nonce>> \in requests
    \/ Answer(m, "accept") \in Carried(m.to)
    \/ Answer(m, "accept") \in ToSet(inbox[m.from])
Mentioned(m) == Waiting(m) \/ Arrived(m) \/ Answered(m)

\* A request is numbered by the turn it was made in, so two askers never use the same
\* number; it is routed once, and arrives behind its record; an asker has one on record.
Numbered == \A m \in Ask : Mentioned(m) => m.nonce \in 1..turn
OneAsker == \A m, o \in Ask : Mentioned(m) /\ Mentioned(o) /\ m.nonce = o.nonce => m = o
Fresh == \A m \in Ask : Waiting(m) => ~ Arrived(m)
OnceFrom(p) ==
    \A m \in Ask :
        /\ m \in Recording(p) => m \notin ToSet(outbox[p])
        /\ \A i, j \in DOMAIN outbox[p] : outbox[p][i] = m /\ outbox[p][j] = m => i = j
Once == \A p \in Player : OnceFrom(p)
OneRequest == \A r, s \in requests : r[1] = s[1] => r = s
Numbers == Numbered /\ OneAsker /\ Fresh /\ Once /\ OneRequest

-----------------------------------------------------------------------------
\* What p sees of q: L is p's handshake, O its outbox, B its inbox, W and H what the
\* readers of p and of q have yet to deliver, R the requests and K the links on record.
IsUnlink(m, q, p) == m.kind = "unlink" /\ m.from = q /\ m.to = p
IsAccept(m, q, p) == m.kind = "accept" /\ m.from = q /\ m.to = p

\* An Unlink of q would end what p has with it.
Tied(L, q) == L.phase \in {"holding", "starting", "plugged"} /\ L.peer = q

\* An Unlink of q that p has yet to hear: with a reader, or in its inbox; all of them
\* ahead of place i; each with an accept of q ahead of it.
Comes(W, p, q) == \E m \in W : IsUnlink(m, q, p)
Waits(B, p, q) == \E j \in DOMAIN B : IsUnlink(B[j], q, p)
Ahead(B, p, q, i) == \A j \in DOMAIN B : IsUnlink(B[j], q, p) => j < i
Guard(B, p, q, j) == \E k \in DOMAIN B : k < j /\ IsAccept(B[k], q, p)
Guarded(B, p, q) == \A j \in DOMAIN B : IsUnlink(B[j], q, p) => Guard(B, p, q, j)
GuardedTo(B, p, q, i) == \A j \in DOMAIN B : IsUnlink(B[j], q, p) /\ j < i => Guard(B, p, q, j)
Coming(W, H, p, q) == Comes(W, p, q) \/ Comes(H, p, q)
Threat(B, W, H, p, q) == Coming(W, H, p, q) \/ Waits(B, p, q)

\* p has the cable with q and nothing will untie it; or q's accept will tie it, and
\* what p asked for is not ended before.
Has(p, q, L, B, W, H, R) ==
    Tied(L, q) /\ <<q, p, L.nonce>> \notin R /\ ~ Threat(B, W, H, p, q)
Gets(p, q, L, B, W, H) ==
    \/ \E m \in H : /\ IsAccept(m, q, p)
                    /\ L = Phase("requesting", q, m.nonce) => ~ Comes(W, p, q)
    \/ \E i \in DOMAIN B :
          /\ IsAccept(B[i], q, p)
          /\ L = Phase("requesting", q, B[i].nonce)
               => ~ Coming(W, H, p, q) /\ Ahead(B, p, q, i)

\* On record as linked, the asker has the cable or gets it, and the asked has it. An Unlink
\* the host sends p (busy) finds p tied and goes behind an accept. A request of q on
\* record is followed all the way: with q's reader, in p's inbox, with p, accepted.
AskerFine(p, q, L, B, W, H, R, K) == <<p, q>> \in K => Has(p, q, L, B, W, H, R) \/ Gets(p, q, L, B, W, H)
AskedFine(p, q, L, B, W, H, R, K) == <<q, p>> \in K => Has(p, q, L, B, W, H, R)
BusyFine(p, q, L, B, W, H) == Comes(W, p, q) =>
    /\ Tied(L, q) /\ Guarded(B, p, q)
    /\ Comes(H, p, q) => \E k \in DOMAIN B : IsAccept(B[k], q, p)
SentFine(p, q, L, B, W, H, n) == Say("request", q, p, n) \in H =>
    ~ Coming(W, H, p, q) \/ (Tied(L, q) /\ Guarded(B, p, q))
HereFine(p, q, L, B, W, H, n) == \A i \in DOMAIN B : B[i] = Say("request", q, p, n) =>
    \/ ~ Coming(W, H, p, q) /\ Ahead(B, p, q, i)
    \/ Tied(L, q) /\ GuardedTo(B, p, q, i)
SeenFine(p, q, L, B, W, H, n) == L = Phase("incoming", q, n) => ~ Threat(B, W, H, p, q)
SaidFine(p, q, L, O, B, W, H, n) == Say("accept", p, q, n) \in O =>
    Tied(L, q) /\ L.nonce = n /\ ~ Threat(B, W, H, p, q)

Fine(p, q, L, O, B, W, H, R, K) ==
    /\ AskerFine(p, q, L, B, W, H, R, K)
    /\ AskedFine(p, q, L, B, W, H, R, K)
    /\ BusyFine(p, q, L, B, W, H)
    /\ \A n \in 1..MaxTurns : <<q, p, n>> \in R =>
         /\ SentFine(p, q, L, B, W, H, n)
         /\ HereFine(p, q, L, B, W, H, n)
         /\ SeenFine(p, q, L, B, W, H, n)
         /\ SaidFine(p, q, L, O, B, W, H, n)

\* p's own Unlink to q is on its way to the host, which will end the record.
Pulled(O, p, q) == \E m \in O : IsUnlink(m, p, q)

Sees(p, q) ==
    Fine(p, q, link[p], ToSet(outbox[p]), inbox[p], Carried(p), Carried(q), requests, links)
View(p, q) == Pulled(ToSet(outbox[p]), p, q) \/ Sees(p, q)
Views == \A p, q \in Staying : p # q => View(p, q)

-----------------------------------------------------------------------------
(* What a step does to the queues, of a frontend and of a reader.          *)

\* A message went in behind every urgent one, and no urgent one moved.
Grows(B, B2, m) ==
    \E i \in DOMAIN B2 :
        /\ B2[i] = m
        /\ \A j \in DOMAIN B : IsUrgent(B[j]) => j < i /\ j \in DOMAIN B2 /\ B2[j] = B[j]
        /\ \A j \in DOMAIN B2 : IsUrgent(B2[j]) /\ j # i => j \in DOMAIN B /\ B2[j] = B[j]

\* Only p's end of things changes.
FrontMoves(p) ==
    /\ UNCHANGED <<rosterVars, work>>
    /\ DOMAIN outbox' = Player /\ DOMAIN inbox' = Player
    /\ DOMAIN link' = Player /\ DOMAIN peers' = Player
    /\ \A x \in Player : x # p =>
        outbox'[x] = outbox[x] /\ inbox'[x] = inbox[x] /\ link'[x] = link[x] /\ peers'[x] = peers[x]

Says(p, m) == outbox'[p] = Append(outbox[p], m)
SaysIfHeard(p, kind, q, n) ==
    \/ Says(p, Say(kind, p, q, n))
    \/ outbox'[p] = outbox[p] /\ TRUE \in Refusals(p, q)

\* It hears the head of its inbox, unless it is in the middle of hold_for_link.
Listens(p, kind) ==
    /\ FrontMoves(p) /\ turn' = turn
    /\ inbox[p] # <<>> /\ Head(inbox[p]).kind = kind /\ inbox'[p] = Tail(inbox[p])
    /\ link[p].phase # "holding"

\* What a step of a frontend may do to its own end.
FrontStep(p) ==
    /\ FrontMoves(p)
    /\ turn' \in turn..MaxTurns
    /\ FrontTyped(p)'
    /\ \/ outbox'[p] = outbox[p]
       \/ \E m \in Mail(p) :
            /\ Says(p, m)
            /\ m.kind = "request" => m.nonce = turn + 1 /\ turn' = turn + 1
            /\ m.kind = "accept" => link[p] = Phase("incoming", m.to, m.nonce)
    /\ inbox'[p] = inbox[p] \/ (inbox[p] # <<>> /\ inbox'[p] = Tail(inbox[p]))
    /\ \A a \in Player, n \in 0..MaxTurns :
        link'[p] = Phase("incoming", a, n)
            => link[p] = Phase("incoming", a, n) \/ Say("request", a, p, n) \in ToSet(inbox[p])

\* Only p's reader, its outbox and the roster change.
RouteMoves(p) ==
    /\ UNCHANGED <<conns, closing, inbox, link, peers, turn>>
    /\ DOMAIN outbox' = Player /\ DOMAIN work' = Thread
    /\ \A x \in Player : x # p => outbox'[x] = outbox[x]
    /\ \A t \in Thread : t # Reader(p) => work'[t] = work[t]

\* The reader takes the head of the outbox, and has these jobs of it.
Routes(p, kind, jobs) ==
    /\ RouteMoves(p)
    /\ p \notin closing /\ work[Reader(p)] = <<>>
    /\ outbox[p] # <<>> /\ Head(outbox[p]).kind = kind
    /\ outbox'[p] = Tail(outbox[p]) /\ work'[Reader(p)] = jobs

-----------------------------------------------------------------------------
(* What a delivery does, and a step of a closer.                           *)

\* The thread hands over m: a reader what it routed, a closer an unlink.
Hands(t, m) ==
    \/ \E p \in Player :
          /\ t = Reader(p) /\ work[t] = <<Deliver(m)>> /\ work'[t] = <<>>
          /\ (m \in Mail(p) \/ (m \in News(p) /\ m.kind \in {"decline", "unlink"}))
    \/ \E c \in Player \cap closing :
          /\ t = Closer(c) /\ work[t] # <<>> /\ work'[t] = Tail(work[t])
          /\ \E q \in Player \ {c} : m = Say("unlink", c, q, 0)

\* Thread t delivers m: into the inbox, or to a player that is about to leave.
Delivers(t, m) ==
    /\ UNCHANGED <<rosterVars, outbox, frontVars>>
    /\ DOMAIN work' = Thread /\ DOMAIN inbox' = Player
    /\ \A u \in Thread : u # t => work'[u] = work[u]
    /\ Hands(t, m)
    /\ m.to \in Player /\ m \in News(m.to)
    /\ \A y \in Player : y # m.to => inbox'[y] = inbox[y]
    /\ \/ inbox'[m.to] = inbox[m.to] /\ m.to \notin Staying
       \/ /\ inbox'[m.to] \in Seq(News(m.to) \union {Left(c) : c \in closing})
          /\ ToSet(inbox'[m.to]) = ToSet(inbox[m.to]) \union {m}
          /\ Grows(inbox[m.to], inbox'[m.to], m)

\* What becomes of the rest when someone leaves.
CloseStep ==
    /\ closing \subseteq closing' /\ link' = link /\ peers' = peers
    /\ requests' \subseteq requests /\ links' \subseteq links
    /\ turn' \in turn..MaxTurns
    /\ DOMAIN outbox' = Player /\ DOMAIN inbox' = Player
    /\ \A x \in Player :
        /\ work'[Reader(x)] = work[Reader(x)]
        /\ outbox'[x] = outbox[x] \/ (x \in closing' /\ outbox'[x] = <<>>)
        /\ \/ inbox'[x] = inbox[x]
           \/ \E c \in closing : inbox'[x] = Append(inbox[x], Left(c))
           \/ x \in closing' /\ inbox'[x] = <<>>

-----------------------------------------------------------------------------
(* Attempts, and what a frontend does to its end of one.                   *)

\* A request that is still asked: on its way, or shown to the player it is for.
Going(m) ==
    \/ m \in Carried(m.from)
    \/ m \in ToSet(inbox[m.to])
    \/ link[m.to] = Phase("incoming", m.from, m.nonce)
Asked(m) == Waiting(m) \/ Going(m)

\* Player p is in for attempt n with q: it holds or is past it, or its start flies.
Flies(p, q, n) ==
    \/ Say("start", p, q, n) \in ToSet(outbox[p])
    \/ Say("start", p, q, n) \in Carried(p)
    \/ Say("start", p, q, n) \in ToSet(inbox[q])
Bound(p, q, n) == (Tied(link[p], q) /\ link[p].nonce = n) \/ Flies(p, q, n)

\* A request is told once its accept is on its way, or has come to the one who asked.
Told(m) ==
    \/ Answer(m, "accept") \in ToSet(outbox[m.to])
    \/ Answer(m, "accept") \in Carried(m.to)
    \/ Answer(m, "accept") \in ToSet(inbox[m.from])
    \/ Bound(m.from, m.to, m.nonce)

\* A request is in one place at a time, and nobody starts before it was accepted.
SingleAt(m) ==
    /\ m \in Carried(m.from) => m \notin ToSet(inbox[m.to])
    /\ link[m.to] = Phase("incoming", m.from, m.nonce) =>
         m \notin Carried(m.from) /\ m \notin ToSet(inbox[m.to])
    /\ \A i, j \in DOMAIN inbox[m.to] : inbox[m.to][i] = m /\ inbox[m.to][j] = m => i = j
Single == \A m \in Ask : SingleAt(m)
Untold == \A m \in Ask : Asked(m) => ~ Told(m)
Dated == \A p, q \in Player, n \in 0..MaxTurns : Bound(p, q, n) => n <= turn
ZeroUnlinks == \A p \in Player : \A m \in ToSet(outbox[p]) : m.kind = "unlink" => m.nonce = 0
Attempts == Single /\ Untold /\ Dated /\ ZeroUnlinks

\* A step of a frontend changes its end of the link in one of seven ways.
Ends(p) ==
    /\ link'[p] = link[p] \/ link'[p] = NoLink
    /\ \/ outbox'[p] = outbox[p]
       \/ \E kind \in {"decline", "unlink"}, q \in Player \ {p}, n \in 0..MaxTurns :
            Says(p, Say(kind, p, q, n)) /\ (kind = "unlink" => n = 0)
    /\ \/ inbox'[p] = inbox[p]
       \/ /\ inbox[p] # <<>> /\ inbox'[p] = Tail(inbox[p])
          /\ Head(inbox[p]).kind = "unlink" => link'[p].peer # Head(inbox[p]).from
Asks(p, q) ==
    /\ Says(p, Say("request", p, q, turn + 1)) /\ link'[p] = Phase("requesting", q, turn + 1)
    /\ turn' = turn + 1 /\ turn < MaxTurns /\ inbox'[p] = inbox[p]
HearsOf(p, kind, q, n) ==
    /\ inbox[p] # <<>> /\ Head(inbox[p]) = Say(kind, q, p, n) /\ inbox'[p] = Tail(inbox[p])
    /\ outbox'[p] = outbox[p]
Speaks(p, kind, q, n) == Says(p, Say(kind, p, q, n)) /\ inbox'[p] = inbox[p]
Moves(p, x, y, q, n) == link[p] = Phase(x, q, n) /\ link'[p] = Phase(y, q, n)
Shows(p, q, n) ==
    HearsOf(p, "request", q, n) /\ link[p] = NoLink /\ link'[p] = Phase("incoming", q, n)
Accepts(p, q, n) == Speaks(p, "accept", q, n) /\ Moves(p, "incoming", "holding", q, n)
Agrees(p, q, n) == HearsOf(p, "accept", q, n) /\ Moves(p, "requesting", "holding", q, n)
Stops(p, q, n) == Speaks(p, "start", q, n) /\ Moves(p, "holding", "starting", q, n)
PlugsIn(p, q, n) == HearsOf(p, "start", q, n) /\ Moves(p, "starting", "plugged", q, n)
EndMoves(p) ==
    \/ Ends(p)
    \/ \E q \in Player \ {p} : Asks(p, q)
    \/ \E q \in Player \ {p}, n \in 0..MaxTurns :
         \/ Shows(p, q, n) \/ Accepts(p, q, n) \/ Agrees(p, q, n)
         \/ Stops(p, q, n) \/ PlugsIn(p, q, n)

-----------------------------------------------------------------------------
(* Closers.                                                                *)

\* A closer delivers before it does anything else, and it announces last. Once a
\* player was told of a departure, the departed player's closer only announces.
DeliversFirst(jobs) == \A i \in DOMAIN jobs : jobs[i].do # "deliver" => i = Len(jobs)
OnlyAnnounces(c) == \A j \in ToSet(work[Closer(c)]) : j.do = "announce"
Parted(c) ==
    /\ DeliversFirst(work[Closer(c)])
    /\ \A p \in Client \ closing : Left(c) \in ToSet(inbox[p]) => OnlyAnnounces(c)
Partings == \A c \in Client : Parted(c)

\* The player has left: it is closed, and its links and requests are off the record.
Gone(c) == c \in closing /\ \A j \in ToSet(work[Closer(c)]) : j.do \notin {"remove", "depart"}

\* The work of one closer changes and no other's.
CloserTurns(c, jobs) ==
    /\ work'[Closer(c)] = jobs
    /\ \A u \in Thread : u # Closer(c) => work'[u] = work[u]

AnnounceStep(c) ==
    /\ work[Closer(c)] # <<>> /\ Head(work[Closer(c)]).do = "announce"
    /\ UNCHANGED <<rosterVars, outbox, frontVars>>
    /\ \/ CloserTurns(c, Tail(work[Closer(c)])) /\ inbox' = inbox
       \/ /\ \E todo : CloserTurns(c, <<Job("announce", Left(c), todo)>> \o Tail(work[Closer(c)]))
          /\ \A x \in Player : inbox'[x] = inbox[x] \/ inbox'[x] = Append(inbox[x], Left(c))

BeginsClose(c) ==
    /\ c \notin closing /\ closing' = closing \union {c}
    /\ links' = links /\ requests' = requests /\ endedBy' = endedBy /\ link' = link
    /\ CloserTurns(c, <<Job("remove", Left(c), {})>>)
    /\ outbox'[c] = <<>> /\ inbox'[c] = <<>>
    /\ \A x \in Player : x # c => outbox'[x] = outbox[x] /\ inbox'[x] = inbox[x]
Removes(c) ==
    /\ work[Closer(c)] # <<>> /\ Head(work[Closer(c)]).do = "remove"
    /\ UNCHANGED <<closing, links, requests, endedBy, outbox, link>>
    /\ CloserTurns(c, <<Job("depart", Left(c), {})>>)
    /\ \A x \in Client : inbox'[x] = inbox[x]
Departs(c) ==
    /\ work[Closer(c)] # <<>> /\ Head(work[Closer(c)]).do = "depart"
    /\ UNCHANGED <<closing, endedBy, outbox, inbox, link>>
    /\ requests' = {r \in requests : c \notin {r[1], r[2]}}
    /\ links' = {l \in links : c \notin {l[1], l[2]}}
    /\ CloserTurns(c, Unplugs(c) \o <<Announce(Left(c))>>)

-----------------------------------------------------------------------------
(* Cables.                                                                 *)

\* Player p is plugged into q, or will be once it has started and hears that q has.
Plugs(p, q) ==
    /\ link[p].peer = q
    /\ \/ link[p].phase = "plugged"
       \/ Say("start", q, p, link[p].nonce) \in Carried(q)
       \/ Say("start", q, p, link[p].nonce) \in ToSet(inbox[p])

\* Then the two are on record, or an Unlink of q's is on its way to p, or p's own
\* ended the record.
Cut(q, p) == Say("unlink", q, p, 0)
Backed(p, q) ==
    \/ AreLinked(p, q) /\ ~ Gone(q)
    \/ Cut(q, p) \in Carried(q)
    \/ Deliver(Cut(q, p)) \in ToSet(work[Closer(q)])
    \/ Cut(q, p) \in ToSet(inbox[p])
    \/ <<p, q>> \in endedBy
Covered(p, q) == p \notin closing /\ Plugs(p, q) => Backed(p, q)

\* A request that was recorded after its player had left finds nobody plugged.
Ghost(p, q) ==
    \A n \in 0..MaxTurns :
        Gone(q) /\ Say("accept", p, q, n) \in ToSet(outbox[p]) /\ <<q, p, n>> \in requests
            => ~ Plugs(p, q)
Cables == \A p, q \in Client : Covered(p, q) /\ Ghost(p, q)

\* What a reader does to the record: nothing, or it links the two players of an accept,
\* or it takes the two of an unlink off.
StillPulled(p, b) == Pulled(ToSet(outbox[p]), p, b) => Pulled(ToSet(outbox'[p]), p, b)
Grants(p) == \E q \in Player, n \in 0..MaxTurns :
    /\ Say("accept", p, q, n) \in ToSet(outbox[p]) /\ <<q, p, n>> \in requests
    /\ \A b : StillPulled(p, b)
    /\ links' = links \union {<<q, p>>} /\ endedBy' = endedBy \ {<<p, q>>, <<q, p>>}
Cuts(p) == \E q \in Player, n \in 0..MaxTurns :
    /\ Say("unlink", p, q, n) \in ToSet(outbox[p])
    /\ links' = links \ {<<p, q>>, <<q, p>>}
    /\ endedBy' = IF AreLinked(p, q) THEN endedBy \union {<<p, q>>} ELSE endedBy
    /\ AreLinked(p, q) => Carried(p)' = {Say("unlink", p, q, n)}
    /\ \A b : b # q => StillPulled(p, b)
    /\ \A r \in requests' : {r[1], r[2]} # {p, q}

-----------------------------------------------------------------------------
(* Lanes.                                                                  *)

\* The lane from a to b: a's outbox, what its reader has at hand, b's inbox; and what
\* travels on it that carries an attempt forward.
Held(a) == Carried(a) \union Recording(a)
Along(a, b) == ToSet(outbox[a]) \union Held(a) \union ToSet(inbox[b])
Forward(a, b) == {m \in Mail(a) : m.to = b /\ m.kind \in {"request", "accept", "start"}}

\* On the lane nothing of X is behind anything of Y.
NotAfter(B, X, Y) == \A i, j \in DOMAIN B : B[i] \in X /\ B[j] \in Y => i <= j
Lane(a, b, X, Y) ==
    /\ NotAfter(outbox[a], X, Y) /\ NotAfter(inbox[b], X, Y)
    /\ ToSet(outbox[a]) \cap X # {} => (Held(a) \union ToSet(inbox[b])) \cap Y = {}
    /\ Held(a) \cap X # {} => ToSet(inbox[b]) \cap Y = {}

\* A step that is none of a frontend's: the host's, a closer's.
HostStep ==
    \/ \E p \in Player : Route(p)
    \/ \E t \in Thread : \E m : Delivers(t, m)
    \/ CloseStep

\* An accept travels once, ahead of the start; while it does, the asker is not in for the
\* attempt, and the accepter is not plugged. A player that is asked is not in for the
\* attempt, and one whose start flies is not about to send it.
OneAccept == \A a, b \in Player, n \in 0..MaxTurns : a # b =>
    Lane(a, b, {Say("accept", a, b, n)}, {Say("accept", a, b, n)})
AcceptFirst == \A a, b \in Player, n \in 0..MaxTurns : a # b =>
    Lane(a, b, {Say("accept", a, b, n)}, {Say("start", a, b, n)})
Unheard == \A a, b \in Player, n \in 0..MaxTurns :
    a # b /\ Say("accept", a, b, n) \in Along(a, b) =>
        ~ Bound(b, a, n) /\ link[a] # Phase("plugged", b, n)
Unstarted == \A a, b \in Player, n \in 0..MaxTurns :
    a # b /\ Asked(Say("request", b, a, n)) => ~ Bound(a, b, n)
Unheld == \A a, b \in Player, n \in 0..MaxTurns :
    a # b /\ Flies(a, b, n) => link[a] # Phase("holding", b, n)
Lanes == OneAccept /\ AcceptFirst /\ Unheard /\ Unstarted /\ Unheld

-----------------------------------------------------------------------------
(* Earlier attempts.                                                       *)

\* Player p is in for an attempt with q, as the one who asked or who accepted.
At(p, q) == link[p].peer = q /\ link[p].phase \in {"requesting", "holding", "starting", "plugged"}

\* What opens an attempt between p and q, on its way from p: of n itself, and of another.
Opening(p, q) == {m \in Forward(p, q) : m.kind \in {"request", "accept"}}
Old(p, q, n) == {m \in Opening(p, q) : m.nonce # n}
New(p, q, n) == {m \in Opening(p, q) : m.nonce = n}
Lined == \A p, q \in Player : p # q /\ At(p, q) =>
    Lane(p, q, Old(p, q, link[p].nonce), New(p, q, link[p].nonce))

\* While an earlier attempt of the two is not over and done with, q is not in for attempt n
\* of p, nor is p plugged.
Fore(p, q, n) ==
    ~ Bound(q, p, n) /\ link[q] # Phase("incoming", p, n) /\ link[p].phase # "plugged"
OldComes(p, q) == Along(p, q) \cap Old(p, q, link[p].nonce) # {}
OldShown(p, q) == \E k \in 0..MaxTurns : k # link[p].nonce /\ link[q] = Phase("incoming", p, k)
OldTaken(p, q) == \E k \in 0..MaxTurns :
    k # link[p].nonce /\ Say("accept", q, p, k) \in ToSet(outbox[q]) /\ <<p, q, k>> \in requests
Past(p, q) ==
    /\ OldComes(p, q) \/ OldShown(p, q) => Fore(p, q, link[p].nonce)
    /\ OldTaken(p, q) => Fore(p, q, link[p].nonce) \/ Pulled(ToSet(outbox[q]), q, p)
Pasts == \A p, q \in Staying : p # q /\ At(p, q) => Past(p, q)

-----------------------------------------------------------------------------
(* Both ends.                                                              *)

\* Player q has stopped for attempt n with p; its Unlink to p is off its outbox.
StoppedFor(q, p, n) == link[q] = Phase("starting", p, n) \/ link[q] = Phase("plugged", p, n)
Owed(q, p) == Cut(q, p) \in Carried(q) \/ Cut(q, p) \in ToSet(inbox[p])

\* Player p is plugged into q, or q's start for what p is in for flies; and the two are on
\* record or it is past the host.
Firm(p, q) == link[p].peer = q /\ (link[p].phase = "plugged" \/ Flies(q, p, link[p].nonce))
Joined(p, q) == Firm(p, q) /\ (AreLinked(p, q) \/ Plugs(p, q))

\* Then q has stopped too, or it takes that back, or p itself ended the record.
Met(p, q) ==
    \/ /\ AreLinked(p, q)
       /\ StoppedFor(q, p, link[p].nonce) \/ Pulled(ToSet(outbox[q]), q, p)
    \/ Owed(q, p)
    \/ <<p, q>> \in endedBy
Meets == \A p, q \in Staying : p # q /\ Joined(p, q) => Met(p, q)
=============================================================================
