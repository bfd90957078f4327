------------------------------ MODULE TwoLanes ------------------------------
(***************************************************************************)
(* What a Play Together connection promises whoever sends on it            *)
(* (conn.rs, the comments on OutboundQueue, WRITE_RUN and begin_close):    *)
(* two lanes, each first in first out, nothing lost, nothing duplicated;   *)
(* an urgent message is overtaken by at most one run of ordinary bytes,    *)
(* and a connection that closes politely sends what it accepted.           *)
(***************************************************************************)
EXTENDS Naturals, Sequences, SequencesExt

CONSTANTS
    Message,    \* what may be sent
    Size(_),    \* the size of a message
    RunLimit    \* bound of the ordinary bytes that overtake, but for a message

VARIABLES
    ordinary,   \* accepted on the ordinary lane, not yet written
    urgent,     \* accepted on the urgent lane, not yet written
    owed,       \* how many of the urgent ones no further run may overtake
    sent,       \* written, in order
    phase       \* "open", then "flushing" or "dropping", then "shut"

vars == <<ordinary, urgent, owed, sent, phase>>

TotalSize(s) ==
    LET total[i \in 0..Len(s)] == IF i = 0 THEN 0 ELSE total[i - 1] + Size(s[i])
    IN total[Len(s)]

Init ==
    /\ ordinary = <<>>
    /\ urgent = <<>>
    /\ owed = 0
    /\ sent = <<>>
    /\ phase = "open"

Push(m) ==
    /\ phase = "open"
    /\ ordinary' = Append(ordinary, m)
    /\ UNCHANGED <<urgent, owed, sent, phase>>

PushUrgent(m) ==
    /\ phase = "open"
    /\ urgent' = Append(urgent, m)
    /\ UNCHANGED <<ordinary, owed, sent, phase>>

SendUrgent ==
    /\ phase # "shut"
    /\ urgent # <<>>
    /\ sent' = Append(sent, Head(urgent))
    /\ urgent' = Tail(urgent)
    /\ owed' = IF owed = 0 THEN 0 ELSE owed - 1
    /\ UNCHANGED <<ordinary, phase>>

\* Whatever is on the urgent lane when a run has gone out goes before the next.
SendRun ==
    /\ phase # "shut"
    /\ owed = 0
    /\ \E k \in 1..Len(ordinary) :
        /\ TotalSize(SubSeq(ordinary, 1, k - 1)) < RunLimit
        /\ sent' = sent \o SubSeq(ordinary, 1, k)
        /\ ordinary' = SubSeq(ordinary, k + 1, Len(ordinary))
    /\ owed' = Len(urgent)
    /\ UNCHANGED <<urgent, phase>>

CloseFlushing ==
    /\ phase = "open"
    /\ phase' = "flushing"
    /\ UNCHANGED <<ordinary, urgent, owed, sent>>

\* The tail of each lane is dropped, what the writer holds already is not.
CloseDropping ==
    /\ phase = "open"
    /\ phase' = "dropping"
    /\ ordinary' \in Prefixes(ordinary)
    /\ urgent' \in Prefixes(urgent)
    /\ owed' = IF owed <= Len(urgent') THEN owed ELSE Len(urgent')
    /\ UNCHANGED sent

Finish ==
    /\ phase \in {"flushing", "dropping"}
    /\ ordinary = <<>>
    /\ urgent = <<>>
    /\ phase' = "shut"
    /\ UNCHANGED <<ordinary, urgent, owed, sent>>

\* The socket fails: everything pending is lost.
Break ==
    /\ phase # "shut"
    /\ phase' = "shut"
    /\ ordinary' = <<>>
    /\ urgent' = <<>>
    /\ owed' = 0
    /\ UNCHANGED sent

Next ==
    \/ \E m \in Message : Push(m) \/ PushUrgent(m)
    \/ SendUrgent
    \/ SendRun
    \/ CloseFlushing
    \/ CloseDropping
    \/ Finish
    \/ Break

Spec == Init /\ [][Next]_vars
=============================================================================
