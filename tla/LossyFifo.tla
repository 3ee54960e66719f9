----------------------------- MODULE LossyFifo -----------------------------
(***************************************************************************)
(* What a bus subscription promises to its consumer, whatever the policy:  *)
(* publishers number their events, an event may enter a bounded queue or   *)
(* be lost on the way, queued events may be lost, and the consumer takes   *)
(* the queue's head.  Nothing is ever repeated, and no event overtakes an  *)
(* earlier one of the same publisher until the subscription has overflowed.*)
(***************************************************************************)
EXTENDS Naturals, Sequences, SequencesExt

CONSTANTS Publishers, MaxEvents, Capacity

VARIABLES
    sent,       \* sent[p]: number of events p has published
    queue,      \* events on their way, oldest first
    got,        \* events the consumer has handled, in order
    overflowed  \* events may enter ahead of others from now on

vars == <<sent, queue, got, overflowed>>

Init == /\ sent = [p \in Publishers |-> 0] /\ queue = <<>> /\ got = <<>>
        /\ overflowed = FALSE

Events(s) == {s[i] : i \in 1..Len(s)}

Publish(p) ==
    /\ sent[p] < MaxEvents
    /\ sent' = [sent EXCEPT ![p] = @ + 1]
    /\ UNCHANGED <<queue, got, overflowed>>

\* An event enters at the end of the queue, newer than all p's others.
Enter(p) ==
    /\ Len(queue) < Capacity /\ sent[p] > 0
    /\ ~overflowed =>
          \A e \in Events(queue) \cup Events(got) : e[1] = p => e[2] < sent[p]
    /\ <<p, sent[p]>> \notin Events(queue) \cup Events(got)
    /\ queue' = Append(queue, <<p, sent[p]>>)
    /\ UNCHANGED <<sent, got, overflowed>>

Overflow ==
    /\ overflowed' = TRUE
    /\ UNCHANGED <<sent, queue, got>>

\* After an overflow an event may enter ahead of those queued.
Overtake(p, i) ==
    /\ overflowed /\ Len(queue) < Capacity /\ sent[p] > 0
    /\ <<p, sent[p]>> \notin Events(queue) \cup Events(got)
    /\ queue' = InsertAt(queue, i, <<p, sent[p]>>)
    /\ UNCHANGED <<sent, got, overflowed>>

Lose(i) ==
    /\ queue' = RemoveAt(queue, i)
    /\ UNCHANGED <<sent, got, overflowed>>

Take ==
    /\ queue # <<>>
    /\ got' = Append(got, Head(queue))
    /\ queue' = Tail(queue)
    /\ UNCHANGED <<sent, overflowed>>

Next == \/ \E p \in Publishers :
              Publish(p) \/ Enter(p) \/ \E i \in 1..Len(queue) : Overtake(p, i)
        \/ \E i \in 1..Len(queue) : Lose(i)
        \/ Overflow \/ Take

Spec == Init /\ [][Next]_vars
=============================================================================
