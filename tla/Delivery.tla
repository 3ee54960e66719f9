------------------------------ MODULE Delivery ------------------------------
(***************************************************************************)
(* What the stream manager promises whoever sends it items for a key,      *)
(* whatever streams, retries and buffers it needs: an item that has        *)
(* arrived is given to at most one of the key's streams, once, or is lost, *)
(* and either is final.  A stream gets items from its opening until it     *)
(* ends, in the order of their arrival but for those that were let go      *)
(* early, and ends with the last item.                                     *)
(***************************************************************************)
EXTENDS Naturals, Sequences

CONSTANTS
    MaxItems,    \* items that arrive
    MaxStreams,  \* streams opened
    Last         \* the items that end the stream they are given to

VARIABLES
    arrived,  \* number of items that have arrived
    opened,   \* number of streams opened
    ended,    \* the streams that have ended
    given,    \* given[h]: the items stream h has been given, in order
    lost,     \* the items given up
    early     \* the items that may be given ahead of older ones

vars == <<arrived, opened, ended, given, lost, early>>

Items == 1..MaxItems
Streams == 1..MaxStreams

Init ==
    /\ arrived = 0 /\ opened = 0 /\ ended = {} /\ lost = {}
    /\ given = [h \in Streams |-> <<>>]
    /\ early \in {{}, Items}   \* a user of the manager may promise no order

GivenTo(h) == {given[h][i] : i \in 1..Len(given[h])}

\* Neither given nor lost.
Outstanding == {s \in 1..arrived : s \notin lost /\ \A h \in Streams : s \notin GivenTo(h)}

Arrive ==
    /\ arrived < MaxItems
    /\ arrived' = arrived + 1
    /\ UNCHANGED <<opened, ended, given, lost, early>>

Open ==
    /\ opened < MaxStreams
    /\ opened' = opened + 1
    /\ UNCHANGED <<arrived, ended, given, lost, early>>

Live(h) == h <= opened /\ h \notin ended

Give(h, s) ==
    /\ Live(h) /\ s \in Outstanding
    /\ \A e \in GivenTo(h) : e > s => e \in early
    /\ given' = [given EXCEPT ![h] = Append(@, s)]
    /\ ended' = IF s \in Last THEN ended \cup {h} ELSE ended
    /\ UNCHANGED <<arrived, opened, lost, early>>

End(h) ==
    /\ Live(h)
    /\ ended' = ended \cup {h}
    /\ UNCHANGED <<arrived, opened, given, lost, early>>

Lose(S) ==
    /\ S \subseteq Outstanding
    /\ lost' = lost \cup S
    /\ UNCHANGED <<arrived, opened, ended, given, early>>

LetAhead(s) ==
    /\ s \in Outstanding
    /\ early' = early \cup {s}
    /\ UNCHANGED <<arrived, opened, ended, given, lost>>

Next == \/ Arrive \/ Open
        \/ \E h \in Streams : End(h) \/ \E s \in Items : Give(h, s)
        \/ \E S \in SUBSET Items : Lose(S)
        \/ \E s \in Items : LetAhead(s)

Spec == Init /\ [][Next]_vars
=============================================================================
