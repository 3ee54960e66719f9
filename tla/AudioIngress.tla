----------------------------- MODULE AudioIngress -----------------------------
(***************************************************************************)
(* Audio ingress (internal/audio/ingress/service.go) for one session and   *)
(* stream identifier: clients open a stream, write to it and close it, and *)
(* what was written is published in segments of a fixed size.              *)
(*                                                                         *)
(* Streams are numbers in the order they are opened.  Lengths are in units *)
(* of some bytes; the content, times and raw events are left out.          *)
(***************************************************************************)
EXTENDS Integers, Sequences

CONSTANTS
    SegSize,    \* SegmentSizeBytes of the stream's format, in units
    Lengths,    \* lengths of writes
    Enders,     \* callers of CloseStream and Stream.Close
    MaxOpens,   \* bound: streams opened
    MaxLength   \* bound: length of what is written to a stream

ASSUME IngressAssumption ==
    /\ SegSize \in Nat \ {0} /\ Lengths \subseteq Nat
    /\ MaxOpens \in Nat /\ MaxLength \in Nat
    /\ "shutdown" \notin Enders /\ "none" \notin Enders

AudioStreams == 1..MaxOpens
Endings == Enders \cup {"shutdown"}     \* whoever closes a stream

VARIABLES
    openings,   \* number of streams opened
    table,      \* the entry in Service.streams, 0 if none
    ended,      \* ended[s]: Stream.closed
    lastSent,   \* lastSent[s]: Stream.lastSent
    rest,       \* rest[s]: length of Stream.buffer
    accepted,   \* history: accepted[s]: length of what Write has taken
    segments,   \* segments[s]: those published
    locked,     \* locked[s]: who holds Stream.mu between two steps, or "none"
    ending,     \* ending[e]: where a caller that closes is
    chosen      \* chosen[e]: the stream it is about, 0 if none

audioVars == <<rest, accepted, segments, lastSent, ended>>
endingVars == <<ending, chosen>>
ingressVars == <<openings, table, audioVars, locked, endingVars>>

Segment == [seq : Nat, length : Nat, first : BOOLEAN, last : BOOLEAN]

IngressTypeOK ==
    /\ openings \in 0..MaxOpens /\ table \in 0..MaxOpens
    /\ ended \in [AudioStreams -> BOOLEAN]
    /\ lastSent \in [AudioStreams -> BOOLEAN]
    /\ rest \in [AudioStreams -> 0..MaxLength]
    /\ accepted \in [AudioStreams -> 0..MaxLength]
    /\ segments \in [AudioStreams -> Seq(Segment)]
    /\ locked \in [AudioStreams -> Endings \cup {"none"}]
    /\ ending \in [Endings -> {"find", "flush", "remove", "end"}]
    /\ chosen \in [Endings -> 0..MaxOpens]

IngressInit ==
    /\ openings = 0 /\ table = 0
    /\ ended = [s \in AudioStreams |-> FALSE]
    /\ lastSent = [s \in AudioStreams |-> FALSE]
    /\ rest = [s \in AudioStreams |-> 0] /\ accepted = [s \in AudioStreams |-> 0]
    /\ segments = [s \in AudioStreams |-> <<>>]
    /\ locked = [s \in AudioStreams |-> "none"]
    /\ ending = [e \in Endings |-> "find"] /\ chosen = [e \in Endings |-> 0]

Opened == 1..openings

-----------------------------------------------------------------------------
(* Clients.                                                                *)

\* OpenStream: an identifier in use is refused.
OpenStream ==
    /\ table = 0 /\ openings < MaxOpens
    /\ openings' = openings + 1 /\ table' = openings + 1
    /\ UNCHANGED <<audioVars, locked, endingVars>>

\* The segment that emitSegment publishes after those in sent.
NextSegment(sent, length, last) ==
    [seq |-> Len(sent) + 1, length |-> length, first |-> sent = <<>>, last |-> last]

\* n full segments after those in sent.
Whole(sent, n) ==
    [i \in 1..(Len(sent) + n) |->
        IF i <= Len(sent) THEN sent[i]
        ELSE [seq |-> i, length |-> SegSize, first |-> i = 1, last |-> FALSE]]

\* Mutant of WriteAudio: a closed stream still takes what is written to it.
WriteAudio_Closed(s, length) ==
    LET all == rest[s] + length IN
    /\ s \in Opened /\ locked[s] = "none"
    /\ accepted[s] + length <= MaxLength
    /\ accepted' = [accepted EXCEPT ![s] = @ + length]
    /\ segments' = [segments EXCEPT ![s] = Whole(@, all \div SegSize)]
    /\ rest' = [rest EXCEPT ![s] = all % SegSize]
    /\ lastSent' = [lastSent EXCEPT ![s] = @ /\ all < SegSize]
    /\ UNCHANGED <<openings, table, ended, locked, endingVars>>

\* Stream.Write: the whole segments are published, the rest is kept.
WriteAudio(s, length) ==
    LET all == rest[s] + length IN
    /\ s \in Opened /\ locked[s] = "none" /\ ~ended[s]
    /\ accepted[s] + length <= MaxLength
    /\ accepted' = [accepted EXCEPT ![s] = @ + length]
    /\ segments' = [segments EXCEPT ![s] = Whole(@, all \div SegSize)]
    /\ rest' = [rest EXCEPT ![s] = all % SegSize]
    /\ lastSent' = [lastSent EXCEPT ![s] = @ /\ all < SegSize]
    /\ UNCHANGED <<openings, table, ended, locked, endingVars>>

-----------------------------------------------------------------------------
(* Closing: CloseStream and Shutdown take the stream they find in the      *)
(* table, a client the one it has opened, whatever the table says by then; *)
(* they then call Stream.Close, perhaps on the same one.                   *)

FindStream(e) ==
    /\ ending[e] = "find"
    /\ chosen' = [chosen EXCEPT ![e] = table]
    /\ ending' = [ending EXCEPT ![e] = IF table = 0 THEN "end" ELSE "flush"]
    /\ UNCHANGED <<openings, table, audioVars, locked>>

HoldStream(e, s) ==
    /\ ending[e] = "find" /\ e \in Enders /\ s \in Opened
    /\ chosen' = [chosen EXCEPT ![e] = s]
    /\ ending' = [ending EXCEPT ![e] = "flush"]
    /\ UNCHANGED <<openings, table, audioVars, locked>>

AlreadyClosed(e) ==
    /\ ending[e] = "flush"
    /\ LET s == chosen[e] IN locked[s] = "none" /\ ended[s]
    /\ ending' = [ending EXCEPT ![e] = "end"]
    /\ UNCHANGED <<openings, table, audioVars, locked, chosen>>

\* Mutant of CloseFlush: closeLocked does not look whether it was called before.
CloseFlush_Again(e) ==
    LET s == chosen[e] IN
    /\ ending[e] = "flush" /\ locked[s] = "none"
    /\ segments' = [segments EXCEPT ![s] =
          IF rest[s] = 0 /\ lastSent[s] THEN @
          ELSE Append(@, NextSegment(@, rest[s], TRUE))]
    /\ rest' = [rest EXCEPT ![s] = 0]
    /\ lastSent' = [lastSent EXCEPT ![s] = TRUE]
    /\ ended' = [ended EXCEPT ![s] = TRUE]
    /\ locked' = [locked EXCEPT ![s] = e]
    /\ ending' = [ending EXCEPT ![e] = "remove"]
    /\ UNCHANGED <<openings, table, accepted, chosen>>

\* closeLocked: the rest is the last segment; without one an empty segment is,
\* unless a last one has been sent.
CloseFlush(e) ==
    LET s == chosen[e] IN
    /\ ending[e] = "flush" /\ locked[s] = "none" /\ ~ended[s]
    /\ segments' = [segments EXCEPT ![s] =
          IF rest[s] = 0 /\ lastSent[s] THEN @
          ELSE Append(@, NextSegment(@, rest[s], TRUE))]
    /\ rest' = [rest EXCEPT ![s] = 0]
    /\ lastSent' = [lastSent EXCEPT ![s] = TRUE]
    /\ ended' = [ended EXCEPT ![s] = TRUE]
    /\ locked' = [locked EXCEPT ![s] = e]
    /\ ending' = [ending EXCEPT ![e] = "remove"]
    /\ UNCHANGED <<openings, table, accepted, chosen>>

\* removeStream deletes whatever bears the identifier, under the service's lock
\* and still under the stream's.
RemoveStream(e) ==
    /\ ending[e] = "remove"
    /\ table' = 0
    /\ locked' = [locked EXCEPT ![chosen[e]] = "none"]
    /\ ending' = [ending EXCEPT ![e] = "end"]
    /\ UNCHANGED <<openings, audioVars, chosen>>

CloseStream(e) ==
    \/ FindStream(e) \/ \E s \in AudioStreams : HoldStream(e, s)
    \/ AlreadyClosed(e) \/ CloseFlush(e) \/ RemoveStream(e)

IngressNext ==
    \/ OpenStream
    \/ \E s \in AudioStreams, length \in Lengths : WriteAudio(s, length)
    \/ \E e \in Endings : CloseStream(e)

IngressSpec == IngressInit /\ [][IngressNext]_ingressVars

-----------------------------------------------------------------------------
(* Properties.                                                             *)

\* Segment i of a stream with so many full ones: the last, if there is one, is
\* shorter.
Marked(segment, i, full) ==
    /\ segment.seq = i
    /\ segment.first <=> i = 1
    /\ segment.last <=> i > full
    /\ IF i > full THEN segment.length < SegSize ELSE segment.length = SegSize

\* Of a stream to which taken was written and left is not yet published: segments
\* of the fixed size, numbered without gaps, the first marked as first; and, once it
\* is closed, one shorter segment with what was left and with the mark of the end.
Published(sent, closed, taken, left) ==
    LET full == IF closed THEN Len(sent) - 1 ELSE Len(sent) IN
    /\ \A i \in 1..Len(sent) : Marked(sent[i], i, full)
    /\ full >= 0
    /\ taken = SegSize * full + (IF closed THEN sent[full + 1].length ELSE left)
    /\ IF closed THEN left = 0 ELSE left < SegSize

\* What is published of a stream is what was written to it, whoever of its writers
\* and closers came first, and however often it was closed.
SegmentsWhole ==
    \A s \in Opened : Published(segments[s], ended[s], accepted[s], rest[s])

\* A stream that is open can be found, however late the calls that closed an
\* earlier one of the same identifier.
OpenIsFound == \A s \in Opened : ~ended[s] => table = s

StreamsWhole == SegmentsWhole /\ OpenIsFound
=============================================================================
