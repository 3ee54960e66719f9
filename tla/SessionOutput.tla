---------------------------- MODULE SessionOutput ----------------------------
(***************************************************************************)
(* What becomes of the output of one session: captureWithBuffer reads it,  *)
(* keeps the last of it for replays and writes it to the output sinks      *)
(* (internal/pty/wrapper.go), which CreateSession and the streams of       *)
(* clients add (internal/session/manager.go); the tool handler detects     *)
(* tools in it, and a goroutine of the manager announces them.             *)
(*                                                                         *)
(* The output is a sequence of chunks, one for each successful Read; chunk *)
(* i is the number i, and the buffer is bounded in chunks, not in bytes.   *)
(***************************************************************************)
EXTENDS Integers, Sequences, SequencesExt

CONSTANTS
    Viewers,      \* clients that attach, once each
    Tools,        \* tools that plugins detect
    NoTool,       \* the empty name
    HistorySize,  \* maxBufferSize, in chunks
    ChangeCap,    \* capacity of changeChan
    MaxOutputs    \* bound: chunks of the session

ASSUME OutputAssumption ==
    /\ HistorySize \in Nat \ {0} /\ ChangeCap \in Nat \ {0} /\ MaxOutputs \in Nat
    /\ NoTool \notin Tools
    /\ Viewers \cap {"recorder", "handler", "bus"} = {}

VARIABLES
    outputs,      \* chunks read from the PTY
    capturing,    \* where captureWithBuffer is
    turn,         \* the sink that broadcastToSinks is about to write to
    outputSinks,  \* Wrapper.outputSinks
    ptyShut,      \* the PTY file is closed by Stop
    eventsShut,   \* Wrapper.events is closed
    exitSent,     \* the exit event is in Wrapper.events, or has been taken
    setup,        \* where CreateSession is
    taken,        \* taken[s]: the chunks sink s has accepted, in order
    recorderOpen, \* AsciicastRecorder is not closed
    monitoring,   \* where monitorSession is
    kill,         \* where KillSession is
    viewer,       \* viewer[v]: where v's attach stream is
    replay,       \* replay[v]: the history v's attach has read
    linked,       \* linked[s]: sends to s succeed
    joined,       \* history: outputs when sink s was added
    detected,     \* ToolHandler.detectedTool, with detectedIcon
    eventChan,    \* contents of ToolHandler.eventChan
    changeChan,   \* contents of ToolHandler.changeChan
    chansShut,    \* StopDetection has closed both
    overran,      \* history: a change found changeChan full
    panicked,     \* history: a send on a closed channel
    detector,     \* where monitorDetection is
    hand,         \* events it has received and not announced
    announced     \* tool and icon of the last tool event on the bus

captureVars == <<outputs, capturing, turn>>
sinkVars == <<outputSinks, taken, joined, linked>>
endVars == <<ptyShut, eventsShut, exitSent, recorderOpen, monitoring, kill>>
viewVars == <<viewer, replay>>
toolVars == <<detected, eventChan, changeChan, chansShut, overran, panicked>>
detectVars == <<detector, hand, announced>>
outputVars == <<captureVars, sinkVars, endVars, viewVars, setup, toolVars,
                detectVars>>

Keepers == {"recorder", "bus"} \cup Viewers  \* sinks that pass the output on
Sinks == Keepers \cup {"handler"}
AnyTool == Tools \cup {NoTool}
Changes == [previous : AnyTool, new : Tools]
Chunks == 1..MaxOutputs

\* The chunks in outputBuffer: the last one read is stored in a step of its own.
Stored == IF capturing = "store" THEN outputs - 1 ELSE outputs
Window == [i \in 1..(IF Stored < HistorySize THEN Stored ELSE HistorySize) |->
              (IF Stored < HistorySize THEN 0 ELSE Stored - HistorySize) + i]

OutputInit ==
    /\ outputs = 0 /\ capturing = "read" /\ turn = 0
    /\ outputSinks = <<>> /\ taken = [s \in Keepers |-> <<>>]
    /\ joined = [s \in Sinks |-> 0] /\ linked = [v \in Viewers |-> TRUE]
    /\ ptyShut = FALSE /\ eventsShut = FALSE /\ exitSent = FALSE
    /\ recorderOpen = TRUE /\ monitoring = "none" /\ kill = "none"
    /\ viewer = [v \in Viewers |-> "away"]
    /\ replay = [v \in Viewers |-> <<>>]
    /\ setup = "recorder"
    /\ detected = NoTool /\ eventChan = <<>> /\ changeChan = <<>>
    /\ chansShut = FALSE /\ overran = FALSE /\ panicked = FALSE
    /\ detector = "none" /\ hand = <<>>
    /\ announced = [tool |-> NoTool, icon |-> NoTool]

-----------------------------------------------------------------------------
(* captureWithBuffer.                                                      *)

CapRead ==
    /\ capturing = "read" /\ ~ptyShut /\ outputs < MaxOutputs
    /\ outputs' = outputs + 1 /\ capturing' = "store"
    /\ UNCHANGED <<turn, sinkVars, endVars, viewVars, setup, toolVars, detectVars>>

CapStore ==
    /\ capturing = "store"
    /\ capturing' = "sinks"
    /\ UNCHANGED <<outputs, turn, sinkVars, endVars, viewVars, setup, toolVars,
                   detectVars>>

\* broadcastToSinks takes sinksMutex for reading.
CapLock ==
    /\ capturing = "sinks"
    /\ IF outputSinks = <<>> THEN capturing' = "read" /\ UNCHANGED turn
                             ELSE capturing' = "turns" /\ turn' = 1
    /\ UNCHANGED <<outputs, sinkVars, endVars, viewVars, setup, toolVars,
                   detectVars>>

\* AddSink and RemoveSink take it for writing.
SinksFree == turn = 0

\* The write of sink s is over, however it went: broadcastToSinks drops errors.
WriteTo(s) ==
    /\ turn # 0 /\ outputSinks[turn] = s
    /\ IF turn = Len(outputSinks) THEN capturing' = "read" /\ turn' = 0
                                  ELSE turn' = turn + 1 /\ UNCHANGED capturing
    /\ UNCHANGED outputs

Accept(s) == taken' = [taken EXCEPT ![s] = Append(@, outputs)]

WriteRecorder ==
    /\ WriteTo("recorder")
    /\ IF recorderOpen THEN Accept("recorder") ELSE UNCHANGED taken
    /\ UNCHANGED <<outputSinks, joined, linked, endVars, viewVars, setup, toolVars,
                   detectVars>>

WriteBus ==
    /\ WriteTo("bus") /\ Accept("bus")
    /\ UNCHANGED <<outputSinks, joined, linked, endVars, viewVars, setup, toolVars,
                   detectVars>>

\* A send that fails once fails for ever: the stream is broken.
WriteViewer(v) ==
    /\ WriteTo(v)
    /\ \/ linked[v] /\ Accept(v) /\ UNCHANGED linked
       \/ linked' = [linked EXCEPT ![v] = FALSE] /\ UNCHANGED taken
    /\ UNCHANGED <<outputSinks, joined, endVars, viewVars, setup, toolVars,
                   detectVars>>

\* OnOutput: which plugin answers, after the debounce and the rate limit.
Detect(t) ==
    /\ detected' = t
    /\ panicked' = (panicked \/ chansShut)
    /\ IF detected = NoTool
          THEN /\ eventChan' = IF eventChan = <<>> THEN <<t>> ELSE eventChan
               /\ UNCHANGED <<changeChan, overran>>
          ELSE /\ IF Len(changeChan) < ChangeCap
                     THEN /\ changeChan' = Append(changeChan,
                                              [previous |-> detected, new |-> t])
                          /\ UNCHANGED overran
                     ELSE overran' = TRUE /\ UNCHANGED changeChan
               /\ UNCHANGED eventChan

WriteHandler ==
    /\ WriteTo("handler")
    /\ \/ UNCHANGED toolVars
       \/ \E t \in Tools \ {detected} : Detect(t) /\ UNCHANGED chansShut
    /\ UNCHANGED <<sinkVars, endVars, viewVars, setup, detectVars>>

\* The Read fails: the process has closed its terminal, or Stop the PTY.
CapEof ==
    /\ capturing = "read"
    /\ capturing' = "emit"
    /\ UNCHANGED <<outputs, turn, sinkVars, endVars, viewVars, setup, toolVars,
                   detectVars>>

\* The exit event, unless Stop has closed the channel; then the channel.
CapEmit ==
    /\ capturing = "emit"
    /\ capturing' = "over"
    /\ exitSent' = ~eventsShut /\ eventsShut' = TRUE
    /\ UNCHANGED <<outputs, turn, sinkVars, ptyShut, recorderOpen, monitoring, kill,
                   viewVars, setup, toolVars, detectVars>>

Capturing ==
    \/ CapRead \/ CapStore \/ CapLock \/ CapEof \/ CapEmit
    \/ WriteRecorder \/ WriteBus \/ WriteHandler
    \/ \E v \in Viewers : WriteViewer(v)

-----------------------------------------------------------------------------
(* CreateSession, with the PTY started: three sinks, the monitor, the table *)
(* of sessions.                                                            *)

AddSink(s) ==
    /\ SinksFree
    /\ outputSinks' = Append(outputSinks, s)
    /\ joined' = [joined EXCEPT ![s] = outputs]

\* The recording's file may not be created.
SetupRecording ==
    /\ setup = "recorder" /\ setup' = "handler"
    /\ AddSink("recorder") \/ UNCHANGED <<outputSinks, joined>>
    /\ UNCHANGED <<captureVars, taken, linked, endVars, viewVars, toolVars,
                   detectVars>>

\* The index of the plugins may not load.
SetupToolHandler ==
    /\ setup = "handler" /\ setup' = "bus"
    /\ \/ AddSink("handler") /\ detector' = "first"
       \/ UNCHANGED <<outputSinks, joined, detector>>
    /\ UNCHANGED <<captureVars, taken, linked, endVars, viewVars, toolVars, hand,
                   announced>>

SetupEventBusSink ==
    /\ setup = "bus" /\ setup' = "monitor"
    /\ AddSink("bus")
    /\ UNCHANGED <<captureVars, taken, linked, endVars, viewVars, toolVars,
                   detectVars>>

StartMonitor ==
    /\ setup = "monitor" /\ setup' = "stored"
    /\ monitoring' = "wait"
    /\ UNCHANGED <<captureVars, sinkVars, ptyShut, eventsShut, exitSent,
                   recorderOpen, kill, viewVars, toolVars, detectVars>>

SettingUp == SetupRecording \/ SetupToolHandler \/ SetupEventBusSink \/ StartMonitor

-----------------------------------------------------------------------------
(* The end: monitorSession and KillSession.                                *)

StopDetection ==
    /\ monitoring' = "notify"
    /\ chansShut' = (detector # "none")
    /\ UNCHANGED <<captureVars, sinkVars, ptyShut, eventsShut, exitSent,
                   recorderOpen, kill, viewVars, setup, detected, eventChan,
                   changeChan, overran, panicked, detectVars>>

\* monitorSession has the exit event: StopDetection.
MonitorTakes ==
    /\ monitoring = "wait" /\ exitSent
    /\ StopDetection

\* The channel is closed without an exit event: nothing is done.
MonitorEnds ==
    /\ monitoring = "wait" /\ eventsShut /\ ~exitSent
    /\ monitoring' = "end"
    /\ UNCHANGED <<captureVars, sinkVars, ptyShut, eventsShut, exitSent,
                   recorderOpen, kill, viewVars, setup, toolVars, detectVars>>

\* The recorder is a notifier of the session.
MonitorNotifies ==
    /\ monitoring = "notify" /\ monitoring' = "end"
    /\ recorderOpen' = FALSE
    /\ UNCHANGED <<captureVars, sinkVars, ptyShut, eventsShut, exitSent, kill,
                   viewVars, setup, toolVars, detectVars>>

\* PTY.Stop does nothing once the capture has seen the end; otherwise it closes
\* the PTY and, unless it fails, the channel.
KillStops ==
    /\ setup = "stored" /\ kill = "none"
    /\ IF capturing \in {"emit", "over"}
          THEN kill' = "notify" /\ UNCHANGED <<ptyShut, eventsShut>>
          ELSE /\ ptyShut' = TRUE
               /\ \/ eventsShut' = TRUE /\ kill' \in {"notify", "end"}
                  \/ kill' = "end" /\ UNCHANGED eventsShut
    /\ UNCHANGED <<captureVars, sinkVars, exitSent, recorderOpen, monitoring,
                   viewVars, setup, toolVars, detectVars>>

KillNotifies ==
    /\ kill = "notify" /\ kill' = "end"
    /\ recorderOpen' = FALSE
    /\ UNCHANGED <<captureVars, sinkVars, ptyShut, eventsShut, exitSent, monitoring,
                   viewVars, setup, toolVars, detectVars>>

Ending == MonitorTakes \/ MonitorEnds \/ MonitorNotifies
          \/ KillStops \/ KillNotifies

-----------------------------------------------------------------------------
(* The attach streams of clients: AttachToSession, then output until the    *)
(* client leaves, the stream breaks or the session is announced as stopped. *)

\* The history is a copy, taken under a lock of its own.
ReadHistory(v) ==
    /\ viewer[v] = "away" /\ setup = "stored"
    /\ \E h \in {Window, <<>>} :
          /\ replay' = [replay EXCEPT ![v] = h]
          /\ viewer' = [viewer EXCEPT ![v] = IF h = <<>> THEN "add" ELSE "history"]
    /\ UNCHANGED <<captureVars, sinkVars, endVars, setup, toolVars, detectVars>>

\* The attach has failed or ended: its sink is forgotten.
Forget(v) ==
    /\ viewer' = [viewer EXCEPT ![v] = "gone"]
    /\ replay' = [replay EXCEPT ![v] = <<>>]
    /\ taken' = [taken EXCEPT ![v] = <<>>]
    /\ joined' = [joined EXCEPT ![v] = 0]
    /\ linked' = [linked EXCEPT ![v] = TRUE]

SendHistory(v) ==
    /\ viewer[v] = "history"
    /\ \/ /\ taken' = [taken EXCEPT ![v] = replay[v]]
          /\ viewer' = [viewer EXCEPT ![v] = "add"]
          /\ UNCHANGED <<replay, joined, linked>>
       \/ Forget(v)
    /\ UNCHANGED <<captureVars, outputSinks, endVars, setup, toolVars, detectVars>>

JoinSinks(v) ==
    /\ viewer[v] = "add" /\ AddSink(v)
    /\ viewer' = [viewer EXCEPT ![v] = "serve"]
    /\ UNCHANGED <<captureVars, taken, linked, endVars, replay, setup, toolVars,
                   detectVars>>

Unlist(v) ==
    \E p \in 1..Len(outputSinks) :
        outputSinks[p] = v /\ outputSinks' = RemoveAt(outputSinks, p)

\* Mutant of RemoveSink: without the lock, the slice shifts under a broadcast.
RemoveSink_Unlocked(v) ==
    /\ viewer[v] = "serve"
    /\ Unlist(v) /\ Forget(v)
    /\ turn' = IF turn > Len(outputSinks') THEN 0 ELSE turn
    /\ capturing' = IF turn # 0 /\ turn' = 0 THEN "read" ELSE capturing
    /\ UNCHANGED <<outputs, endVars, setup, toolVars, detectVars>>

RemoveSink(v) ==
    /\ viewer[v] = "serve" /\ SinksFree
    /\ Unlist(v) /\ Forget(v)
    /\ UNCHANGED <<captureVars, endVars, setup, toolVars, detectVars>>

Viewing(v) == ReadHistory(v) \/ SendHistory(v) \/ JoinSinks(v) \/ RemoveSink(v)

-----------------------------------------------------------------------------
(* monitorDetection: the first tool, then its changes.                     *)

DetectorFirst ==
    /\ detector = "first"
    /\ \/ /\ eventChan # <<>>
          /\ hand' = <<[previous |-> NoTool, new |-> Head(eventChan)]>>
          /\ eventChan' = Tail(eventChan) /\ detector' = "tell"
       \/ /\ eventChan = <<>> /\ chansShut
          /\ detector' = "end" /\ UNCHANGED <<hand, eventChan>>
    /\ UNCHANGED <<captureVars, sinkVars, endVars, viewVars, setup, detected,
                   changeChan, chansShut, overran, panicked, announced>>

DetectorChange ==
    /\ detector = "change"
    /\ \/ /\ changeChan # <<>>
          /\ hand' = <<Head(changeChan)>>
          /\ changeChan' = Tail(changeChan) /\ detector' = "tell"
       \/ /\ changeChan = <<>> /\ chansShut
          /\ detector' = "end" /\ UNCHANGED <<hand, changeChan>>
    /\ UNCHANGED <<captureVars, sinkVars, endVars, viewVars, setup, detected,
                   eventChan, chansShut, overran, panicked, announced>>

\* The events on the bus: the tool of the event, the icon of the moment.
DetectorTell ==
    /\ detector = "tell" /\ detector' = "change"
    /\ announced' = [tool |-> hand[1].new, icon |-> detected]
    /\ hand' = <<>>
    /\ UNCHANGED <<captureVars, sinkVars, endVars, viewVars, setup, toolVars>>

Detecting == DetectorFirst \/ DetectorChange \/ DetectorTell

OutputNext ==
    \/ Capturing \/ SettingUp \/ Ending \/ Detecting
    \/ \E v \in Viewers : Viewing(v)

OutputSpec == OutputInit /\ [][OutputNext]_outputVars

-----------------------------------------------------------------------------
(* Properties.                                                             *)

OutputTypeOK ==
    /\ outputs \in 0..MaxOutputs
    /\ capturing \in {"read", "store", "sinks", "turns", "emit", "over"}
    /\ outputSinks \in Seq(Sinks)
    /\ turn \in 0..Len(outputSinks) /\ (turn # 0) = (capturing = "turns")
    /\ {ptyShut, eventsShut, exitSent, recorderOpen} \subseteq BOOLEAN
    /\ setup \in {"recorder", "handler", "bus", "monitor", "stored"}
    /\ taken \in [Keepers -> Seq(Chunks)] /\ replay \in [Viewers -> Seq(Chunks)]
    /\ monitoring \in {"none", "wait", "notify", "end"}
    /\ kill \in {"none", "notify", "end"}
    /\ viewer \in [Viewers -> {"away", "history", "add", "serve", "gone"}]
    /\ linked \in [Viewers -> BOOLEAN] /\ joined \in [Sinks -> 0..MaxOutputs]
    /\ detected \in AnyTool
    /\ eventChan \in Seq(Tools) /\ changeChan \in Seq(Changes) /\ hand \in Seq(Changes)
    /\ {chansShut, overran, panicked} \subseteq BOOLEAN
    /\ detector \in {"none", "first", "change", "tell", "end"}
    /\ announced \in [tool : AnyTool, icon : AnyTool]

\* The history at the head of what sink s has taken.
History(s) == IF s \in Viewers THEN Len(replay[s]) ELSE 0

\* From the moment it is added a sink takes each chunk once, in order, from the
\* one just read (it may be in the history too) or the next one on.
InOrder(s) ==
    \A i \in (History(s) + 1)..Len(taken[s]) :
        LET live == i - History(s) IN
            taken[s][i] \in {joined[s] + live - 1, joined[s] + live}
            /\ (live > 1 => taken[s][i] = taken[s][i - 1] + 1)

\* What a sink has taken up to now, if nothing has cut it off: a viewer's
\* broken stream, the recorder's close by a kill.
CutOff(s) == IF s = "recorder" THEN kill # "none" ELSE s \in Viewers /\ ~linked[s]

UpToDate(s) ==
    outputs > joined[s] =>
        Len(taken[s]) > History(s) /\ taken[s][Len(taken[s])] = outputs

\* While viewers come and go under the broadcasts, every sink gets the output
\* without a gap, a repetition or a loss at its end.
OutputFollows ==
    /\ \A s \in Keepers : InOrder(s)
    /\ capturing \in {"read", "emit", "over"} =>
           \A p \in 1..Len(outputSinks) :
               outputSinks[p] # "handler" /\ ~CutOff(outputSinks[p])
                   => UpToDate(outputSinks[p])

\* The events on the way to the bus, the oldest first.
OnTheWay ==
    hand \o [i \in 1..Len(eventChan) |-> [previous |-> NoTool, new |-> eventChan[i]]]
         \o changeChan

\* The announced tool leads to the detected one by the changes on the way, in
\* order, unless changeChan was full once; when none is on the way the
\* announced icon is that tool's; and no event is sent on a closed channel.
ToolFollows ==
    /\ ~panicked
    /\ ~overran => LET path == OnTheWay IN
           IF path = <<>>
              THEN announced = [tool |-> detected, icon |-> detected]
              ELSE /\ path[1].previous = announced.tool
                   /\ path[Len(path)].new = detected
                   /\ \A i \in 1..(Len(path) - 1) : path[i].new = path[i + 1].previous

\* What viewers and listeners are told of the session is what became of it: its
\* output, and the tool that runs in it.
SessionFollowed == OutputFollows /\ ToolFollows
=============================================================================
