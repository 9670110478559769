------------------------------ MODULE StreamClient ------------------------------
(***************************************************************************)
(* The live page of the admin SPA and its streaming sessions.  The page is *)
(* one thread: an action is what runs between two awaits, or the handler   *)
(* of one socket, timer or audio event.  A call is the handler of a click  *)
(* that awaits something.  A source is a microphone stream with its        *)
(* worklet, or the slicer of an audio file.  A frame is known by its place *)
(* among those captured for its session.  The recording kept for playback, *)
(* the transcript, the pings, the stall warning and the log are left out,  *)
(* and so are leaving the page and a URL that no socket can be made for.   *)
(***************************************************************************)
EXTENDS Naturals, Sequences

CONSTANTS
    MaxCalls,    \* bound on the handlers that await something at once
    MaxSessions, \* bound on the sessions ever started
    MaxSources,  \* bound on the sources ever opened
    MaxFrames    \* bound on the frames of a file or a microphone

SessionIds == 1 .. MaxSessions
SourceIds == 1 .. MaxSources
Calls == 1 .. MaxCalls

VARIABLES
    page,      \* the page: its session (0: null), the status it shows, the file's flags
    sess,      \* the sessions: pending are frames that wait, sent those that went out,
               \* stream and worklet the source that is held, starting that
               \* startRecording is under way, file the length of an audio
               \* file in frames, 0 for a microphone
    source,    \* the sources: on is the light of the microphone, runs that frames come
    call,      \* the handlers that await something
    overlapped \* history: a click was handled while another call was pending

vars == <<page, sess, source, call, overlapped>>

\* isSessionLive and canRecord of the page.
LiveStatuses == {"connecting", "spawning-gpu", "catching-up", "transcribing"}
CanRecord == LiveStatuses \ {"connecting"}
Over == {"ended", "failed"}

NoSession ==
    [status |-> "idle", socket |-> "none", ready |-> FALSE, draining |-> FALSE,
     pending |-> <<>>, sent |-> <<>>, captured |-> 0, recording |-> FALSE,
     starting |-> FALSE, stream |-> 0, worklet |-> 0, file |-> 0,
     wasOver |-> FALSE]

NoSource == [of |-> 0, on |-> FALSE, runs |-> FALSE]
NoCall == [at |-> "idle", sid |-> 0, src |-> 0, next |-> "nothing"]

Init ==
    /\ page = [session |-> 0, status |-> "idle", fileActive |-> FALSE,
               decoding |-> FALSE, complete |-> FALSE, grace |-> FALSE]
    /\ sess = [i \in SessionIds |-> NoSession]
    /\ source = [m \in SourceIds |-> NoSource]
    /\ call = [c \in Calls |-> NoCall]
    /\ overlapped = FALSE

-----------------------------------------------------------------------------
(* The code between two awaits changes the state as a whole.               *)

state == [page |-> page, sess |-> sess, source |-> source]

Become(st) == page' = st.page /\ sess' = st.sess /\ source' = st.source

\* setStatus, and onStatusChange of the page: a file that was emitted whole
\* keeps its session until the grace period ends.
Status(st, i, status) ==
    IF st.sess[i].status = status THEN st
    ELSE [st EXCEPT
           !.sess[i].status = status,
           !.sess[i].wasOver = @ \/ status \in Over,
           !.page.status = status,
           !.page.grace = @ \/ (st.page.fileActive /\ st.page.complete
                                  /\ status = "transcribing")]

\* "ended", unless it is over already.
End(st, i) == IF st.sess[i].status \in Over THEN st ELSE Status(st, i, "ended")

\* releaseStream.
ReleaseStream(st, i) ==
    LET m == st.sess[i].stream
    IN  IF m = 0 THEN st
        ELSE [st EXCEPT !.source[m].on = FALSE, !.sess[i].stream = 0]

\* worklet.stop() up to its await: no frame comes any more.
StopWorklet(st, i) ==
    LET m == st.sess[i].worklet
    IN  IF m = 0 THEN st
        ELSE [st EXCEPT !.source[m].runs = FALSE, !.sess[i].worklet = 0]

\* stop() up to the await of the worklet.
Halt(st, i) ==
    StopWorklet([st EXCEPT !.sess[i] = [@ EXCEPT !.draining = FALSE, !.recording = FALSE]], i)

\* A faulty variant: a socket that is not open yet is forgotten.
ShutOpen(socket) == IF socket = "open" THEN "closing" ELSE socket

\* ws.close(), and the reference to the socket is dropped.
Shut(socket) == IF socket \in {"connecting", "open"} THEN "closing" ELSE socket

\* stop() after the await, and the rest of stopSession.
Finish(st, i) ==
    LET released == ReleaseStream(st, i)
    IN  [End([released EXCEPT !.sess[i].socket = Shut(@)], i) EXCEPT !.page.session = 0]

\* The next session is made and its start() opens the socket.
Open(st, file) ==
    LET i == CHOOSE k \in SessionIds : st.sess[k].status = "idle"
    IN  Status([st EXCEPT !.sess[i] = [@ EXCEPT !.socket = "connecting", !.file = file],
                          !.page.session = i], i, "connecting")

\* startSession: not over a live or pinned session.
StartSession(st) ==
    IF st.page.status \in LiveStatuses \/ st.page.session # 0 THEN st ELSE Open(st, 0)

Free(c) == call' = [call EXCEPT ![c] = NoCall]

Await(c, at, i, m, next) ==
    call' = [call EXCEPT ![c] = [at |-> at, sid |-> i, src |-> m, next |-> next]]

\* startRecording of session i, up to getUserMedia.
Record(c, st, i) ==
    LET idle == i # 0 => st.sess[i].recording \/ st.sess[i].starting
    IN  \/ idle /\ Become(st) /\ Free(c)
        \/ /\ ~idle
           /\ Become([st EXCEPT !.sess[i].starting = TRUE])
           /\ Await(c, "mic", i, 0, "nothing")

\* What a handler does after stopSession.
Continue(c, st, next) ==
    \/ next = "nothing" /\ Become(st) /\ Free(c)
    \/ next = "start" /\ Become(StartSession(st)) /\ Free(c)
    \/ next = "record" /\ LET new == StartSession(st) IN Record(c, new, new.page.session)
    \/ next = "endfile" /\ Become([st EXCEPT !.page.fileActive = FALSE]) /\ Free(c)

\* stopSession of what the page holds.  A microphone's worklet is awaited; the
\* stop of a file's source awaits nothing.
StopSession(c, st, next) ==
    LET i == st.page.session
    IN  \/ i = 0 /\ Continue(c, st, next)
        \/ /\ i # 0
           /\ IF st.sess[i].worklet # 0 /\ st.sess[i].file = 0
              THEN Become(Halt(st, i)) /\ Await(c, "stopping", i, 0, next)
              ELSE Continue(c, Finish(Halt(st, i), i), next)

Busy == \E c \in Calls : call[c].at # "idle"

\* A handler that may await something begins.
Begin(c) ==
    /\ call[c].at = "idle" /\ \A b \in 1 .. (c - 1) : call[b].at # "idle"
    /\ overlapped' = (overlapped \/ Busy)

\* A further session is within the bound.
CanStart == \E i \in SessionIds : sess[i].status = "idle"

-----------------------------------------------------------------------------
(* The user.                                                               *)

\* "End session" and "Start session" are one button, which is never disabled.
ClickSession(c) ==
    /\ Begin(c)
    /\ \/ /\ page.fileActive
          /\ StopSession(c, [state EXCEPT !.page.grace = FALSE], "endfile")
       \/ /\ ~page.fileActive /\ page.status \in LiveStatuses
          /\ StopSession(c, state, "nothing")
       \/ /\ ~page.fileActive /\ page.status \notin LiveStatuses
          /\ CanStart
          /\ StopSession(c, state, "start")

\* The microphone button: start, pause, resume, or start over.
ClickMic(c) ==
    /\ ~page.fileActive /\ ~page.decoding
    /\ Begin(c)
    /\ LET i == page.session
       IN  \/ /\ i = 0 \/ page.status \notin CanRecord
              /\ CanStart
              /\ StopSession(c, state, "record")
           \/ /\ i # 0 /\ page.status \in CanRecord
              /\ IF sess[i].recording
                 THEN /\ Become(StopWorklet([state EXCEPT !.sess[i].recording = FALSE], i))
                      /\ Await(c, "pausing", i, 0, "nothing")
                 ELSE Record(c, state, i)

\* "Transcribe file": the file is decoded first.
ClickFile(c) ==
    /\ ~page.fileActive /\ ~page.decoding
    /\ page.status \notin LiveStatuses /\ page.session = 0
    /\ CanStart
    /\ Begin(c)
    /\ page' = [page EXCEPT !.status = "idle", !.complete = FALSE, !.decoding = TRUE]
    /\ Await(c, "decoding", 0, 0, "nothing")
    /\ UNCHANGED <<sess, source>>

-----------------------------------------------------------------------------
(* Awaits that return.                                                     *)

Returns(c, at) == call[c].at = at /\ UNCHANGED overlapped

MicGranted(c) ==
    /\ Returns(c, "mic")
    /\ \E m \in SourceIds :
         /\ source[m].of = 0 /\ \A k \in 1 .. (m - 1) : source[k].of # 0
         /\ source' = [source EXCEPT ![m] = [of |-> call[c].sid, on |-> TRUE, runs |-> FALSE]]
         /\ sess' = [sess EXCEPT ![call[c].sid].stream = m]
         /\ Await(c, "worklet", call[c].sid, m, "nothing")
    /\ UNCHANGED page

\* The user refuses.
MicRefused(c) ==
    /\ Returns(c, "mic")
    /\ sess' = [sess EXCEPT ![call[c].sid].starting = FALSE]
    /\ Free(c)
    /\ UNCHANGED <<page, source>>

WorkletStarted(c) ==
    /\ Returns(c, "worklet")
    /\ source' = [source EXCEPT ![call[c].src].runs = TRUE]
    /\ sess' = [sess EXCEPT ![call[c].sid] =
         [@ EXCEPT !.worklet = call[c].src, !.recording = TRUE, !.starting = FALSE]]
    /\ Free(c)
    /\ UNCHANGED page

WorkletFails(c) ==
    /\ Returns(c, "worklet")
    /\ Become(ReleaseStream([state EXCEPT !.sess[call[c].sid].starting = FALSE], call[c].sid))
    /\ Free(c)

PauseDone(c) ==
    /\ Returns(c, "pausing")
    /\ Become(ReleaseStream(state, call[c].sid))
    /\ Free(c)

StopDone(c) ==
    /\ Returns(c, "stopping")
    /\ call[c].next \in {"start", "record"} => CanStart
    /\ Continue(c, Finish(state, call[c].sid), call[c].next)

\* The decoded file, of one frame or more, gets a session of its own, whatever the
\* page holds by now, and its source begins at once.
Decoded(c, length) ==
    /\ Returns(c, "decoding")
    /\ CanStart
    /\ LET st == Open([state EXCEPT !.page = [@ EXCEPT !.decoding = FALSE,
                                                       !.fileActive = TRUE]], length)
           i == st.page.session
       IN  \E m \in SourceIds :
             /\ source[m].of = 0 /\ \A k \in 1 .. (m - 1) : source[k].of # 0
             /\ Become([st EXCEPT !.source[m] = [of |-> i, on |-> FALSE, runs |-> TRUE],
                                  !.sess[i] = [@ EXCEPT !.worklet = m, !.recording = TRUE]])
    /\ Free(c)

DecodeFails(c) ==
    /\ Returns(c, "decoding")
    /\ page' = [page EXCEPT !.decoding = FALSE]
    /\ Free(c)
    /\ UNCHANGED <<sess, source>>

-----------------------------------------------------------------------------
(* Events of a session.                                                    *)

Event == UNCHANGED <<call, overlapped>>

SocketOpens(i) ==
    /\ sess[i].socket = "connecting"
    /\ Become(Status([state EXCEPT !.sess[i].socket = "open"], i, "spawning-gpu"))
    /\ Event

\* onclose, whichever side has closed the socket.
SocketCloses(i) ==
    /\ sess[i].socket \in {"connecting", "open", "closing"}
    /\ Become(End([state EXCEPT !.sess[i] =
                     [@ EXCEPT !.socket = "closed", !.draining = FALSE]], i))
    /\ Event

\* A faulty variant: live frames go out before those that waited.
LiveAtOnce(pending) == "transcribing"

\* Frames that waited for the GPU are replayed first.
StatusWhenReady(pending) == IF pending = <<>> THEN "transcribing" ELSE "catching-up"

\* "ready": the first one counts, whatever the status is by then.
Ready(i) ==
    /\ sess[i].socket = "open"
    /\ ~sess[i].ready
    /\ Become(Status([state EXCEPT !.sess[i] =
                        [@ EXCEPT !.ready = TRUE, !.draining = sess[i].pending # <<>>]],
                     i, StatusWhenReady(sess[i].pending)))
    /\ Event

\* "ended" or "error"; the socket stays open.
ServerEnds(i) ==
    /\ sess[i].socket = "open"
    /\ \E status \in Over : Become(Status(state, i, status))
    /\ Event

\* transmitFrame: only an open socket takes it.
Transmit(s, frame) ==
    IF s.socket = "open" THEN [s EXCEPT !.sent = Append(@, frame)] ELSE s

\* The timer that replays frames, at 10 Hz.
Replay(i) ==
    /\ sess[i].draining
    /\ \/ /\ sess[i].pending # <<>>
          /\ sess' = [sess EXCEPT ![i] =
               Transmit([@ EXCEPT !.pending = Tail(sess[i].pending)], Head(sess[i].pending))]
          /\ UNCHANGED <<page, source>>
       \/ /\ sess[i].pending = <<>>
          /\ LET st == [state EXCEPT !.sess[i].draining = FALSE]
             IN  Become(IF sess[i].status = "catching-up"
                        THEN Status(st, i, "transcribing") ELSE st)
    /\ Event

\* handleFrame: kept back while the GPU is not ready or is catching up.
Take(s) ==
    LET frame == s.captured + 1
        t == [s EXCEPT !.captured = frame]
    IN  IF s.status \in LiveStatuses \ {"transcribing"}
        THEN [t EXCEPT !.pending = Append(@, frame)]
        ELSE IF s.status = "transcribing" THEN Transmit(t, frame) ELSE t

\* A source posts a frame.  After its last frame a file's source stops, and the
\* grace period begins if the page shows that the GPU has caught up.
Frame(m) ==
    /\ source[m].runs
    /\ LET i == source[m].of
           last == sess[i].captured + 1 = sess[i].file
       IN  /\ sess[i].captured < MaxFrames
           /\ sess' = [sess EXCEPT ![i] = Take(@)]
           /\ source' = [source EXCEPT ![m].runs = @ /\ ~last]
           /\ page' = IF last /\ ~page.complete
                      THEN [page EXCEPT !.complete = TRUE,
                                        !.grace = @ \/ page.status = "transcribing"]
                      ELSE page
    /\ Event

\* The grace period is over: endFileSession.
GraceEnds(c) ==
    /\ page.grace
    /\ Begin(c)
    /\ StopSession(c, [state EXCEPT !.page.grace = FALSE], "endfile")

Next ==
    \/ \E c \in Calls :
         \/ ClickSession(c) \/ ClickMic(c) \/ ClickFile(c) \/ GraceEnds(c)
         \/ MicGranted(c) \/ MicRefused(c) \/ WorkletStarted(c) \/ WorkletFails(c)
         \/ PauseDone(c) \/ StopDone(c) \/ DecodeFails(c)
         \/ \E length \in 1 .. MaxFrames : Decoded(c, length)
    \/ \E i \in SessionIds :
         SocketOpens(i) \/ SocketCloses(i) \/ Ready(i) \/ ServerEnds(i) \/ Replay(i)
    \/ \E m \in SourceIds : Frame(m)

Spec == Init /\ [][Next]_vars

-----------------------------------------------------------------------------
(* Properties.                                                             *)

Numbers(n) == [k \in 1 .. n |-> k]

\* Until a session is over, each frame captured for it has been sent or waits,
\* in the order of capture and once; and nothing is sent before the GPU is ready.
\* (A socket that closes ends the session.)
AudioIsKept ==
    \A i \in SessionIds :
        /\ sess[i].status \in LiveStatuses /\ ~sess[i].wasOver =>
             sess[i].sent \o sess[i].pending = Numbers(sess[i].captured)
        /\ sess[i].sent # <<>> => sess[i].ready

\* A socket that is open is that of the session the page can end.
SocketsAreHeld ==
    \A i \in SessionIds : sess[i].socket \in {"connecting", "open"} => page.session = i

\* While nothing is awaited, a microphone is on for a session that records and can
\* be paused.
MicsAreHeld ==
    ~Busy => \A m \in SourceIds :
        source[m].on =>
            /\ page.session = source[m].of
            /\ sess[source[m].of].recording /\ sess[source[m].of].stream = m

\* The grace period begins when the whole file has been sent.
FileIsWhole ==
    page.grace /\ page.session # 0 =>
        LET s == sess[page.session]
        IN  s.wasOver \/ (s.file # 0 /\ s.sent = Numbers(s.file))

\* Unless two calls were pending at once, the page is in control of what costs.
PageIsInControl == ~overlapped => SocketsAreHeld /\ MicsAreHeld /\ FileIsWhole

-----------------------------------------------------------------------------
(* What comments say, and the code does not do.                            *)

\* "release the MediaStream ... Safe to call from any state".
StoppedMeansMicOff ==
    ~Busy => \A m \in SourceIds :
        source[m].on => sess[source[m].of].socket \in {"connecting", "open"}

\* "The separate End-session button is the only thing that closes the pipeline":
\* as long as a pipeline is open, the button has it.
EndButtonHasSession == SocketsAreHeld

\* "once drained, the state transitions to `transcribing`": frames that are sent
\* belong to a session that is not over.
OverMeansSilent ==
    [][\A i \in SessionIds : sess[i].status \in Over => sess'[i].sent = sess[i].sent]_vars
=============================================================================
