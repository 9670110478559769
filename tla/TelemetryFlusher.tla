---------------------------- MODULE TelemetryFlusher ----------------------------
(***************************************************************************)
(* scripts/telemetry-flusher.py: hook events that a shim leaves in a spool *)
(* directory, one file each, are given their trace and span ids, written   *)
(* to SQLite, posted to a dashboard and removed.  One session; an event is *)
(* known by its position, which is also the order of its timestamp.        *)
(* Redaction, briefs and the other columns are data and left out.          *)
(***************************************************************************)
EXTENDS Naturals, Sequences, FiniteSets

CONSTANTS
    Tools,        \* tool_use_ids
    MaxSteps,     \* bound: hooks fired, restarts, crashes and failing calls
    HardStop,     \* SPOOL_HARDSTOP_THRESHOLD
    None

VARIABLES
    fired,      \* the hooks fired, in their order
    shim,       \* how far the shim of each event is
    file,       \* the spool: per event "absent", "empty" or "full"
    pc,         \* the flusher
    batch,      \* the listing this drain still has to go through
    stopping,   \* GracefulShutdown.stop
    made,       \* what process_event made of the head of the listing
    trace,      \* _trace_id_by_session
    spans,      \* _span_id_by_tool_use_id
    stack,      \* _active_span_stack_by_session
    traceFile,  \* sessions/<sid>/trace_id
    open,       \* the open transaction: a sessions row, an events row
    sessionRow, \* the sessions table
    rows,       \* the events table, in the order of insertion
    minted,     \* history: trace ids and span ids handed out
    lost,       \* history: files unlinked between open and write of the shim
    unsaved,    \* history: a trace_id file could not be written
    breaks      \* how many restarts, crashes and failing calls there were

shimVars == <<fired, shim>>
memVars == <<trace, spans, stack>>
dbVars == <<open, sessionRow, rows>>
histVars == <<minted, lost, unsaved>>
vars == <<shimVars, file, pc, batch, stopping, made, memVars, traceFile, dbVars,
          histVars, breaks>>

\* "Stop" stands for the hooks that open and close no span.
ToolHooks == {"PreToolUse", "PostToolUse"}
Hooks == {"SessionStart", "SubagentStart", "SubagentStop", "Stop"}
Kinds == [hook : ToolHooks, tool : Tools] \cup [hook : Hooks, tool : {None}]

Fired == 1 .. Len(fired)
NoRow == [key |-> None, span |-> 0, trace |-> 0]
Closed == [session |-> 0, row |-> NoRow]

Init ==
    /\ fired = <<>> /\ shim = [n \in 1 .. MaxSteps |-> "none"]
    /\ file = [n \in 1 .. MaxSteps |-> "absent"]
    /\ pc = "idle" /\ batch = <<>> /\ stopping = FALSE /\ made = NoRow
    /\ trace = 0 /\ spans = [t \in Tools |-> 0] /\ stack = <<>>
    /\ traceFile = 0 /\ open = Closed /\ sessionRow = 0 /\ rows = <<>>
    /\ minted = [traces |-> 0, spans |-> 0] /\ lost = {} /\ unsaved = FALSE
    /\ breaks = 0

MaySurprise == Len(fired) + breaks < MaxSteps
Fault == MaySurprise /\ breaks' = breaks + 1

-----------------------------------------------------------------------------
(* The hooks and the shim.                                                 *)

\* A hook fires and its shim makes a file, mktemp.  A tool_use_id is used once,
\* and its call ends after it has begun.
Fire(k) ==
    /\ MaySurprise
    /\ \A n \in Fired : fired[n] = k => k.hook \notin ToolHooks
    /\ k.hook = "PostToolUse" =>
         \E n \in Fired : fired[n] = [hook |-> "PreToolUse", tool |-> k.tool]
    /\ fired' = Append(fired, k)
    /\ shim' = [shim EXCEPT ![Len(fired) + 1] = "created"]
    /\ file' = [file EXCEPT ![Len(fired) + 1] = "empty"]
    /\ UNCHANGED <<pc, batch, stopping, made, memVars, traceFile, dbVars,
                   histVars, breaks>>

\* The redirection opens the file (again, should it have gone),
\* then printf writes; a file unlinked in between takes the event with it.
ShimStep(n) ==
    /\ \/ /\ shim[n] = "created"
          /\ shim' = [shim EXCEPT ![n] = "opened"]
          /\ file' = [file EXCEPT ![n] = "empty"]
          /\ UNCHANGED lost
       \/ /\ shim[n] = "opened"
          /\ shim' = [shim EXCEPT ![n] = "done"]
          /\ IF file[n] = "empty"
             THEN file' = [file EXCEPT ![n] = "full"] /\ UNCHANGED lost
             ELSE lost' = lost \cup {n} /\ UNCHANGED file
    /\ UNCHANGED <<fired, pc, batch, stopping, made, memVars, traceFile, dbVars,
                   minted, unsaved, breaks>>

-----------------------------------------------------------------------------
(* The flusher.                                                            *)

Spool == {n \in Fired : file[n] # "absent"}

\* list_spool_files: files without a readable timestamp come first.
Before(m, n) ==
    IF (file[m] = "empty") = (file[n] = "empty") THEN m < n ELSE file[m] = "empty"

Listing ==
    CHOOSE s \in [1 .. Cardinality(Spool) -> Spool] :
        \A i, j \in DOMAIN s : i < j => Before(s[i], s[j])

\* drain_once, when there are files and fewer than the hard stop.
BeginDrain ==
    /\ pc = "idle"
    /\ Spool # {}
    /\ Cardinality(Spool) < HardStop
    /\ batch' = Listing
    /\ pc' = "read"
    /\ UNCHANGED <<shimVars, file, stopping, made, memVars, traceFile, dbVars,
                   histVars, breaks>>

\* The end of a drain; after the signal one more drain follows, the last.
EndDrain ==
    /\ pc = "read"
    /\ batch = <<>>
    /\ pc' = IF stopping THEN "off" ELSE "idle"
    /\ UNCHANGED <<shimVars, file, batch, stopping, made, memVars, traceFile,
                   dbVars, histVars, breaks>>

\* SIGTERM, which the loop looks at between two drains.
Shutdown ==
    /\ pc = "idle"
    /\ ~stopping
    /\ Fault
    /\ stopping' = TRUE
    /\ pc' = IF Spool = {} \/ Cardinality(Spool) >= HardStop THEN "off" ELSE pc
    /\ UNCHANGED <<shimVars, file, batch, made, memVars, traceFile, dbVars,
                   histVars>>

\* An empty file is taken for a sentinel and dropped.
DropEmpty ==
    /\ pc = "read" /\ batch # <<>>
    /\ file[Head(batch)] = "empty"
    /\ file' = [file EXCEPT ![Head(batch)] = "absent"]
    /\ batch' = Tail(batch)
    /\ UNCHANGED <<shimVars, pc, stopping, made, memVars, traceFile, dbVars,
                   histVars, breaks>>

\* trace_id_for_session looks at memory, the file and the table in this order;
\* mint_session, for SessionStart, leaves out the table.
KnownTrace(hook) ==
    IF trace # 0 THEN trace
    ELSE IF traceFile # 0 THEN traceFile
    ELSE IF hook # "SessionStart" /\ open.session # 0 THEN open.session
    ELSE IF hook # "SessionStart" THEN sessionRow ELSE 0

\* The trace id of the event.  A new one goes to the file, if there is none
\* and the write succeeds, to memory, and to the table unless that has one.
AssignTrace(hook) ==
    LET known == KnownTrace(hook)
        new == minted.traces + 1
    IN  IF known # 0
        THEN /\ trace' = known
             /\ UNCHANGED <<traceFile, open, unsaved, breaks>>
             /\ minted' = [minted EXCEPT !.spans = @ + 1]
        ELSE /\ trace' = new
             /\ minted' = [traces |-> new, spans |-> minted.spans + 1]
             /\ \/ traceFile' = new /\ UNCHANGED <<unsaved, breaks>>
                \/ Fault /\ unsaved' = TRUE /\ UNCHANGED traceFile
             /\ open' = IF sessionRow = 0 /\ open.session = 0
                        THEN [open EXCEPT !.session = new] ELSE open

Top(s) == IF s = <<>> THEN 0 ELSE s[Len(s)]
Without(s, span) == SelectSeq(s, LAMBDA x : x # span)
Popped(s) == IF s = <<>> THEN s ELSE SubSeq(s, 1, Len(s) - 1)

\* A faulty variant: the innermost open span.
SpanOnTop(tool, new) == IF stack # <<>> THEN Top(stack) ELSE new

\* The span Post* takes: its Pre's, if the flusher has seen that.
SpanOfCall(tool, new) == IF spans[tool] # 0 THEN spans[tool] ELSE new

\* assign_span_for_event; `new` is the span id minted for the event.
AssignSpan(k, new, span) ==
    CASE k.hook = "PreToolUse" ->
           /\ span = new
           /\ spans' = [spans EXCEPT ![k.tool] = new]
           /\ stack' = Append(stack, new)
      [] k.hook = "PostToolUse" ->
           /\ span = SpanOfCall(k.tool, new)
           /\ spans' = [spans EXCEPT ![k.tool] = 0]
           /\ stack' = IF \E i \in DOMAIN stack : stack[i] = span
                       THEN Without(stack, span) ELSE Popped(stack)
      [] k.hook = "SubagentStart" ->
           span = new /\ stack' = Append(stack, new) /\ UNCHANGED spans
      [] k.hook = "SubagentStop" ->
           /\ span = (IF stack = <<>> THEN new ELSE Top(stack))
           /\ stack' = Popped(stack)
           /\ UNCHANGED spans
      [] k.hook = "SessionStart" ->
           span = new /\ stack' = <<new>> /\ UNCHANGED spans
      [] OTHER -> span = new /\ UNCHANGED <<spans, stack>>

\* process_event; done again for an event whose insert has failed.
ProcessEvent ==
    /\ pc = "read" /\ batch # <<>>
    /\ file[Head(batch)] = "full"
    /\ LET k == fired[Head(batch)]
           new == minted.spans + 1
       IN  /\ AssignTrace(k.hook)
           /\ \E span \in 1 .. new :
                /\ AssignSpan(k, new, span)
                /\ made' = [key |-> k, span |-> span, trace |-> trace']
    /\ pc' = "insert"
    /\ UNCHANGED <<shimVars, file, batch, stopping, sessionRow, rows, lost>>

Keys(s) == {s[i].key : i \in DOMAIN s}

\* INSERT OR IGNORE and commit: dedup_key is the hook and the tool.  What an
\* earlier transaction has left open is committed, too.
Insert ==
    /\ pc = "insert"
    /\ LET old == IF open.row = NoRow THEN rows ELSE Append(rows, open.row)
       IN  rows' = IF made.key \in Keys(old) THEN old ELSE Append(old, made)
    /\ sessionRow' = IF open.session # 0 THEN open.session ELSE sessionRow
    /\ open' = Closed
    /\ made' = NoRow
    /\ pc' = "post"
    /\ UNCHANGED <<shimVars, file, batch, stopping, memVars, traceFile,
                   histVars, breaks>>

\* A faulty variant: an event whose insert fails is dropped.
InsertFailsAndDrops ==
    /\ pc = "insert"
    /\ Fault
    /\ file' = [file EXCEPT ![Head(batch)] = "absent"]
    /\ batch' = Tail(batch)
    /\ made' = NoRow
    /\ pc' = "read"
    /\ UNCHANGED <<shimVars, stopping, memVars, traceFile, dbVars, histVars>>

\* The insert raises sqlite3.Error: the file is left for the next drain.
InsertFails ==
    /\ pc = "insert"
    /\ Fault
    /\ batch' = Tail(batch)
    /\ made' = NoRow
    /\ pc' = "read"
    /\ UNCHANGED <<shimVars, file, stopping, memVars, traceFile, dbVars, histVars>>

\* The commit raises: the drain is given up, the transaction stays open.
CommitFails ==
    /\ pc = "insert"
    /\ Fault
    /\ open' = IF made.key \in Keys(rows) \/ open.row # NoRow
               THEN open ELSE [open EXCEPT !.row = made]
    /\ batch' = <<>>
    /\ made' = NoRow
    /\ pc' = "read"
    /\ UNCHANGED <<shimVars, file, stopping, memVars, traceFile, sessionRow, rows,
                   histVars>>

\* The update of disler_pushed_at raises: the drain is given up.
MarkFails ==
    /\ pc = "post"
    /\ Fault
    /\ batch' = <<>>
    /\ pc' = "read"
    /\ UNCHANGED <<shimVars, file, stopping, made, memVars, traceFile, dbVars,
                   histVars>>

\* post_to_disler, whatever comes of it; disler_pushed_at; then the file goes.
PostAndUnlink ==
    /\ pc = "post"
    /\ file' = [file EXCEPT ![Head(batch)] = "absent"]
    /\ batch' = Tail(batch)
    /\ pc' = "read"
    /\ UNCHANGED <<shimVars, stopping, made, memVars, traceFile, dbVars, histVars,
                   breaks>>

\* The process is killed: memory and the open transaction are gone.
Crash ==
    /\ pc # "off"
    /\ Fault
    /\ pc' = "off"
    /\ batch' = <<>>
    /\ made' = NoRow
    /\ open' = Closed
    /\ trace' = 0 /\ spans' = [t \in Tools |-> 0] /\ stack' = <<>>
    /\ UNCHANGED <<shimVars, file, stopping, traceFile, sessionRow,
                   rows, histVars>>

\* run_loop, or a run with --once.
Start ==
    /\ pc = "off"
    /\ pc' = "idle"
    /\ stopping' = FALSE
    /\ trace' = 0 /\ spans' = [t \in Tools |-> 0] /\ stack' = <<>>
    /\ UNCHANGED <<shimVars, file, batch, made, traceFile, dbVars, histVars,
                   breaks>>

DrainStep ==
    \/ BeginDrain \/ EndDrain \/ DropEmpty \/ ProcessEvent
    \/ Insert \/ InsertFails \/ CommitFails \/ PostAndUnlink \/ MarkFails

Next ==
    \/ \E k \in Kinds : Fire(k)
    \/ \E n \in 1 .. MaxSteps : ShimStep(n)
    \/ DrainStep
    \/ Shutdown \/ Crash \/ Start

Spec == Init /\ [][Next]_vars

-----------------------------------------------------------------------------
(* Properties.                                                             *)

\* A file that was written leaves the spool only when the table has a row for
\* its key, whatever crashes or fails in between.
UnlinkedIsRecorded ==
    \A n \in Fired :
        shim[n] = "done" /\ file[n] = "absent" /\ n \notin lost =>
            fired[n] \in Keys(rows)

\* A session keeps its trace id over restarts, as long as the trace_id file
\* could be written.
OneTracePerSession ==
    ~unsaved => \A i, j \in DOMAIN rows : rows[i].trace = rows[j].trace

\* The two events of a tool call share a span when they are processed in order
\* by one process that meets no failure.
PairsShareSpan ==
    breaks = 0 =>
        \A i, j \in DOMAIN rows :
            /\ i < j
            /\ rows[i].key.hook = "PreToolUse" /\ rows[j].key.hook = "PostToolUse"
            /\ rows[i].key.tool = rows[j].key.tool
            => rows[i].span = rows[j].span

-----------------------------------------------------------------------------
(* What docs and comments say, and the code does not do.                   *)

\* "re-insertion of the same ... triple a silent no-op": two events without a
\* tool_use_id have the same triple, and the second one is not recorded.
EventsAreDistinct ==
    \A n \in Fired :
        shim[n] = "done" /\ file[n] = "absent" /\ n \notin lost =>
            Cardinality({m \in Fired : file[m] = "absent" /\ fired[m] = fired[n]})
              <= Cardinality({i \in DOMAIN rows : rows[i].key = fired[n]})
=============================================================================
