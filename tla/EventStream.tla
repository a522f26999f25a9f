---------------------------- MODULE EventStream ----------------------------
(***************************************************************************)
(* One session view of the viewer: a transcript that grows, is replaced or *)
(* is deleted; the poller that follows it for one connection               *)
(* (adapters/poller.adapter.ts, the `events' case of serve.ts); the frames *)
(* on their way; the client's stream controller (useEventStream.ts) and    *)
(* its window of rows (rowStore.ts), with the two requests that change the *)
(* window beside the stream (the `api_rows' case of serve.ts).             *)
(***************************************************************************)
EXTENDS Transcript

CONSTANTS
  Contents,    \* what a transcript may hold when the view opens or when it is replaced
  MaxWrites,   \* bound: bytes written while the view is open
  MaxRow,      \* bound: the length of a row
  MaxFaults,   \* bound: lost connections, read errors, replacements, deletions
  MaxRequests, \* bound: requests for rows
  TickReadCap, \* TICK_READ_CAP, in bytes
  FrameMax,    \* FRAME_MAX_BYTES, in nodes or patches
  Limit,       \* the nodes of a window the server sends
  WindowCap,   \* WINDOW_CAP, the nodes the client keeps
  Requests     \* the requests the reader makes: "earlier", "tail"

ASSUME ContentsAssumption == \A c \in Contents : IsTranscript(c)

ASSUME SizesAssumption ==
  /\ MaxWrites \in Nat /\ MaxRow \in Nat \ {0} /\ MaxFaults \in Nat /\ MaxRequests \in Nat
  /\ TickReadCap \in Nat \ {0} /\ FrameMax \in Nat \ {0} /\ Limit \in Nat \ {0} /\ WindowCap \in Nat \ {0}
  /\ Limit <= WindowCap
  /\ Requests \subseteq {"earlier", "tail"}

VARIABLES
  file,       \* the transcript: its version (0: deleted) and its bytes
  writes, faults,  \* bytes written and disturbances so far
  polling,    \* the poller of the connection is running
  tail,       \* its TailState
  pending,    \* its map of calls without a result
  seq,        \* the number of its last frame
  chan,       \* the frames on their way, in order
  conn,       \* the client: "waiting" to open, "open", "ended" for good
  connections,
  lastSeq,    \* the client's watermark
  store,      \* the client's window
  request,    \* each request in flight, with its answer
  requests,   \* requests so far
  reloaded,   \* history: the end of the page that last replaced the window
  torn        \* history: "answer": an answer was applied that the window had moved
              \* away from, or a row came late, from before the end of a page that
              \* replaced the window; "patch": a result for a call not in the window;
              \* "oversized": a result for a call that is too large to be shown

server == <<polling, tail, pending, seq>>
client == <<conn, connections, lastSeq>>
asking == <<request, requests>>
history == <<reloaded, torn>>
vars   == <<file, writes, faults, server, chan, client, store, asking, history>>

\* rowStore's EMPTY; `ver' is the version of the file the window is of.
EmptyStore == [gen |-> 0, nodes |-> <<>>, first |-> 0, following |-> TRUE,
               newBelow |-> 0, truncatedBefore |-> FALSE, ver |-> 0]
NoRequest  == [st |-> "idle", raced |-> FALSE, page |-> <<>>]

Init ==
  /\ file \in {[ino |-> 1, bytes |-> c] : c \in Contents}
  /\ writes = 0 /\ faults = 0
  /\ polling = FALSE /\ tail = NoTail /\ pending = {} /\ seq = 0
  /\ chan = <<>>
  /\ conn = "waiting" /\ connections = 0 /\ lastSeq = 0
  /\ store = EmptyStore
  /\ request = [r \in Requests |-> NoRequest] /\ requests = 0
  /\ reloaded = 0 /\ torn = {}

Disturbed == faults < MaxFaults /\ faults' = faults + 1
-----------------------------------------------------------------------------
(***************************************************************************)
(* The transcript. A session appends to it; a path may come to name a      *)
(* fresh file, or none.                                                    *)
(***************************************************************************)
Has(kind) == \E row \in Rows(file.bytes) : ParsedKind(row.text) = kind
RowSoFar  == Len(file.bytes) - Confirmed(file.bytes)

Write ==
  /\ file.ino # 0 /\ writes < MaxWrites /\ writes' = writes + 1
  /\ \E b \in Byte :
       /\ CASE b = "n" -> RowSoFar > 0
            [] b = "x" -> RowSoFar > 0 /\ RowSoFar < MaxRow
            [] b = "t" -> RowSoFar = 0
            [] b = "c" -> RowSoFar = 0 /\ ~Has("call")
            [] b = "r" -> RowSoFar = 0 /\ Has("call") /\ ~Has("result")
       /\ file' = [file EXCEPT !.bytes = Append(@, b)]
  /\ UNCHANGED <<faults, server, chan, client, store, asking, history>>

Rotate ==
  /\ Disturbed /\ file.ino # 0
  /\ \E c \in Contents : file' = [ino |-> file.ino + 1, bytes |-> c]
  /\ UNCHANGED <<writes, server, chan, client, store, asking, history>>

Delete ==
  /\ Disturbed /\ file.ino # 0
  /\ file' = [ino |-> 0, bytes |-> <<>>]
  /\ UNCHANGED <<writes, server, chan, client, store, asking, history>>
-----------------------------------------------------------------------------
(***************************************************************************)
(* The poller. Frames carry a number that restarts with each connection;   *)
(* `ver' is the version of the file a frame is of.                         *)
(***************************************************************************)
Emit(sent, ver) ==
  /\ chan' = chan \o [j \in DOMAIN sent |-> [id |-> seq + j, ver |-> ver, frame |-> sent[j]]]
  /\ seq' = seq + Len(sent)

\* batchBySize: every item once, in order, no frame larger than the cap.
Batches(items) ==
  [j \in 1 .. (Len(items) + FrameMax - 1) \div FrameMax |->
     SubSeq(items, (j - 1) * FrameMax + 1, Min({j * FrameMax, Len(items)}))]

\* Each frame of rows is sent with the range of all of them.
RowsFrames(nodes, from) ==
  [j \in DOMAIN Batches(nodes) |-> [f |-> "rows", nodes |-> Batches(nodes)[j], from |-> from]]
PatchFrames(patches) ==   \* there is one result, so one patch at the most
  IF patches = {} THEN <<>> ELSE <<[f |-> "patch", ids |-> patches]>>
GoneFrame == <<[f |-> "gone"]>>

Window == FindWindow(file.bytes, Len(file.bytes), Limit)

\* seedFromWindow and buildWindowNodes, with the frames that go before the rows.
SendWindow(window, frames) ==
  LET eof    == Len(file.bytes)
      paired == Pair(WindowCandidates(window, file.ino), {})
  IN  /\ tail' = [NoTail EXCEPT !.offset = eof, !.carry = window.carrySeed,
                                !.ackOffset = eof - Len(window.carrySeed),
                                !.inode = file.ino]
      /\ pending' = paired.pending
      /\ Emit(frames \o RowsFrames(InFileOrder(Completed(paired.nodes, paired.patches)), window.from), file.ino)

\* openStream: a stream comes up, and its open event clears the watermark.
OpenStream ==
  /\ conn = "waiting" /\ conn' = "open"
  /\ connections' = connections + 1
  /\ lastSeq' = 0

\* A 404 while the file is deleted leaves the client waiting.
Connect ==
  /\ OpenStream /\ file.ino # 0
  /\ polling' = TRUE
  /\ LET window == Window
         hello  == [f |-> "hello", gen |-> connections', from |-> window.from,
                    truncatedBefore |-> window.truncatedBefore]
     IN  SendWindow(window, <<hello>>)
  /\ UNCHANGED <<file, writes, faults, store, asking, history>>

TickGone ==
  /\ conn = "open" /\ polling /\ file.ino = 0
  /\ Emit(GoneFrame, tail.inode)
  /\ polling' = FALSE
  /\ UNCHANGED <<file, writes, faults, tail, pending, client, store, asking, history>>

Truncated == Len(file.bytes) < tail.offset
Rotated   == tail.inode # 0 /\ file.ino # tail.inode

TickReset ==
  /\ conn = "open" /\ polling /\ file.ino # 0
  /\ Truncated \/ Rotated
  /\ SendWindow(Window, <<[f |-> "reset"]>>)
  /\ UNCHANGED <<file, writes, faults, polling, client, store, asking, history>>

\* The rows confirmed by this tick are split from their bytes once more.
TickRows ==
  /\ conn = "open" /\ polling /\ file.ino # 0 /\ ~Truncated /\ ~Rotated
  /\ LET readEnd   == Min({Len(file.bytes), tail.offset + TickReadCap})
         chunk     == SubSeq(file.bytes, tail.offset + 1, readEnd)
         tick      == AdvanceTail(tail, chunk, file.ino)
         absBase   == tail.offset - Len(tail.carry)
         confirmed == SubSeq(tail.carry \o chunk, 1, tick.state.ackOffset - absBase)
         nodes     == {Node(absBase + row.at, ParsedKind(row.text), file.ino) :
                         row \in Rows(confirmed)}
                      \cup {Node(at, "oversized", file.ino) : at \in tick.oversized}
         paired    == Pair(nodes, pending)
     IN  /\ tail' = tick.state
         /\ pending' = paired.pending
         /\ Emit(RowsFrames(InFileOrder(paired.nodes), absBase) \o PatchFrames(paired.patches), file.ino)
  /\ UNCHANGED <<file, writes, faults, polling, client, store, asking, history>>

\* A read that fails ends the poller without a word to the client.
PollerFails ==
  /\ Disturbed /\ conn = "open" /\ polling
  /\ polling' = FALSE
  /\ UNCHANGED <<file, writes, tail, pending, seq, chan, client, store, asking, history>>

Disconnect ==
  /\ conn = "open"
  /\ conn' = "waiting"
  /\ polling' = FALSE /\ tail' = NoTail /\ pending' = {} /\ seq' = 0
  /\ chan' = <<>>
  /\ UNCHANGED <<file, writes, connections, lastSeq, store, asking, history>>

Drop == Disturbed /\ Disconnect

\* The stream of a poller that ended is closed when it has been idle.
IdleTimeout == ~polling /\ chan = <<>> /\ Disconnect /\ UNCHANGED faults
-----------------------------------------------------------------------------
(***************************************************************************)
(* The window of the client.                                               *)
(***************************************************************************)
Held(nodes) == {n.at : n \in ToSet(nodes)}

\* The nodes of a frame that are not held, each once.
Fresh(nodes, held) ==
  Kept(nodes, {j \in DOMAIN nodes : /\ nodes[j].at \notin held
                                    /\ \A i \in 1 .. j - 1 : nodes[i].at # nodes[j].at})

FrozenNever == FALSE

Frozen == ~store.following /\ Len(store.nodes) >= WindowCap

\* applyRows: the tail grows and the head makes room, unless it is frozen.
WithRows(frame) ==
  LET fresh == Fresh(frame.nodes, Held(store.nodes))
      all   == store.nodes \o fresh
      kept  == SubSeq(all, Max({1, Len(all) - WindowCap + 1}), Len(all))
  IN  IF Frozen
      THEN [store EXCEPT !.newBelow = @ + Len(fresh)]
      ELSE IF fresh = <<>> THEN store
      ELSE [store EXCEPT !.nodes = kept,
                         !.first = IF kept # all THEN kept[1].at
                                   ELSE IF store.nodes = <<>> THEN frame.from ELSE @,
                         !.truncatedBefore = @ \/ kept # all]

Outside(nodes, ats) == Kept(nodes, {j \in DOMAIN nodes : nodes[j].at \notin ats})

PrependedUnrepaired(page) == Outside(page.nodes, Held(store.nodes)) \o store.nodes

Prepended(page) == Outside(Outside(page.nodes, Held(store.nodes)) \o store.nodes, page.removed)

\* History: a row that is put after a window that was loaded beyond it.
Late(frame) ==
  ~Frozen /\ \E n \in ToSet(Fresh(frame.nodes, Held(store.nodes))) : n.at < reloaded

\* prependPage: the head grows and the tail makes room, and freezes.
WithPage(page) ==
  LET all    == Prepended(page)
      evicts == Len(all) > WindowCap
  IN  [store EXCEPT !.nodes = IF evicts THEN SubSeq(all, 1, WindowCap) ELSE all,
                    !.first = page.from,
                    !.following = @ /\ ~evicts,
                    !.truncatedBefore = page.truncatedBefore]

\* reloadTail's replacement of the window.
WithTail(page) ==
  [store EXCEPT !.nodes = page.nodes, !.first = page.from, !.following = TRUE,
                !.newBelow = 0, !.truncatedBefore = page.truncatedBefore]

\* History: an answer on its way no longer fits the window.
Outdated(r, new) ==
  CASE r = "earlier" -> new.nodes = <<>> \/ new.gen # store.gen \/ new.first # store.first
    [] r = "tail"    -> new.nodes # store.nodes \/ new.newBelow # store.newBelow

Becomes(new) ==
  /\ store' = new
  /\ request' = [r \in Requests |->
                   IF request[r].st = "asked" /\ Outdated(r, new)
                   THEN [request[r] EXCEPT !.raced = TRUE] ELSE request[r]]
-----------------------------------------------------------------------------
(***************************************************************************)
(* The stream controller: only a frame that is newer than the watermark is *)
(* taken. A connection repeats none, and a new one clears the watermark.   *)
(***************************************************************************)
Take(kind) ==
  /\ conn = "open" /\ chan # <<>> /\ Head(chan).frame.f = kind
  /\ Head(chan).id > lastSeq
  /\ lastSeq' = Head(chan).id
  /\ chan' = Tail(chan)

Quiet == UNCHANGED <<file, writes, faults, server, connections, requests>>

ReceiveHello ==
  /\ Take("hello")
  /\ LET hello == Head(chan).frame
         base  == IF hello.gen = store.gen THEN store
                  ELSE [EmptyStore EXCEPT !.gen = hello.gen, !.ver = Head(chan).ver]
     IN  Becomes([base EXCEPT !.first = hello.from,
                              !.truncatedBefore = hello.truncatedBefore])
  /\ reloaded' = 0 /\ torn' = {}
  /\ UNCHANGED conn /\ Quiet

ReceiveRows ==
  /\ Take("rows")
  /\ Becomes(WithRows(Head(chan).frame))
  /\ torn' = IF Late(Head(chan).frame) THEN torn \cup {"answer"} ELSE torn
  /\ UNCHANGED <<conn, reloaded>> /\ Quiet

ReceivePatch ==
  /\ Take("patch")
  /\ Becomes([store EXCEPT !.nodes = [j \in DOMAIN @ |-> Complete(@[j], Head(chan).frame.ids)]])
  /\ torn' = torn \cup (IF Head(chan).frame.ids \subseteq Held(store.nodes) THEN {} ELSE {"patch"})
                  \cup {n.k : n \in {m \in ToSet(store.nodes) : m.at \in Head(chan).frame.ids /\ m.k = "oversized"}}
  /\ UNCHANGED <<conn, reloaded>> /\ Quiet

ReceiveReset ==
  /\ Take("reset")
  /\ Becomes([EmptyStore EXCEPT !.gen = store.gen, !.ver = Head(chan).ver])
  /\ reloaded' = 0 /\ torn' = {}
  /\ UNCHANGED conn /\ Quiet

ReceiveGone ==
  /\ Take("gone")
  /\ conn' = "ended"
  /\ UNCHANGED <<store, request, history>> /\ Quiet
-----------------------------------------------------------------------------
(***************************************************************************)
(* GET /api/rows, on the file as it is when the request is made; a request *)
(* that fails changes nothing. The reader asks for earlier rows when there *)
(* are some and no such request is in flight, and for the tail when rows   *)
(* below the window were counted.                                          *)
(***************************************************************************)
\* completeBackfillOrphans: the held orphans whose call is in the page.
ApiRows(before, wanted) ==
  LET window  == FindWindow(file.bytes, before, Limit)
      paired  == Pair(WindowCandidates(window, file.ino), {})
      nodes   == Completed(paired.nodes, paired.patches)
      results == {row.at : row \in {r \in Rows(file.bytes) :
                                      r.at >= window.to /\ ParsedKind(r.text) = "result"}}
      orphans == IF paired.pending # {} /\ file.ino \in wanted THEN results ELSE {}
      repaired == IF orphans = {} THEN nodes ELSE Completed(nodes, Ats(paired.pending))
  IN  [nodes   |-> InFileOrder(repaired),
       removed |-> orphans,
       from    |-> window.from, to |-> window.to, truncatedBefore |-> window.truncatedBefore]

Ask(r, before, wanted) ==
  /\ r \in Requests /\ requests < MaxRequests /\ requests' = requests + 1
  /\ request[r].st = "idle"
  /\ file.ino # 0 /\ before <= Len(file.bytes)
  /\ request' = [request EXCEPT ![r] = [st |-> "asked", raced |-> file.ino # store.ver,
                                        page |-> ApiRows(before, wanted)]]
  /\ UNCHANGED <<file, writes, faults, server, chan, client, store, history>>

AskEarlier == /\ store.truncatedBefore
              /\ Ask("earlier", store.first,
                     {n.ino : n \in {m \in ToSet(store.nodes) : m.k = "result"}})

AskTail == store.newBelow > 0 /\ Ask("tail", Len(file.bytes), {})

Answer(r) ==
  /\ request[r].st = "asked"
  /\ LET new == IF r = "earlier" THEN WithPage(request[r].page) ELSE WithTail(request[r].page)
     IN  /\ store' = new
         /\ request' = [q \in Requests |->
              IF q = r THEN NoRequest
              ELSE [request[q] EXCEPT !.raced = @ \/ (request[q].st = "asked" /\ (r = "tail" \/ Outdated(q, new)))]]
  /\ torn' = IF request[r].raced THEN torn \cup {"answer"} ELSE torn
  /\ reloaded' = IF r = "tail" THEN request[r].page.to ELSE reloaded
  /\ UNCHANGED <<file, writes, faults, server, chan, client, requests>>

FailAnswer(r) ==
  /\ request[r].st = "asked"
  /\ request' = [request EXCEPT ![r] = NoRequest]
  /\ UNCHANGED <<file, writes, faults, server, chan, client, store, requests, history>>
-----------------------------------------------------------------------------
Tick    == TickGone \/ TickReset \/ TickRows
Receive == \/ ReceiveHello \/ ReceiveRows \/ ReceivePatch
           \/ ReceiveReset \/ ReceiveGone

Next ==
  \/ Write \/ Rotate \/ Delete
  \/ Connect \/ Tick \/ PollerFails \/ Drop \/ IdleTimeout
  \/ Receive
  \/ AskEarlier \/ AskTail
  \/ \E r \in Requests : Answer(r) \/ FailAnswer(r)

Spec == Init /\ [][Next]_vars

(***************************************************************************)
(* The interval timer ticks, frames that were sent arrive, the retry timer *)
(* fires and an idle stream is closed: weak fairness of each, written with *)
(* what makes it due and, where one step does not end that, with what a    *)
(* step moves. Nothing is assumed of the session that writes, of the       *)
(* faults or of the reader's requests.                                     *)
(***************************************************************************)
ConnectDue == conn = "waiting" /\ file.ino # 0
IdleDue    == conn = "open" /\ ~polling /\ chan = <<>>
FrameDue   == conn = "open" /\ chan # <<>>
TickDue    == /\ conn = "open" /\ polling
              /\ file.ino = 0 \/ Truncated \/ Rotated \/ tail.offset < Len(file.bytes)

FairSpec == /\ Spec
            /\ []<>~ConnectDue /\ []<>~IdleDue
            /\ []<>~TickDue  \/ []<><<tail' # tail>>_vars
            /\ []<>~FrameDue \/ []<><<lastSeq' # lastSeq>>_vars
-----------------------------------------------------------------------------
MaxBytes == Max({Len(c) : c \in Contents} \cup {0}) + MaxWrites
Nodes    == [at : 0 .. MaxBytes, k : Kinds, ino : 1 .. MaxFaults + 1]

\* The values of the variables; in particular the carry of the tail never
\* exceeds the cap, and the client never holds more than its own.
TypeOK ==
  /\ file.ino \in 0 .. MaxFaults + 1 /\ file.bytes \in Seq(Byte)
  /\ Len(file.bytes) <= MaxBytes
  /\ writes \in 0 .. MaxWrites
  /\ faults \in 0 .. MaxFaults /\ polling \in BOOLEAN
  /\ tail.offset \in 0 .. MaxBytes /\ tail.ackOffset \in 0 .. tail.offset
  /\ tail.carry \in Seq(Byte) /\ Len(tail.carry) <= RowCap
  /\ tail.skipping \in BOOLEAN /\ tail.rowStart \in 0 .. MaxBytes
  /\ pending \subseteq Nodes
  /\ seq \in Nat /\ lastSeq \in Nat
  /\ \A j \in DOMAIN chan : chan[j].frame.f \in {"hello", "rows", "patch", "reset", "gone"}
  /\ conn \in {"waiting", "open", "ended"} /\ connections \in 0 .. MaxFaults + 1
  /\ store.nodes \in Seq(Nodes) /\ Len(store.nodes) <= WindowCap
  /\ store.gen \in 0 .. connections /\ store.newBelow \in Nat
  /\ store.following \in BOOLEAN /\ store.truncatedBefore \in BOOLEAN
  /\ requests \in 0 .. MaxRequests
  /\ torn \subseteq {"answer", "patch", "oversized"}

\* The rows of the file, of a size that is shown, that lie in the window.
RowsHeld ==
  IF store.nodes = <<>> \/ file.ino # store.ver THEN {}
  ELSE {row \in Rows(file.bytes) : /\ Len(row.text) <= RowCap
                                   /\ row.at >= store.nodes[1].at
                                   /\ row.at <= store.nodes[Len(store.nodes)].at}

Shows(kinds, row) ==
  \E n \in ToSet(store.nodes) : n.at = row.at /\ n.k \in kinds /\ n.ino = store.ver

\* The window is one range of the file: its nodes are in file order, none twice,
\* each where its row starts, and no text and no call between its first and its
\* last node is missing. It does not hold as it stands: rowStore.ts applies an
\* answer to whatever the window has become, which leaves a hole, and puts the rows
\* that a reload of the tail overtook after rows that come later in the file.
Contiguous ==
  /\ file.ino = store.ver =>
       \A n \in ToSet(store.nodes) :
         n.k \notin {"oversized", "unreadable"} => n.at \in {row.at : row \in Rows(file.bytes)}
  /\ \A i, j \in DOMAIN store.nodes : i < j => store.nodes[i].at < store.nodes[j].at
  /\ \A row \in RowsHeld :
       /\ ParsedKind(row.text) = "text" => Shows({"text"}, row)
       /\ ParsedKind(row.text) = "call" => Shows({"call", "done"}, row)

\* Whatever is read, replaced, dropped and reopened, and in whatever pieces the
\* file grows, the window is one range, unless an answer was applied to a
\* window that had moved on, or a row came from before the end of a reload.
OneRange == "answer" \notin torn => Contiguous

\* A result is never shown both in its call and as an orphan: a page that
\* completes a call takes the orphan away with it (window.ts,
\* completeBackfillOrphans). Excepted are the torn windows of OneRange, and a call
\* too large to be shown, whose patch turns the node of the row into a result.
ResultShownOnce ==
  torn \cap {"answer", "oversized"} = {} =>
    \A n, m \in ToSet(store.nodes) : ~(n.k = "done" /\ m.k = "result" /\ n.ino = m.ino)

\* A result row, once it is past the tail and its patch has arrived.
ResultShown(row) ==
  \/ Shows({"result"}, row)
  \/ \E n \in ToSet(store.nodes) : n.k = "done" /\ n.ino = store.ver

\* The client is where the file is.
Current ==
  /\ store.ver = file.ino
  /\ \A row \in Rows(file.bytes) :
       /\ Len(row.text) <= RowCap
       /\ \A other \in Rows(file.bytes) : other.at <= row.at
       => CASE ParsedKind(row.text) = "text"   -> Shows({"text"}, row)
            [] ParsedKind(row.text) = "call"   -> Shows({"call", "done"}, row)
            [] ParsedKind(row.text) = "result" -> ResultShown(row)

\* Through lost connections, failed reads and replaced files, a reader who
\* follows the tail comes to see the last complete row of the transcript.
CatchesUp ==
  <>[](Current \/ torn # {} \/ ~store.following \/ conn = "ended" \/ file.ino = 0)
=============================================================================
