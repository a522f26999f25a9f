------------------------ MODULE EventStreamInvariant ------------------------
(***************************************************************************)
(* The invariant by which the window of EventStream is proved to be one    *)
(* range of rows: what the places of a file are, in what way the tail, the *)
(* frames under way, the answers under way and the window fit the file,    *)
(* and that together they leave nothing out; and the one by which it is    *)
(* proved to show a result once. EventStreamServerProofs and               *)
(* EventStreamProofs prove them.                                           *)
(***************************************************************************)
EXTENDS EventStream

-----------------------------------------------------------------------------
(* What the bytes of a file say of places in it                            *)

\* Where a row may start; a row, by where it starts and where its newline ends it.
Starts(b)      == Ends(b) \cup {0}
IsRow(b, s, e) == s \in Starts(b) /\ e \in Ends(b) /\ s < e /\ \A x \in Ends(b) : x <= s \/ e <= x
RowOf(b, s, e) == [at |-> s, text |-> SubSeq(b, s + 1, e - 1)]

\* Where a text or a call starts that is small enough to be shown, and where a call does.
ShownAts(b) == {row.at : row \in {r \in Rows(b) : /\ Len(r.text) <= RowCap
                                                  /\ ParsedKind(r.text) \in {"text", "call"}}}
CallAts(b)  == {row.at : row \in {r \in Rows(b) : ParsedKind(r.text) = "call"}}

\* No row ends between two places.
NoEndIn(b, x, y) == \A e \in Ends(b) : e <= x \/ y < e

\* No row that is shown, or will be when it is complete, is cut in two at `a'.
Clean(b, a) ==
  /\ a \in 0 .. Len(b)
  /\ \A s \in Starts(b) : s < a =>
       \/ \E e \in Ends(b) : s < e /\ e <= a
       \/ s + RowCap < Len(b) /\ \A e \in Ends(b) : e <= s \/ s + RowCap + 1 < e

\* What a node says of its row is so.
Valid(b, n) ==
  /\ n.at < Confirmed(b) /\ Clean(b, n.at)
  /\ IF n.k \in {"oversized", "unreadable"} THEN n.at \notin ShownAts(b)
     ELSE \E row \in Rows(b) : /\ row.at = n.at
                               /\ n.k = ParsedKind(row.text) \/ (n.k = "done" /\ ParsedKind(row.text) = "call")

\* A node belongs to the range of rows that begins at `from'.
FitsFrom(b, n, from) == n.at >= from \/ NoEndIn(b, n.at, from)

-----------------------------------------------------------------------------
(* What there is, whatever its size                                        *)

AnyNode == [at : Nat, k : Kinds, ino : Nat]
Frames ==
  [f : {"hello"}, gen : Nat, from : Nat, truncatedBefore : BOOLEAN]
    \cup [f : {"rows"}, nodes : Seq(AnyNode), from : Nat]
    \cup [f : {"patch"}, ids : SUBSET Nat] \cup [f : {"reset", "gone"}]
Envelopes == [id : Nat, ver : Nat, frame : Frames]
Pages  == [nodes : Seq(AnyNode), removed : SUBSET Nat, from : Nat, to : Nat, truncatedBefore : BOOLEAN]
Stores == [gen : Nat, nodes : Seq(AnyNode), first : Nat, following : BOOLEAN,
           newBelow : Nat, truncatedBefore : BOOLEAN, ver : Nat]
Tails  == [offset : Nat, carry : Seq(Byte), ackOffset : Nat, inode : Nat,
           skipping : BOOLEAN, rowStart : Nat]

\* Every variable has its type. The bounds of TypeOK are those of a run.
Typed ==
  /\ file \in [ino : Nat, bytes : Seq(Byte)] /\ IsTranscript(file.bytes)
  /\ tail \in Tails /\ pending \subseteq AnyNode
  /\ seq \in Nat /\ lastSeq \in Nat /\ connections \in Nat
  /\ chan \in Seq(Envelopes)
  /\ conn \in {"waiting", "open", "ended"}
  /\ store \in Stores
  /\ DOMAIN request = Requests
  /\ \A r \in Requests : /\ DOMAIN request[r] = {"st", "raced", "page"}
                         /\ request[r].st = "asked" => request[r].page \in Pages
  /\ reloaded \in Nat

-----------------------------------------------------------------------------
(* The channel, the connection and the window, by name                     *)

Kind(j)   == chan[j].frame.f
IsRows(j) == Kind(j) = "rows"
Begins(j) == Kind(j) \in {"hello", "reset"}
Sent(j)   == ToSet(chan[j].frame.nodes)
UnderWay(v) == UNION {Sent(j) : j \in {i \in DOMAIN chan : IsRows(i) /\ chan[i].ver = v}}

\* The browser has had the hello of the connection that is open; the poller follows
\* the file that has the name; no answer and no late row has torn the window.
Synced == conn = "open" /\ store.gen = connections
Live   == conn = "open" /\ tail.inode = file.ino
Good   == "answer" \notin torn
Shown  == ShownAts(file.bytes)

-----------------------------------------------------------------------------
(* The parts of the invariant                                              *)

\* The segments of the stream: each begins with a hello or a reset and has a version of
\* its own.
Versions ==
  /\ conn # "waiting" => tail.inode >= 1 /\ (file.ino = 0 \/ tail.inode <= file.ino)
  /\ conn = "waiting" => chan = <<>>
  /\ \A i \in DOMAIN chan : 1 <= chan[i].ver /\ chan[i].ver <= tail.inode
  /\ \A i, j \in DOMAIN chan : i < j => chan[i].ver <= chan[j].ver /\ (Begins(j) => chan[i].ver < chan[j].ver)
  /\ \A j \in DOMAIN chan : Kind(j) = "hello" =>
        j = 1 /\ chan[j].frame.gen = connections /\ store.gen < connections
  /\ store.gen <= connections
  /\ conn = "open" /\ ~Synced => chan # <<>> /\ Kind(1) = "hello"
  /\ Synced => /\ store.ver <= tail.inode
               /\ \A j \in DOMAIN chan : store.ver <= chan[j].ver /\ (Begins(j) => store.ver < chan[j].ver)
  /\ conn = "open" => \A j \in DOMAIN chan : Kind(j) \in {"rows", "patch"} =>
        (Synced /\ chan[j].ver = store.ver) \/ \E i \in 1 .. j - 1 : Begins(i) /\ chan[i].ver = chan[j].ver
  /\ conn = "open" =>
        (Synced /\ store.ver = tail.inode) \/ \E i \in DOMAIN chan : Begins(i) /\ chan[i].ver = tail.inode
  /\ file.ino # 0 => store.ver <= file.ino

\* The tail of a poller stands at a place in the file it follows.
Follows(b, t) ==
  /\ t.offset <= Len(b) /\ Len(t.carry) <= t.offset
  /\ t.carry = SubSeq(b, t.offset - Len(t.carry) + 1, t.offset)
  /\ IF t.skipping
     THEN t.carry = <<>> /\ t.rowStart = t.ackOffset /\ t.ackOffset + RowCap < t.offset
     ELSE t.ackOffset = t.offset - Len(t.carry)
  /\ NoEndIn(b, t.ackOffset, t.offset)
  /\ Clean(b, t.ackOffset)

\* The poller stands at such a place and waits for results of calls that are there.
TailFits ==
  Live =>
    /\ Follows(file.bytes, tail)
    /\ \A c \in pending : c.k = "call" /\ c.at \in CallAts(file.bytes)

\* The rows of one segment are in file order, within a frame and from frame to frame,
\* and before the place the tail has passed.
InSequence ==
  /\ \A j \in DOMAIN chan : IsRows(j) =>
       /\ chan[j].frame.nodes # <<>>
       /\ \A i, k \in DOMAIN chan[j].frame.nodes : i < k => chan[j].frame.nodes[i].at <= chan[j].frame.nodes[k].at
       /\ \A n \in Sent(j) : n.ino = chan[j].ver /\ (chan[j].ver = tail.inode => n.at < tail.ackOffset)
  /\ \A i, j \in DOMAIN chan : i < j /\ IsRows(i) /\ IsRows(j) /\ chan[i].ver = chan[j].ver =>
       \A n \in Sent(i), m \in Sent(j) : n.at <= m.at

\* What is under way of the present file says of it what is so.
FramesValid ==
  \A j \in DOMAIN chan : chan[j].ver = file.ino =>
    /\ IsRows(j) => /\ Clean(file.bytes, chan[j].frame.from)
                    /\ \A n \in Sent(j) : Valid(file.bytes, n) /\ FitsFrom(file.bytes, n, chan[j].frame.from)
    /\ Kind(j) = "patch" => chan[j].frame.ids \subseteq CallAts(file.bytes)

\* A hello under way begins no later than the rows that follow it, and all that is shown
\* from its beginning to the tail is under way with it.
HelloFits ==
  chan # <<>> /\ Kind(1) = "hello" =>
    LET hello == chan[1].frame IN
    /\ \A n \in UnderWay(chan[1].ver) : n.at >= hello.from
    /\ chan[1].ver = tail.inode => hello.from <= tail.ackOffset
    /\ chan[1].ver = file.ino => Clean(file.bytes, hello.from)
    /\ Live /\ chan[1].ver = file.ino =>
         \A s \in Shown : hello.from <= s /\ s < tail.ackOffset => s \in Ats(UnderWay(file.ino))

\* A window that is empty takes its beginning from the first rows that come.
FirstFrames ==
  Live => \A j \in DOMAIN chan :
    /\ IsRows(j) /\ chan[j].ver = file.ino
    /\ \A i \in 1 .. j - 1 : ~(IsRows(i) /\ chan[i].ver = file.ino)
    /\ Synced /\ store.ver = file.ino => Good /\ store.nodes = <<>>
    => \A s \in Shown : chan[j].frame.from <= s /\ s < tail.ackOffset => s \in Ats(UnderWay(file.ino))

\* No two nodes of a list have one place, and they are in file order.
Ascends(nodes) == \A i, j \in DOMAIN nodes : i < j => nodes[i].at < nodes[j].at
InStore == ToSet(store.nodes)

\* The window, by itself and against the rows under way: those come after it, except
\* for those that the last reload of the tail has brought already.
WindowFits ==
  Good =>
    /\ Ascends(store.nodes)
    /\ \A m \in InStore : m.ino = store.ver
    /\ ~store.following => Len(store.nodes) >= WindowCap
    /\ store.newBelow > 0 => ~store.following
    /\ store.ver = 0 => store.nodes = <<>> /\ ~store.truncatedBefore
    /\ Synced /\ store.following =>
         \A n \in UnderWay(store.ver) : n.at < reloaded \/ \A m \in InStore : m.at <= n.at
    /\ Synced /\ store.ver = tail.inode =>
         \A m \in InStore : m.at < tail.ackOffset \/ m.at < reloaded
    /\ Synced /\ store.nodes = <<>> /\ store.truncatedBefore =>
         /\ \A n \in UnderWay(store.ver) : n.at >= store.first
         /\ store.ver = tail.inode => store.first <= tail.ackOffset

\* The window begins at a place it knows.
Anchored == store.nodes # <<>> \/ store.truncatedBefore

\* The window, against its file: its nodes are so; nothing that is shown is missing
\* between its beginning and any of its nodes; and while it follows the tail, nothing
\* between its beginning and the tail is missing both in it and under way.
WindowCovers ==
  Good /\ store.ver = file.ino /\ file.ino # 0 =>
    /\ \A m \in InStore : Valid(file.bytes, m) /\ FitsFrom(file.bytes, m, store.first)
    /\ \A s \in Shown, m \in InStore : store.first <= s /\ s <= m.at => s \in Held(store.nodes)
    /\ Anchored => Clean(file.bytes, store.first)
    /\ Synced /\ Live /\ store.following /\ Anchored =>
         \A s \in Shown : store.first <= s /\ s < tail.ackOffset =>
            s \in Held(store.nodes) \cup Ats(UnderWay(store.ver))

\* An answer is on its way that will be applied to the window it was asked for.
Open(r) == r \in Requests /\ request[r].st = "asked" /\ ~request[r].raced

\* A page of earlier rows ends where the window begins, and what it takes away as
\* repaired is an orphan.
EarlierFits ==
  Open("earlier") /\ Good =>
    LET p == request["earlier"].page IN
    /\ Ascends(p.nodes) /\ p.from <= store.first
    /\ \A n \in ToSet(p.nodes) : n.ino = store.ver /\ n.at < store.first /\ \A m \in InStore : n.at < m.at
    /\ store.truncatedBefore
    /\ p.nodes = <<>> => ~p.truncatedBefore /\ p.removed = {}
    /\ \A q, r \in p.removed : q = r
    /\ p.removed \cap Held(p.nodes) = {}
    /\ store.ver = file.ino /\ file.ino # 0 =>
         /\ \A n \in ToSet(p.nodes) : Valid(file.bytes, n) /\ n.at >= p.from
         /\ Clean(file.bytes, p.from)
         /\ p.removed \cap Shown = {} /\ \A q \in p.removed : q < Confirmed(file.bytes)
         /\ \A s \in Shown : p.from <= s /\ s < store.first => s \in Held(p.nodes)

\* The last page reaches beyond the window, and what the poller passes after it was
\* read is under way.
TailPageFits ==
  Open("tail") =>
    /\ store.newBelow > 0
    /\ Good =>
      LET p == request["tail"].page IN
      /\ Ascends(p.nodes) /\ p.nodes # <<>>
      /\ \A n \in ToSet(p.nodes) : n.ino = store.ver /\ n.at < p.to
      /\ \A m \in InStore : m.at < p.to
      /\ store.ver = file.ino /\ file.ino # 0 =>
           /\ \A n \in ToSet(p.nodes) : Valid(file.bytes, n) /\ n.at >= p.from
           /\ Clean(file.bytes, p.from) /\ Clean(file.bytes, p.to)
           /\ \A s \in Shown :
                /\ p.from <= s /\ s < p.to => s \in Held(p.nodes)
                /\ Synced /\ Live /\ p.to <= s /\ s < tail.ackOffset => s \in Ats(UnderWay(store.ver))

\* The inductive invariant: what is in the window, in the answers and in the frames are
\* parts of one file, and they leave nothing out between them.
IInv == /\ Typed /\ Versions /\ TailFits /\ InSequence /\ FramesValid /\ HelloFits /\ FirstFrames
        /\ WindowFits /\ WindowCovers /\ EarlierFits /\ TailPageFits
-----------------------------------------------------------------------------
(* A result is shown once                                                  *)

ResultAts(b) == {row.at : row \in {r \in Rows(b) : ParsedKind(r.text) = "result"}}

\* Nodes that tell of the result: as an orphan, or in its call; and not both ways.
Telling(S) == {n \in S : n.k \in {"result", "done"}}
OneForm(S) == ~ \E n, m \in S : n.k = "done" /\ m.k = "result"

\* A frame with the poller's word on the result.
Tells(j)   == Kind(j) = "patch" \/ (IsRows(j) /\ Telling(Sent(j)) # {})

\* The calls of a version for which a patch is under way or may yet be sent.
Due(v) ==
  (UNION {chan[j].frame.ids : j \in {i \in DOMAIN chan : Kind(i) = "patch" /\ chan[i].ver = v}})
    \cup {c \in CallAts(file.bytes) : /\ Live /\ v = file.ino
                                      /\ \E r \in ResultAts(file.bytes) : tail.ackOffset <= r}

\* The poller tells of the result once, in one form, and when it has passed it.
ToldOnce ==
  /\ \A i, j \in DOMAIN chan : Tells(i) /\ Tells(j) /\ chan[i].ver = chan[j].ver => i = j
  /\ \A j \in DOMAIN chan : IsRows(j) => OneForm(Sent(j))
  /\ Live => \A j \in DOMAIN chan : Tells(j) /\ chan[j].ver = file.ino =>
       \E r \in ResultAts(file.bytes) : r < tail.ackOffset

\* The nodes S, in a window that a page up to `end' was the last to replace, tell of the
\* result in one form, and neither a frame under way nor a later one that the window
\* will take adds the other.
Once(S, end, follows) ==
  /\ OneForm(S)
  /\ Synced /\ Telling(S) # {} =>
       /\ follows => \A n \in Telling(UnderWay(store.ver)) : n.at < end
       /\ Live /\ store.ver = file.ino =>
            \E r \in ResultAts(file.bytes) : r < tail.ackOffset \/ r < end
  /\ Synced /\ (\E m \in S : m.k = "result") =>
       \A c \in Due(store.ver) :
         /\ \A m \in S : m.at = c => m.k = "oversized"
         /\ follows => \A n \in UnderWay(store.ver) : n.at = c => n.at < end

Calm == torn \cap {"answer", "oversized"} = {}

\* The window, as it is and as the answers on their way will leave it.
Answered(p) == {m \in InStore : m.at \notin p.removed} \cup ToSet(p.nodes)
ShownOnce ==
  Calm =>
    /\ Once(InStore, reloaded, store.following)
    /\ Open("earlier") => Once(Answered(request["earlier"].page), reloaded, store.following)
    /\ Open("tail") => Once(ToSet(request["tail"].page.nodes), request["tail"].page.to, TRUE)

OInv == IInv /\ ToldOnce /\ ShownOnce
=============================================================================
