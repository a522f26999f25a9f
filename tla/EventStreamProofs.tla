------------------------- MODULE EventStreamProofs --------------------------
(***************************************************************************)
(* The browser's half, and the theorems: each frame and each answer that   *)
(* arrives keeps the invariant, and so the window is one range of the rows *)
(* of one file, for all sizes of rows, frames, pages and windows and for   *)
(* all numbers of writes, replaced files, lost connections and requests.   *)
(* The second half is about the one result and the call it completes: the  *)
(* poller tells of it once, and the window never shows it in both forms.   *)
(***************************************************************************)
EXTENDS EventStreamServerProofs

-----------------------------------------------------------------------------
(* A frame arrives                                                         *)

\* The first frame has left the channel and the poller has done nothing.
Popped ==
  /\ chan # <<>> /\ chan' = Tail(chan)
  /\ UNCHANGED <<file, tail, pending, seq, connections>>

\* The first frame leaves the channel, and the others move up.
LEMMA Pop ==
  ASSUME Typed, Popped
  PROVE  /\ chan' \in Seq(Envelopes) /\ Len(chan) \in Nat /\ Len(chan') \in Nat /\ Len(chan') = Len(chan) - 1
         /\ DOMAIN chan = 1 .. Len(chan) /\ DOMAIN chan' = 1 .. Len(chan')
         /\ 1 \in DOMAIN chan /\ chan[1] \in Envelopes /\ Head(chan) = chan[1]
         /\ \A k \in DOMAIN chan' : /\ k + 1 \in DOMAIN chan /\ k + 1 # 1 /\ chan'[k] = chan[k + 1]
                                    /\ Kind(k)' = Kind(k + 1) /\ IsRows(k)' = IsRows(k + 1)
                                    /\ Begins(k)' = Begins(k + 1) /\ Sent(k)' = Sent(k + 1)
         /\ \A k \in DOMAIN chan : k # 1 => k - 1 \in DOMAIN chan' /\ (k - 1) + 1 = k
         /\ \A v : UnderWay(v)' \subseteq UnderWay(v)
         /\ \A v : ~IsRows(1) \/ chan[1].ver # v => UnderWay(v)' = UnderWay(v)
         /\ \A v : \A n \in UnderWay(v) : n \in UnderWay(v)' \/ (IsRows(1) /\ chan[1].ver = v /\ n \in Sent(1))
         /\ \A v : \A n \in Sent(1) : IsRows(1) /\ chan[1].ver = v => n \in UnderWay(v)
<1>1. chan \in Seq(Envelopes) /\ chan # <<>> /\ chan' = Tail(chan)
  BY DEF Typed, Popped
<1>2. /\ chan' \in Seq(Envelopes) /\ Len(chan) \in Nat /\ Len(chan') \in Nat /\ Len(chan') = Len(chan) - 1
      /\ DOMAIN chan = 1 .. Len(chan) /\ DOMAIN chan' = 1 .. Len(chan')
      /\ 1 \in DOMAIN chan /\ chan[1] \in Envelopes /\ Head(chan) = chan[1]
  BY <1>1
<1>3. \A k \in DOMAIN chan' : k + 1 \in DOMAIN chan /\ k + 1 # 1 /\ chan'[k] = chan[k + 1]
  BY <1>1, <1>2
<1>4. \A k \in DOMAIN chan' : /\ Kind(k)' = Kind(k + 1) /\ IsRows(k)' = IsRows(k + 1)
                              /\ Begins(k)' = Begins(k + 1) /\ Sent(k)' = Sent(k + 1)
  BY <1>3 DEF Kind, IsRows, Begins, Sent
<1>5. \A k \in DOMAIN chan : k # 1 => k - 1 \in DOMAIN chan' /\ (k - 1) + 1 = k
  BY <1>2
<1>6. ASSUME NEW v, NEW n, n \in UnderWay(v)' PROVE n \in UnderWay(v)
  <2>1. PICK k \in DOMAIN chan' : IsRows(k)' /\ chan'[k].ver = v /\ n \in Sent(k)'
    BY <1>6 DEF UnderWay
  <2>2. k + 1 \in DOMAIN chan /\ IsRows(k + 1) /\ chan[k + 1].ver = v /\ n \in Sent(k + 1)
    BY <1>3, <1>4, <2>1
  <2>3. QED
    BY <2>2 DEF UnderWay
<1>7. ASSUME NEW v, NEW n, n \in UnderWay(v), ~(IsRows(1) /\ chan[1].ver = v /\ n \in Sent(1))
      PROVE  n \in UnderWay(v)'
  <2>1. PICK k \in DOMAIN chan : IsRows(k) /\ chan[k].ver = v /\ n \in Sent(k)
    BY <1>7 DEF UnderWay
  <2>2. k # 1
    BY <1>7, <2>1
  <2>3. PICK i \in DOMAIN chan' : i + 1 = k
    BY <1>5, <2>2
  <2>4. IsRows(i)' /\ chan'[i].ver = v /\ n \in Sent(i)'
    BY <1>3, <1>4, <2>1, <2>3
  <2>5. QED
    BY <2>4 DEF UnderWay
<1>8. \A v : ~IsRows(1) \/ chan[1].ver # v => UnderWay(v)' = UnderWay(v)
  BY <1>6, <1>7
<1>9. \A v : \A n \in UnderWay(v) : n \in UnderWay(v)' \/ (IsRows(1) /\ chan[1].ver = v /\ n \in Sent(1))
  BY <1>7
<1>10. \A v : \A n \in Sent(1) : IsRows(1) /\ chan[1].ver = v => n \in UnderWay(v)
  BY <1>2 DEF UnderWay
<1>11. \A v : UnderWay(v)' \subseteq UnderWay(v)
  BY <1>6
<1>12. QED
  BY <1>2, <1>3, <1>4, <1>5, <1>8, <1>9, <1>10, <1>11

\* The frames that are left fit as they did.
LEMMA PopKeeps ==
  ASSUME IInv, Popped
  PROVE  InSequence' /\ FramesValid' /\ HelloFits'
<1>1. Typed /\ Versions /\ InSequence /\ FramesValid
  BY DEF IInv
<1>2. UNCHANGED <<file, tail, pending, seq, connections>>
  BY DEF Popped
<1>3. /\ chan' \in Seq(Envelopes) /\ Len(chan) \in Nat /\ Len(chan') \in Nat
      /\ DOMAIN chan = 1 .. Len(chan) /\ DOMAIN chan' = 1 .. Len(chan')
      /\ \A k \in DOMAIN chan' : /\ k + 1 \in DOMAIN chan /\ k + 1 # 1 /\ chan'[k] = chan[k + 1]
                                 /\ Kind(k)' = Kind(k + 1) /\ IsRows(k)' = IsRows(k + 1)
                                 /\ Begins(k)' = Begins(k + 1) /\ Sent(k)' = Sent(k + 1)
  BY <1>1, Pop
<1>4. InSequence'
  <2>1. ASSUME NEW j \in DOMAIN chan', IsRows(j)'
        PROVE  /\ chan'[j].frame.nodes # <<>>
               /\ \A i, k \in DOMAIN chan'[j].frame.nodes : i < k => chan'[j].frame.nodes[i].at <= chan'[j].frame.nodes[k].at
               /\ \A n \in Sent(j)' : n.ino = chan'[j].ver /\ (chan'[j].ver = tail'.inode => n.at < tail'.ackOffset)
    <3>1. PICK z : z = j + 1
      OBVIOUS
    <3>2. z \in DOMAIN chan /\ IsRows(z) /\ chan'[j] = chan[z] /\ Sent(j)' = Sent(z)
      BY <1>3, <2>1, <3>1
    <3>3. QED
      BY <1>1, <1>2, <3>2 DEF InSequence
  <2>2. ASSUME NEW i \in DOMAIN chan', NEW j \in DOMAIN chan', i < j, IsRows(i)', IsRows(j)', chan'[i].ver = chan'[j].ver,
               NEW n \in Sent(i)', NEW m \in Sent(j)'
        PROVE  n.at <= m.at
    <3>1. PICK y, z : y = i + 1 /\ z = j + 1
      OBVIOUS
    <3>2. /\ y \in DOMAIN chan /\ IsRows(y) /\ chan[y] = chan'[i] /\ n \in Sent(y)
          /\ z \in DOMAIN chan /\ IsRows(z) /\ chan[z] = chan'[j] /\ m \in Sent(z) /\ y < z
      BY <1>3, <2>2, <3>1
    <3>3. QED
      BY <1>1, <2>2, <3>2 DEF InSequence
  <2>3. QED
    BY <2>1, <2>2 DEF InSequence
<1>5. FramesValid'
  BY <1>1, <1>2, <1>3 DEF FramesValid
<1>6. HelloFits'
  <2>1. chan' # <<>> => 1 \in DOMAIN chan'
    BY <1>3
  <2>2. chan' # <<>> => Kind(1)' # "hello"
    BY <1>1, <1>3, <2>1 DEF Versions
  <2>3. QED
    BY <2>2 DEF HelloFits
<1>7. QED
  BY <1>4, <1>5, <1>6

\* The version of the window after a frame: a hello and a reset bring a new one.
LEMMA PopVersions ==
  ASSUME IInv, Popped, conn = "open", conn' = "open", Begins(1) \/ Synced,
         store'.gen = connections, store'.ver = IF Begins(1) THEN chan[1].ver ELSE store.ver
  PROVE  Versions' /\ Synced'
<1>1. Typed /\ Versions
  BY DEF IInv
<1>2. UNCHANGED <<file, tail, connections>>
  BY DEF Popped
<1>3. /\ chan' \in Seq(Envelopes) /\ Len(chan) \in Nat /\ Len(chan') \in Nat
      /\ DOMAIN chan = 1 .. Len(chan) /\ DOMAIN chan' = 1 .. Len(chan') /\ 1 \in DOMAIN chan
      /\ \A k \in DOMAIN chan' : /\ k + 1 \in DOMAIN chan /\ k + 1 # 1 /\ chan'[k] = chan[k + 1]
                                 /\ Kind(k)' = Kind(k + 1) /\ IsRows(k)' = IsRows(k + 1)
                                 /\ Begins(k)' = Begins(k + 1) /\ Sent(k)' = Sent(k + 1)
      /\ \A k \in DOMAIN chan : k # 1 => k - 1 \in DOMAIN chan' /\ (k - 1) + 1 = k
  BY <1>1, Pop
<1>4. Synced'
  BY <1>2 DEF Synced
<1>5. /\ file.ino \in Nat /\ tail.inode \in Nat /\ store.ver \in Nat /\ connections \in Nat /\ store'.ver \in Nat
      /\ \A k \in DOMAIN chan : chan[k] \in Envelopes /\ chan[k].ver \in Nat
  <2>1. file.ino \in Nat /\ tail.inode \in Nat /\ store.ver \in Nat /\ connections \in Nat
    BY <1>1 DEF Typed, Tails, Stores
  <2>2. ASSUME NEW k \in DOMAIN chan PROVE chan[k] \in Envelopes /\ chan[k].ver \in Nat
    <3>1. chan \in Seq(Envelopes)
      BY <1>1 DEF Typed
    <3>2. chan[k] \in Envelopes
      BY <3>1
    <3>3. QED
      BY <3>2 DEF Envelopes
  <2>3. QED
    BY <1>3, <2>1, <2>2
<1>6. /\ tail.inode >= 1 /\ (file.ino = 0 \/ tail.inode <= file.ino)
      /\ \A i \in DOMAIN chan : 1 <= chan[i].ver /\ chan[i].ver <= tail.inode
      /\ \A i, j \in DOMAIN chan : i < j => chan[i].ver <= chan[j].ver /\ (Begins(j) => chan[i].ver < chan[j].ver)
      /\ \A j \in DOMAIN chan : Kind(j) = "hello" => j = 1
      /\ Synced => /\ store.ver <= tail.inode
                   /\ \A j \in DOMAIN chan : store.ver <= chan[j].ver /\ (Begins(j) => store.ver < chan[j].ver)
      /\ file.ino # 0 => store.ver <= file.ino
  BY <1>1 DEF Versions
<1>16. /\ \A j \in DOMAIN chan : Kind(j) \in {"rows", "patch"} =>
            (Synced /\ chan[j].ver = store.ver) \/ \E i \in 1 .. j - 1 : Begins(i) /\ chan[i].ver = chan[j].ver
       /\ (Synced /\ store.ver = tail.inode) \/ \E i \in DOMAIN chan : Begins(i) /\ chan[i].ver = tail.inode
  <2>1. conn = "open"
    OBVIOUS
  <2>2. QED
    BY <1>1, <2>1, Zenon DEF Versions
<1>7. \A i \in DOMAIN chan' : 1 <= chan'[i].ver /\ chan'[i].ver <= tail.inode
  BY <1>3, <1>6
<1>8. ASSUME NEW i \in DOMAIN chan', NEW j \in DOMAIN chan', i < j
      PROVE  chan'[i].ver <= chan'[j].ver /\ (Begins(j)' => chan'[i].ver < chan'[j].ver)
  <2>1. i + 1 < j + 1 /\ i + 1 \in DOMAIN chan /\ j + 1 \in DOMAIN chan
    BY <1>3, <1>8
  <2>2. QED
    BY <1>3, <1>6, <2>1
<1>9. \A j \in DOMAIN chan' : Kind(j)' # "hello"
  BY <1>3, <1>6
<1>10. store'.ver <= tail.inode /\ (file.ino # 0 => store'.ver <= file.ino)
  BY <1>3, <1>5, <1>6
<1>11. ASSUME NEW j \in DOMAIN chan' PROVE store'.ver <= chan'[j].ver /\ (Begins(j)' => store'.ver < chan'[j].ver)
  <2>1. 1 < j + 1 /\ j + 1 \in DOMAIN chan
    BY <1>3
  <2>2. QED
    BY <1>3, <1>6, <2>1
<1>12. ASSUME NEW j \in DOMAIN chan', Kind(j)' \in {"rows", "patch"}
       PROVE  chan'[j].ver = store'.ver \/ \E i \in 1 .. j - 1 : Begins(i)' /\ chan'[i].ver = chan'[j].ver
  <2>1. PICK z : z = j + 1
    OBVIOUS
  <2>2. z \in DOMAIN chan /\ chan'[j] = chan[z] /\ Kind(z) \in {"rows", "patch"} /\ 1 < z
    BY <1>3, <1>12, <2>1
  <2>3. CASE Synced /\ chan[z].ver = store.ver
    <3>1. ~Begins(1)
      <4>1. SUFFICES ASSUME Begins(1) PROVE FALSE
        OBVIOUS
      <4>2. store.ver < chan[1].ver
        BY <1>3, <1>6, <2>3, <4>1
      <4>3. chan[1].ver <= chan[z].ver
        BY <1>3, <1>6, <2>2
      <4>4. QED
        BY <1>3, <1>5, <2>2, <2>3, <4>2, <4>3
    <3>2. QED
      BY <2>2, <2>3, <3>1
  <2>4. CASE \E i \in 1 .. z - 1 : Begins(i) /\ chan[i].ver = chan[z].ver
    <3>1. PICK i \in 1 .. z - 1 : Begins(i) /\ chan[i].ver = chan[z].ver
      BY <2>4
    <3>2. CASE i = 1
      BY <2>2, <3>1, <3>2
    <3>3. CASE i # 1
      <4>1. i \in DOMAIN chan /\ i < z
        BY <1>3, <2>2, <3>1
      <4>2. PICK k \in DOMAIN chan' : k + 1 = i
        BY <1>3, <3>3, <4>1
      <4>3. k \in 1 .. j - 1 /\ Begins(k)' /\ chan'[k] = chan[i]
        BY <1>3, <2>1, <3>1, <4>1, <4>2
      <4>4. QED
        BY <2>2, <3>1, <4>3
    <3>4. QED
      BY <3>2, <3>3
  <2>5. QED
    <3>1. (Synced /\ chan[z].ver = store.ver) \/ \E i \in 1 .. z - 1 : Begins(i) /\ chan[i].ver = chan[z].ver
      <4>1. \A k \in DOMAIN chan : Kind(k) \in {"rows", "patch"} =>
              (Synced /\ chan[k].ver = store.ver) \/ \E i \in 1 .. k - 1 : Begins(i) /\ chan[i].ver = chan[k].ver
        BY <1>16
      <4>2. z \in DOMAIN chan /\ Kind(z) \in {"rows", "patch"}
        BY <2>2
      <4>3. QED
        BY <4>1, <4>2
    <3>2. QED
      BY <2>3, <2>4, <3>1
<1>13. store'.ver = tail.inode \/ \E i \in DOMAIN chan' : Begins(i)' /\ chan'[i].ver = tail.inode
  <2>1. CASE Synced /\ store.ver = tail.inode
    BY <1>3, <1>5, <1>6, <2>1
  <2>2. CASE \E i \in DOMAIN chan : Begins(i) /\ chan[i].ver = tail.inode
    <3>1. PICK i \in DOMAIN chan : Begins(i) /\ chan[i].ver = tail.inode
      BY <2>2
    <3>2. CASE i = 1
      BY <3>1, <3>2
    <3>3. CASE i # 1
      <4>1. PICK k \in DOMAIN chan' : k + 1 = i
        BY <1>3, <3>1, <3>3
      <4>2. Begins(k)' /\ chan'[k] = chan[i]
        BY <1>3, <3>1, <4>1
      <4>3. QED
        BY <3>1, <4>2
    <3>4. QED
      BY <3>2, <3>3
  <2>3. QED
    BY <1>16, <2>1, <2>2
<1>14. connections <= connections
  BY <1>5
<1>15. QED
  BY <1>2, <1>4, <1>6, <1>7, <1>8, <1>9, <1>10, <1>11, <1>12, <1>13, <1>14 DEF Versions

\* The store is replaced: no request that the new window outdates stays open.
LEMMA BecomesIs ==
  ASSUME Typed, NEW new, new \in Stores, Becomes(new)
  PROVE  /\ store' = new /\ DOMAIN request' = Requests
         /\ \A r \in Requests : /\ request'[r].st = "asked" => request'[r].page \in Pages
                                /\ Open(r)' => Open(r) /\ ~Outdated(r, new)
                                /\ request'[r].page = request[r].page
                                /\ DOMAIN request'[r] = {"st", "raced", "page"}
<1>1. /\ store' = new
      /\ request' = [r \in Requests |->
                       IF request[r].st = "asked" /\ Outdated(r, new)
                       THEN [request[r] EXCEPT !.raced = TRUE] ELSE request[r]]
  BY DEF Becomes
<1>2. \A r \in Requests : DOMAIN request[r] = {"st", "raced", "page"} /\ (request[r].st = "asked" => request[r].page \in Pages)
  BY DEF Typed
<1>3. ASSUME NEW r \in Requests
      PROVE  /\ request'[r].st = "asked" => request'[r].page \in Pages
             /\ Open(r)' => Open(r) /\ ~Outdated(r, new)
             /\ request'[r].page = request[r].page
             /\ DOMAIN request'[r] = {"st", "raced", "page"}
  <2>1. CASE request[r].st = "asked" /\ Outdated(r, new)
    <3>1. request'[r] = [request[r] EXCEPT !.raced = TRUE]
      BY <1>1, <2>1
    <3>2. request'[r].page = request[r].page
      BY <3>1
    <3>3. ~Open(r)'
      BY <1>2, <3>1 DEF Open
    <3>4. QED
      <4>1. DOMAIN request'[r] = {"st", "raced", "page"} /\ (request'[r].st = "asked" => request'[r].page \in Pages)
        BY <1>2, <2>1, <3>1, <3>2
      <4>2. QED
        BY <3>2, <3>3, <4>1
  <2>2. CASE ~(request[r].st = "asked" /\ Outdated(r, new))
    <3>1. request'[r] = request[r]
      BY <1>1, <2>2
    <3>2. QED
      BY <1>2, <2>2, <3>1 DEF Open
  <2>3. QED
    BY <2>1, <2>2
<1>4. QED
  BY <1>1, <1>3

\* What the first rows under way are to bring, after a frame that was not of them.
LEMMA PopFirstFrames ==
  ASSUME IInv, Popped, conn' = conn,
         Live => \/ Synced' /\ store'.ver = file.ino /\ ~(Good' /\ store'.nodes = <<>>)
                 \/ /\ ~(IsRows(1) /\ chan[1].ver = file.ino)
                    /\ Synced /\ store.ver = file.ino => Good /\ store.nodes = <<>>
  PROVE  FirstFrames'
<1>1. Typed /\ FirstFrames
  BY DEF IInv
<1>2. UNCHANGED <<file, tail, connections>>
  BY DEF Popped
<1>3. /\ Len(chan) \in Nat /\ Len(chan') \in Nat
      /\ DOMAIN chan = 1 .. Len(chan) /\ DOMAIN chan' = 1 .. Len(chan')
      /\ \A k \in DOMAIN chan' : k + 1 \in DOMAIN chan /\ chan'[k] = chan[k + 1] /\ IsRows(k)' = IsRows(k + 1)
      /\ \A k \in DOMAIN chan : k # 1 => k - 1 \in DOMAIN chan' /\ (k - 1) + 1 = k
      /\ \A v : ~IsRows(1) \/ chan[1].ver # v => UnderWay(v)' = UnderWay(v)
  BY <1>1, Pop
<1>4. PICK ino, ack : ino = file.ino /\ ack = tail.ackOffset
  OBVIOUS
<1>5. Live' = Live /\ Shown' = Shown
  BY <1>2 DEF Live, Shown
<1>6. SUFFICES ASSUME Live, NEW j \in DOMAIN chan', IsRows(j)', chan'[j].ver = ino,
                      \A i \in 1 .. j - 1 : ~(IsRows(i)' /\ chan'[i].ver = ino),
                      Synced' /\ store'.ver = ino => Good' /\ store'.nodes = <<>>,
                      NEW s \in Shown, chan'[j].frame.from <= s, s < ack
      PROVE  s \in Ats(UnderWay(ino))'
  BY <1>2, <1>4, <1>5 DEF FirstFrames
<1>7. ~(IsRows(1) /\ chan[1].ver = ino) /\ (Synced /\ store.ver = ino => Good /\ store.nodes = <<>>)
  BY <1>4, <1>6
<1>8. PICK z : z = j + 1
  OBVIOUS
<1>9. z \in DOMAIN chan /\ chan[z] = chan'[j] /\ IsRows(z)
  BY <1>3, <1>6, <1>8
<1>10. ASSUME NEW i \in 1 .. z - 1 PROVE ~(IsRows(i) /\ chan[i].ver = ino)
  <2>1. CASE i = 1
    BY <1>7, <2>1
  <2>2. CASE i # 1
    <3>1. i \in DOMAIN chan /\ i < z
      BY <1>3, <1>9
    <3>2. PICK k \in DOMAIN chan' : k + 1 = i
      BY <1>3, <2>2, <3>1
    <3>3. k \in 1 .. j - 1
      BY <1>3, <1>8, <3>1, <3>2
    <3>4. QED
      BY <1>3, <1>6, <3>2, <3>3
  <2>3. QED
    BY <2>1, <2>2
<1>11. s \in Ats(UnderWay(ino))
  BY <1>1, <1>4, <1>6, <1>7, <1>9, <1>10 DEF FirstFrames
<1>12. QED
  BY <1>3, <1>7, <1>11

\* A hello or a reset: the client begins a window of the version it is of.
Renewed(new, from, truncated) ==
  new = [gen |-> connections, nodes |-> <<>>, first |-> from, following |-> TRUE,
         newBelow |-> 0, truncatedBefore |-> truncated, ver |-> chan[1].ver]

-----------------------------------------------------------------------------
(* A window is replaced by an empty one                                    *)

\* A hello, a reset or the end of the file replaces the window by an empty one.
LEMMA RenewedKeeps ==
  ASSUME IInv, Popped, conn = "open", conn' = "open", Begins(1),
         NEW from \in Nat, NEW truncated \in BOOLEAN, NEW new, Renewed(new, from, truncated), Becomes(new),
         lastSeq' \in Nat, reloaded' = 0, torn' = {},
         truncated => /\ \A n \in UnderWay(chan[1].ver) : n.at >= from
                      /\ chan[1].ver = tail.inode => from <= tail.ackOffset
                      /\ chan[1].ver = file.ino => Clean(file.bytes, from)
                      /\ Live /\ chan[1].ver = file.ino =>
                           \A s \in Shown : from <= s /\ s < tail.ackOffset => s \in Ats(UnderWay(file.ino))
  PROVE  IInv'
<1>1. Typed /\ Versions /\ TailPageFits /\ FirstFrames /\ TailFits
  BY DEF IInv
<1>2. UNCHANGED <<file, tail, pending, seq, connections, conn>>
  BY DEF Popped
<1>3. /\ chan' \in Seq(Envelopes) /\ Len(chan) \in Nat /\ Len(chan') \in Nat
      /\ DOMAIN chan = 1 .. Len(chan) /\ DOMAIN chan' = 1 .. Len(chan')
      /\ 1 \in DOMAIN chan /\ chan[1] \in Envelopes
      /\ \A k \in DOMAIN chan' : /\ k + 1 \in DOMAIN chan /\ k + 1 # 1 /\ chan'[k] = chan[k + 1]
                                 /\ Kind(k)' = Kind(k + 1) /\ IsRows(k)' = IsRows(k + 1)
                                 /\ Begins(k)' = Begins(k + 1) /\ Sent(k)' = Sent(k + 1)
      /\ \A k \in DOMAIN chan : k # 1 => k - 1 \in DOMAIN chan' /\ (k - 1) + 1 = k
  BY <1>1, Pop
<1>4. ~IsRows(1)
  BY DEF Begins, IsRows
<1>5. \A v : UnderWay(v)' = UnderWay(v)
  BY <1>1, <1>4, Pop
<1>6. PICK ver, ino, ack : ver = chan[1].ver /\ ino = file.ino /\ ack = tail.ackOffset
  OBVIOUS
<1>7. /\ ver \in Nat /\ 1 <= ver /\ ver <= tail.inode /\ connections \in Nat /\ ino \in Nat /\ tail.inode \in Nat
      /\ store.ver \in Nat
      /\ Synced => store.ver < ver
  <2>1. ver \in Nat /\ connections \in Nat /\ ino \in Nat /\ tail.inode \in Nat /\ store.ver \in Nat
    BY <1>1, <1>3, <1>6 DEF Envelopes, Typed, Tails, Stores
  <2>2. 1 <= ver /\ ver <= tail.inode /\ (Synced => store.ver < ver)
    BY <1>1, <1>3, <1>6 DEF Versions
  <2>3. QED
    BY <2>1, <2>2
<1>8. /\ new.gen = connections /\ new.nodes = <<>> /\ new.first = from /\ new.following = TRUE
      /\ new.newBelow = 0 /\ new.truncatedBefore = truncated /\ new.ver = ver /\ new \in Stores
  BY <1>6, <1>7 DEF Renewed, Stores
<1>9. /\ store' = new /\ DOMAIN request' = Requests
      /\ \A r \in Requests : /\ request'[r].st = "asked" => request'[r].page \in Pages
                             /\ Open(r)' => Open(r) /\ ~Outdated(r, new)
                             /\ DOMAIN request'[r] = {"st", "raced", "page"}
  BY <1>1, <1>8, BecomesIs
<1>10. Good' /\ InStore' = {} /\ ToSet(store'.nodes) = {} /\ DOMAIN store'.nodes = {}
  BY <1>8, <1>9 DEF Good, InStore, ToSet
<1>11. Live' = Live /\ Shown' = Shown
  BY <1>2 DEF Live, Shown
<1>12. Typed'
  BY <1>1, <1>2, <1>3, <1>8, <1>9 DEF Typed
<1>13. Versions' /\ Synced'
  BY <1>6, <1>8, <1>9, PopVersions
<1>14. TailFits'
  BY <1>1, <1>2, TailFitsSame
<1>15. InSequence' /\ FramesValid' /\ HelloFits'
  BY PopKeeps
<1>16. FirstFrames'
  <2>1. Live => ~(Synced /\ store.ver = file.ino)
    BY <1>6, <1>7 DEF Live
  <2>2. QED
    BY <1>2, <1>4, <2>1, PopFirstFrames
<1>17. WindowFits'
  <2>1. UnderWay(ver)' = UnderWay(ver)
    BY <1>5
  <2>2. truncated => /\ \A n \in UnderWay(ver)' : n.at >= from
                     /\ ver = tail.inode => from <= ack
    BY <1>6, <2>1
  <2>3. Ascends(store'.nodes)
    BY <1>10 DEF Ascends
  <2>4. QED
    BY <1>2, <1>6, <1>7, <1>8, <1>9, <1>10, <2>2, <2>3 DEF WindowFits
<1>18. WindowCovers'
  <2>1. Anchored' => truncated
    BY <1>8, <1>9 DEF Anchored
  <2>2. UnderWay(ino)' = UnderWay(ino)
    BY <1>5
  <2>3. truncated /\ ver = ino => /\ Clean(file.bytes, from)
                                  /\ Live => \A s \in Shown : from <= s /\ s < ack => s \in Ats(UnderWay(ino))'
    BY <1>6, <2>2
  <2>4. QED
    BY <1>2, <1>6, <1>8, <1>9, <1>10, <1>11, <2>1, <2>3 DEF WindowCovers
<1>19. EarlierFits'
  <2>1. Open("earlier")' => "earlier" \in Requests
    BY DEF Open
  <2>2. ~Open("earlier")'
    BY <1>8, <1>9, <2>1 DEF Outdated
  <2>3. QED
    BY <2>2 DEF EarlierFits
<1>20. TailPageFits'
  <2>1. Open("tail")' => "tail" \in Requests
    BY DEF Open
  <2>2. Open("tail") => store.newBelow > 0
    BY <1>1 DEF TailPageFits
  <2>3. ~Open("tail")'
    <3>1. SUFFICES ASSUME Open("tail")' PROVE FALSE
      OBVIOUS
    <3>2. Open("tail") /\ ~Outdated("tail", new)
      BY <1>9, <2>1, <3>1
    <3>3. new.newBelow = store.newBelow
      BY <3>2 DEF Outdated
    <3>4. 0 > 0
      BY <1>8, <2>2, <3>2, <3>3
    <3>5. QED
      BY <3>4
  <2>4. QED
    BY <2>3 DEF TailPageFits
<1>21. QED
  BY <1>12, <1>13, <1>14, <1>15, <1>16, <1>17, <1>18, <1>19, <1>20 DEF IInv

\* The browser takes a frame of the kind it handles.
LEMMA TakeIs ==
  ASSUME Typed, NEW kind, Take(kind), Quiet
  PROVE  /\ Popped /\ conn = "open" /\ Kind(1) = kind /\ lastSeq' \in Nat
         /\ Head(chan) = chan[1] /\ chan[1] \in Envelopes
<1>1. Popped
  BY DEF Take, Quiet, Popped, server
<1>2. Head(chan) = chan[1] /\ chan[1] \in Envelopes
  BY <1>1, Pop
<1>3. QED
  BY <1>1, <1>2 DEF Take, Kind, Envelopes

\* A hello: an empty window, anchored where the rows that follow begin.
LEMMA ReceiveHelloKeeps ==
  ASSUME IInv, ReceiveHello
  PROVE  IInv'
<1>1. Typed /\ Versions /\ HelloFits
  BY DEF IInv
<1>2. Take("hello") /\ Quiet /\ reloaded' = 0 /\ torn' = {} /\ conn' = conn
  BY DEF ReceiveHello
<1>3. /\ Popped /\ conn = "open" /\ Kind(1) = "hello" /\ lastSeq' \in Nat
      /\ Head(chan) = chan[1] /\ chan[1] \in Envelopes
  BY <1>1, <1>2, TakeIs
<1>4. chan # <<>> /\ 1 \in DOMAIN chan
  BY <1>1, <1>3, Pop DEF Popped
<1>5. chan[1].frame.gen = connections /\ store.gen < connections /\ store.gen \in Nat /\ connections \in Nat
  BY <1>1, <1>3, <1>4 DEF Versions, Typed, Stores
<1>6. PICK from, truncated : from = chan[1].frame.from /\ truncated = chan[1].frame.truncatedBefore
  OBVIOUS
<1>7. from \in Nat /\ truncated \in BOOLEAN
  BY <1>3, <1>6 DEF Envelopes, Frames, Kind
<1>8. PICK new : new = [EmptyStore EXCEPT !.gen = chan[1].frame.gen, !.ver = chan[1].ver, !.first = from, !.truncatedBefore = truncated]
  OBVIOUS
<1>9. Becomes(new)
  <2>1. chan[1].frame.gen # store.gen
    BY <1>5
  <2>2. Becomes([[EmptyStore EXCEPT !.gen = chan[1].frame.gen, !.ver = chan[1].ver] EXCEPT !.first = chan[1].frame.from, !.truncatedBefore = chan[1].frame.truncatedBefore])
    BY <1>3, <2>1 DEF ReceiveHello
  <2>3. [[EmptyStore EXCEPT !.gen = chan[1].frame.gen, !.ver = chan[1].ver] EXCEPT !.first = chan[1].frame.from, !.truncatedBefore = chan[1].frame.truncatedBefore] = new
    BY <1>6, <1>8
  <2>4. QED
    BY <2>2, <2>3
<1>10. Renewed(new, from, truncated)
  BY <1>5, <1>8 DEF Renewed, EmptyStore
<1>11. Begins(1)
  BY <1>3 DEF Begins
<1>12. /\ \A n \in UnderWay(chan[1].ver) : n.at >= from
       /\ chan[1].ver = tail.inode => from <= tail.ackOffset
       /\ chan[1].ver = file.ino => Clean(file.bytes, from)
       /\ Live /\ chan[1].ver = file.ino =>
            \A s \in Shown : from <= s /\ s < tail.ackOffset => s \in Ats(UnderWay(file.ino))
  BY <1>1, <1>3, <1>4, <1>6 DEF HelloFits
<1>13. QED
  BY <1>2, <1>3, <1>7, <1>9, <1>10, <1>11, <1>12, RenewedKeeps

\* A reset: an empty window of another file.
LEMMA ReceiveResetKeeps ==
  ASSUME IInv, ReceiveReset
  PROVE  IInv'
<1>1. Typed /\ Versions
  BY DEF IInv
<1>2. Take("reset") /\ Quiet /\ reloaded' = 0 /\ torn' = {} /\ conn' = conn
  BY DEF ReceiveReset
<1>3. /\ Popped /\ conn = "open" /\ Kind(1) = "reset" /\ lastSeq' \in Nat
      /\ Head(chan) = chan[1] /\ chan[1] \in Envelopes
  BY <1>1, <1>2, TakeIs
<1>4. Synced
  BY <1>1, <1>3 DEF Versions
<1>5. PICK new : new = [EmptyStore EXCEPT !.gen = store.gen, !.ver = chan[1].ver]
  OBVIOUS
<1>6. Becomes(new)
  BY <1>3, <1>5 DEF ReceiveReset
<1>7. Renewed(new, 0, FALSE)
  BY <1>4, <1>5 DEF Renewed, EmptyStore, Synced
<1>8. Begins(1)
  BY <1>3 DEF Begins
<1>9. QED
  BY <1>2, <1>3, <1>6, <1>7, <1>8, RenewedKeeps

\* The file is gone: the window is as it was, or empty.
LEMMA ReceiveGoneKeeps ==
  ASSUME IInv, ReceiveGone
  PROVE  IInv'
<1>1. Typed /\ Versions
  BY DEF IInv
<1>2. Take("gone") /\ Quiet /\ conn' = "ended" /\ UNCHANGED <<store, request, reloaded, torn>>
  BY DEF ReceiveGone, history
<1>3. Popped /\ conn = "open" /\ Kind(1) = "gone" /\ lastSeq' \in Nat
  BY <1>1, <1>2, TakeIs
<1>4. UNCHANGED <<file, tail, pending, seq, connections, store, request, reloaded, torn>>
  BY <1>2, <1>3 DEF Popped
<1>5. /\ chan' \in Seq(Envelopes) /\ Len(chan) \in Nat /\ Len(chan') \in Nat
      /\ DOMAIN chan = 1 .. Len(chan) /\ DOMAIN chan' = 1 .. Len(chan')
      /\ \A k \in DOMAIN chan' : /\ k + 1 \in DOMAIN chan /\ k + 1 # 1 /\ chan'[k] = chan[k + 1]
                                 /\ Kind(k)' = Kind(k + 1) /\ Begins(k)' = Begins(k + 1)
  BY <1>1, <1>3, Pop
<1>6. ~Synced' /\ ~Live'
  BY <1>2 DEF Synced, Live
<1>7. Typed'
  BY <1>1, <1>2, <1>3, <1>4, <1>5 DEF Typed
<1>8. Versions'
  <2>1. \A i \in DOMAIN chan' : 1 <= chan'[i].ver /\ chan'[i].ver <= tail.inode
    BY <1>1, <1>5 DEF Versions
  <2>2. ASSUME NEW i \in DOMAIN chan', NEW j \in DOMAIN chan', i < j
        PROVE  chan'[i].ver <= chan'[j].ver /\ (Begins(j)' => chan'[i].ver < chan'[j].ver)
    <3>1. i + 1 < j + 1 /\ i + 1 \in DOMAIN chan /\ j + 1 \in DOMAIN chan
      BY <1>5, <2>2
    <3>2. QED
      BY <1>1, <1>5, <3>1 DEF Versions
  <2>3. \A j \in DOMAIN chan' : Kind(j)' # "hello"
    BY <1>1, <1>5 DEF Versions
  <2>4. /\ tail.inode >= 1 /\ (file.ino = 0 \/ tail.inode <= file.ino)
        /\ store.gen <= connections /\ (file.ino # 0 => store.ver <= file.ino)
    BY <1>1, <1>3 DEF Versions
  <2>5. QED
    BY <1>2, <1>4, <1>6, <2>1, <2>2, <2>3, <2>4 DEF Versions
<1>9. TailFits' /\ FirstFrames'
  BY <1>6 DEF TailFits, FirstFrames
<1>10. InSequence' /\ FramesValid' /\ HelloFits'
  BY <1>3, PopKeeps
<1>11. WindowFits'
  BY <1>4, <1>6 DEF IInv, WindowFits, Good, InStore
<1>12. WindowCovers'
  BY <1>4, <1>6 DEF IInv, WindowCovers, Good, InStore, Anchored, Shown
<1>13. EarlierFits'
  BY <1>4, EarlierFitsSame DEF IInv
<1>14. TailPageFits'
  BY <1>4, <1>6 DEF IInv, TailPageFits, Good, InStore, Shown, Open
<1>15. QED
  BY <1>7, <1>8, <1>9, <1>10, <1>11, <1>12, <1>13, <1>14 DEF IInv

\* The nodes of a sequence, each with the result it may have been given.
PatchedBy(nodes, ids, new) == new = [j \in DOMAIN nodes |-> Complete(nodes[j], ids)]

-----------------------------------------------------------------------------
(* A result is patched into its call                                       *)

\* A patch changes what nodes say, never where they are.
LEMMA PatchedIs ==
  ASSUME NEW b \in Seq(Byte), NEW nodes \in Seq(AnyNode), NEW ids, NEW new, PatchedBy(nodes, ids, new)
  PROVE  /\ new \in Seq(AnyNode) /\ DOMAIN new = DOMAIN nodes /\ Len(new) = Len(nodes)
         /\ new = <<>> <=> nodes = <<>>
         /\ \A j \in DOMAIN nodes : new[j].at = nodes[j].at
         /\ Held(new) = Held(nodes)
         /\ \A m \in ToSet(new) : \E n \in ToSet(nodes) :
              /\ m.at = n.at /\ m.ino = n.ino
              /\ ids \subseteq CallAts(b) /\ Valid(b, n) => Valid(b, m)
              /\ \A a : FitsFrom(b, n, a) => FitsFrom(b, m, a)
         /\ \A n \in ToSet(nodes) : \E m \in ToSet(new) : m.at = n.at /\ m.ino = n.ino
<1>1. new = [j \in DOMAIN nodes |-> Complete(nodes[j], ids)]
  BY DEF PatchedBy
<1>2. \A j \in DOMAIN nodes : nodes[j] \in AnyNode
  OBVIOUS
<1>3. ASSUME NEW j \in DOMAIN nodes
      PROVE  /\ new[j] \in AnyNode /\ new[j].at = nodes[j].at /\ new[j].ino = nodes[j].ino
             /\ ids \subseteq CallAts(b) /\ Valid(b, nodes[j]) => Valid(b, new[j])
             /\ \A a : FitsFrom(b, nodes[j], a) => FitsFrom(b, new[j], a)
  <2>1. PICK n, m : n \in AnyNode /\ n = nodes[j] /\ m = Complete(n, ids)
    BY <1>2
  <2>2. new[j] = m
    BY <1>1, <2>1
  <2>3. /\ m \in AnyNode /\ m.at = n.at /\ m.ino = n.ino
        /\ ids \subseteq CallAts(b) /\ Valid(b, n) => Valid(b, m)
        /\ \A a : FitsFrom(b, n, a) => FitsFrom(b, m, a)
    BY <2>1, CompleteIs
  <2>4. QED
    BY <2>1, <2>2, <2>3
<1>4. DOMAIN new = 1 .. Len(nodes) /\ DOMAIN nodes = 1 .. Len(nodes) /\ Len(nodes) \in Nat
  BY <1>1
<1>5. new \in Seq(AnyNode) /\ Len(new) = Len(nodes)
  <2>1. new \in [1 .. Len(nodes) -> AnyNode]
    BY <1>1, <1>3, <1>4
  <2>2. QED
    BY <1>4, <2>1
<1>6. new = <<>> <=> nodes = <<>>
  BY <1>4, <1>5
<1>7. /\ \A m \in ToSet(new) : \E j \in DOMAIN nodes : m = new[j]
      /\ \A n \in ToSet(nodes) : \E j \in DOMAIN nodes : n = nodes[j]
      /\ \A j \in DOMAIN nodes : new[j] \in ToSet(new) /\ nodes[j] \in ToSet(nodes)
  BY <1>4 DEF ToSet
<1>8. Held(new) = Held(nodes)
  <2>1. \A x \in Held(new) : x \in Held(nodes)
    BY <1>3, <1>7 DEF Held
  <2>2. \A x \in Held(nodes) : x \in Held(new)
    BY <1>3, <1>7 DEF Held
  <2>3. QED
    BY <2>1, <2>2
<1>9. ASSUME NEW m \in ToSet(new)
      PROVE  \E n \in ToSet(nodes) :
               /\ m.at = n.at /\ m.ino = n.ino
               /\ ids \subseteq CallAts(b) /\ Valid(b, n) => Valid(b, m)
               /\ \A a : FitsFrom(b, n, a) => FitsFrom(b, m, a)
  <2>1. PICK j \in DOMAIN nodes : m = new[j]
    BY <1>7
  <2>2. QED
    BY <1>3, <1>7, <2>1
<1>10. \A n \in ToSet(nodes) : \E m \in ToSet(new) : m.at = n.at /\ m.ino = n.ino
  BY <1>3, <1>7
<1>11. QED
  BY <1>3, <1>4, <1>5, <1>6, <1>8, <1>9, <1>10

\* A patch: calls of the window become done ones.
LEMMA ReceivePatchKeeps ==
  ASSUME IInv, ReceivePatch
  PROVE  IInv'
<1>1. Typed /\ Versions /\ TailFits /\ FramesValid
  BY DEF IInv
<1>2. Take("patch") /\ Quiet /\ conn' = conn /\ reloaded' = reloaded
  BY DEF ReceivePatch
<1>3. /\ Popped /\ conn = "open" /\ Kind(1) = "patch" /\ lastSeq' \in Nat
      /\ Head(chan) = chan[1] /\ chan[1] \in Envelopes
  BY <1>1, <1>2, TakeIs
<1>4. UNCHANGED <<file, tail, pending, seq, connections, conn, reloaded>>
  BY <1>2, <1>3 DEF Popped
<1>5. /\ chan' \in Seq(Envelopes) /\ 1 \in DOMAIN chan /\ ~IsRows(1) /\ ~Begins(1)
      /\ \A v : UnderWay(v)' = UnderWay(v)
  BY <1>1, <1>3, Pop DEF IsRows, Begins
<1>6. Synced /\ chan[1].ver = store.ver
  <2>1. Synced
    BY <1>1, <1>3 DEF Versions
  <2>2. chan[1].ver = store.ver \/ \E i \in 1 .. 1 - 1 : Begins(i) /\ chan[i].ver = chan[1].ver
    BY <1>1, <1>3, <1>5 DEF Versions
  <2>3. QED
    BY <2>1, <2>2
<1>7. PICK ids, old, b : ids = chan[1].frame.ids /\ old = store.nodes /\ b = file.bytes
  OBVIOUS
<1>8. PICK nodes : PatchedBy(old, ids, nodes)
  BY DEF PatchedBy
<1>9. PICK new : new = [store EXCEPT !.nodes = nodes]
  OBVIOUS
<1>10. Becomes(new)
  BY <1>3, <1>7, <1>8, <1>9 DEF ReceivePatch, PatchedBy
<1>11. old \in Seq(AnyNode) /\ b \in Seq(Byte) /\ store \in Stores
  BY <1>1, <1>7 DEF Typed, Stores
<1>12. /\ nodes \in Seq(AnyNode) /\ DOMAIN nodes = DOMAIN old /\ Len(nodes) = Len(old)
       /\ nodes = <<>> <=> old = <<>>
       /\ \A j \in DOMAIN old : nodes[j].at = old[j].at
       /\ Held(nodes) = Held(old)
       /\ \A m \in ToSet(nodes) : \E n \in ToSet(old) :
            /\ m.at = n.at /\ m.ino = n.ino
            /\ ids \subseteq CallAts(b) /\ Valid(b, n) => Valid(b, m)
            /\ \A a : FitsFrom(b, n, a) => FitsFrom(b, m, a)
  BY <1>8, <1>11, PatchedIs
<1>13. /\ new \in Stores /\ new.gen = store.gen /\ new.first = store.first /\ new.following = store.following
       /\ new.newBelow = store.newBelow /\ new.truncatedBefore = store.truncatedBefore /\ new.ver = store.ver
       /\ new.nodes = nodes
  BY <1>9, <1>11, <1>12 DEF Stores
<1>14. /\ store' = new /\ DOMAIN request' = Requests
       /\ \A r \in Requests : /\ request'[r].st = "asked" => request'[r].page \in Pages
                              /\ Open(r)' => Open(r) /\ ~Outdated(r, new)
                              /\ request'[r].page = request[r].page
                              /\ DOMAIN request'[r] = {"st", "raced", "page"}
  BY <1>1, <1>10, <1>13, BecomesIs
<1>15. Good' = Good
  <2>1. \A x \in {n.k : n \in {m \in ToSet(store.nodes) : m.at \in Head(chan).frame.ids /\ m.k = "oversized"}} : x = "oversized"
    OBVIOUS
  <2>2. PICK A, B : /\ A = IF Head(chan).frame.ids \subseteq Held(store.nodes) THEN {} ELSE {"patch"}
                    /\ B = {n.k : n \in {m \in ToSet(store.nodes) : m.at \in Head(chan).frame.ids /\ m.k = "oversized"}}
    OBVIOUS
  <2>3. torn' = torn \cup A \cup B
    BY <2>2 DEF ReceivePatch
  <2>4. "answer" \notin A /\ "answer" \notin B
    BY <2>1, <2>2
  <2>5. QED
    BY <2>3, <2>4 DEF Good
<1>16. Live' = Live /\ Shown' = Shown /\ Synced' = Synced /\ (Anchored' <=> Anchored)
  BY <1>4, <1>7, <1>12, <1>13, <1>14 DEF Live, Shown, Synced, Anchored
<1>17. /\ InStore = ToSet(old) /\ InStore' = ToSet(nodes)
       /\ \A m \in InStore' : \E n \in InStore : m.at = n.at /\ m.ino = n.ino
  BY <1>7, <1>12, <1>13, <1>14 DEF InStore
<1>18. Typed'
  BY <1>1, <1>3, <1>4, <1>5, <1>13, <1>14 DEF Typed
<1>19. Versions'
  <2>1. store'.gen = connections
    BY <1>6, <1>13, <1>14 DEF Synced
  <2>2. QED
    BY <1>3, <1>4, <1>5, <1>6, <1>13, <1>14, <2>1, PopVersions
<1>20. TailFits'
  BY <1>1, <1>4, TailFitsSame
<1>21. InSequence' /\ FramesValid' /\ HelloFits'
  BY <1>3, PopKeeps
<1>22. FirstFrames'
  <2>1. \/ Synced' /\ store'.ver = file.ino /\ ~(Good' /\ store'.nodes = <<>>)
        \/ /\ ~(IsRows(1) /\ chan[1].ver = file.ino)
           /\ Synced /\ store.ver = file.ino => Good /\ store.nodes = <<>>
    BY <1>5, <1>7, <1>12, <1>13, <1>14, <1>15, <1>16
  <2>2. QED
    BY <1>3, <1>4, <2>1, PopFirstFrames
<1>23. PICK v : v = store.ver
  OBVIOUS
<1>24. UnderWay(v)' = UnderWay(v)
  BY <1>5
<1>25. WindowFits'
  <2>1. SUFFICES ASSUME Good PROVE WindowFits'
    BY <1>15 DEF WindowFits
  <2>2. /\ Ascends(store.nodes)
        /\ \A m \in InStore : m.ino = store.ver
        /\ ~store.following => Len(store.nodes) >= WindowCap
        /\ store.newBelow > 0 => ~store.following
        /\ store.ver = 0 => store.nodes = <<>> /\ ~store.truncatedBefore
        /\ Synced /\ store.following => \A n \in UnderWay(v) : n.at < reloaded \/ \A m \in InStore : m.at <= n.at
        /\ Synced /\ store.ver = tail.inode => \A m \in InStore : m.at < tail.ackOffset \/ m.at < reloaded
        /\ Synced /\ store.nodes = <<>> /\ store.truncatedBefore =>
             /\ \A n \in UnderWay(v) : n.at >= store.first
             /\ store.ver = tail.inode => store.first <= tail.ackOffset
    BY <1>23, <2>1 DEF IInv, WindowFits
  <2>3. Ascends(nodes)
    BY <1>7, <1>12, <2>2 DEF Ascends
  <2>4. /\ \A m \in InStore' : m.ino = store.ver
        /\ Synced /\ store.following => \A n \in UnderWay(v) : n.at < reloaded \/ \A m \in InStore' : m.at <= n.at
        /\ Synced /\ store.ver = tail.inode => \A m \in InStore' : m.at < tail.ackOffset \/ m.at < reloaded
    BY <1>17, <2>2
  <2>5. QED
    BY <1>4, <1>7, <1>12, <1>13, <1>14, <1>16, <1>23, <1>24, <2>2, <2>3, <2>4 DEF WindowFits
<1>26. ids \subseteq CallAts(b) \/ store.ver # file.ino
  BY <1>1, <1>3, <1>5, <1>6, <1>7 DEF FramesValid
<1>27. WindowCovers'
  <2>1. SUFFICES ASSUME Good, store.ver = file.ino, file.ino # 0 PROVE WindowCovers'
    BY <1>4, <1>13, <1>14, <1>15 DEF WindowCovers
  <2>2. /\ \A m \in InStore : Valid(b, m) /\ FitsFrom(b, m, store.first)
        /\ \A s \in Shown, m \in InStore : store.first <= s /\ s <= m.at => s \in Held(old)
        /\ Anchored => Clean(b, store.first)
        /\ Synced /\ Live /\ store.following /\ Anchored =>
             \A s \in Shown : store.first <= s /\ s < tail.ackOffset => s \in Held(old) \cup Ats(UnderWay(v))
    BY <1>7, <1>23, <2>1 DEF IInv, WindowCovers
  <2>3. \A m \in InStore' : Valid(b, m) /\ FitsFrom(b, m, store.first)
    BY <1>12, <1>17, <1>26, <2>1, <2>2
  <2>4. \A s \in Shown, m \in InStore' : store.first <= s /\ s <= m.at => s \in Held(nodes)
    BY <1>12, <1>17, <2>2
  <2>5. QED
    BY <1>4, <1>7, <1>12, <1>13, <1>14, <1>16, <1>23, <1>24, <2>2, <2>3, <2>4 DEF WindowCovers
<1>28. EarlierFits'
  <2>1. SUFFICES ASSUME Open("earlier"), Good, request'["earlier"].page = request["earlier"].page PROVE EarlierFits'
    <3>1. Open("earlier")' => "earlier" \in Requests
      BY DEF Open
    <3>2. QED
      BY <1>14, <1>15, <3>1 DEF EarlierFits
  <2>2. PICK p : p = request["earlier"].page
    OBVIOUS
  <2>3. /\ Ascends(p.nodes) /\ p.from <= store.first
        /\ \A n \in ToSet(p.nodes) : n.ino = store.ver /\ n.at < store.first /\ \A m \in InStore : n.at < m.at
        /\ store.truncatedBefore
        /\ p.nodes = <<>> => ~p.truncatedBefore /\ p.removed = {}
        /\ \A q, r \in p.removed : q = r
        /\ p.removed \cap Held(p.nodes) = {}
        /\ store.ver = file.ino /\ file.ino # 0 =>
             /\ \A n \in ToSet(p.nodes) : Valid(file.bytes, n) /\ n.at >= p.from
             /\ Clean(file.bytes, p.from)
             /\ p.removed \cap Shown = {} /\ \A q \in p.removed : q < Confirmed(file.bytes)
             /\ \A s \in Shown : p.from <= s /\ s < store.first => s \in Held(p.nodes)
    BY <2>1, <2>2 DEF IInv, EarlierFits
  <2>4. \A n \in ToSet(p.nodes) : n.ino = store.ver /\ n.at < store.first /\ \A m \in InStore' : n.at < m.at
    BY <1>17, <2>3
  <2>5. QED
    BY <1>4, <1>13, <1>14, <1>16, <2>1, <2>2, <2>3, <2>4 DEF EarlierFits
<1>29. TailPageFits'
  <2>1. SUFFICES ASSUME Open("tail"), ~Outdated("tail", new), request'["tail"].page = request["tail"].page
                 PROVE  TailPageFits'
    <3>1. Open("tail")' => "tail" \in Requests
      BY DEF Open
    <3>2. QED
      BY <1>14, <3>1 DEF TailPageFits
  <2>2. nodes = store.nodes
    BY <1>13, <2>1 DEF Outdated
  <2>3. InStore' = InStore
    BY <1>7, <1>17, <2>2
  <2>4. QED
    BY <1>4, <1>13, <1>14, <1>15, <1>16, <1>23, <1>24, <2>1, <2>3 DEF IInv, TailPageFits
<1>30. QED
  BY <1>18, <1>19, <1>20, <1>21, <1>22, <1>25, <1>27, <1>28, <1>29 DEF IInv

-----------------------------------------------------------------------------
(* Requests for rows                                                       *)

\* An answer that has been asked for is a page of the file, and the other request is as it was.
Asks(r, before, wanted) ==
  /\ r \in Requests /\ file.ino # 0 /\ PageOf(file.bytes, before, file.ino, request'[r].page)
  /\ PageTells(file.bytes, file.ino, wanted, request'[r].page)
  /\ Open(r)' => store.ver = file.ino
  /\ \A q : q # r => Open(q)' = Open(q) /\ (q \in Requests => request'[q] = request[q])

\* What asking leaves alone, and what it puts on its way.
LEMMA AskIs ==
  ASSUME IInv, NEW r, NEW before \in Nat, NEW wanted, Ask(r, before, wanted)
  PROVE  /\ UNCHANGED <<file, tail, pending, seq, lastSeq, connections, chan, conn, store, reloaded, torn>>
         /\ Asks(r, before, wanted)
         /\ Typed' /\ Versions' /\ TailFits' /\ InSequence' /\ FramesValid' /\ HelloFits' /\ FirstFrames'
         /\ WindowFits' /\ WindowCovers'
<1>1. /\ UNCHANGED <<file, tail, pending, seq, lastSeq, connections, chan, conn, store, reloaded, torn>>
      /\ r \in Requests /\ file.ino # 0 /\ before <= Len(file.bytes)
      /\ request' = [request EXCEPT ![r] = [st |-> "asked", raced |-> file.ino # store.ver, page |-> ApiRows(before, wanted)]]
  BY DEF Ask, server, client, history
<1>2. Typed
  BY DEF IInv
<1>3. PICK b, ino, p : b = file.bytes /\ ino = file.ino /\ p = ApiRows(before, wanted)
  OBVIOUS
<1>4. DOMAIN request = Requests /\ ino \in Nat /\ b \in Seq(Byte) /\ IsTranscript(b)
  BY <1>2, <1>3 DEF Typed
<1>5. /\ DOMAIN request' = Requests
      /\ request'[r] = [st |-> "asked", raced |-> file.ino # store.ver, page |-> p]
      /\ \A q \in Requests : q # r => request'[q] = request[q]
  BY <1>1, <1>3, <1>4
<1>6. /\ request'[r].page = p /\ DOMAIN request'[r] = {"st", "raced", "page"}
      /\ request'[r].raced = (file.ino # store.ver)
  BY <1>5
<1>7. PageOf(b, before, ino, p) /\ PageTells(b, ino, wanted, p)
  BY <1>1, <1>3, <1>4, AnswerIs, AnswerTells DEF Asked
<1>8. p \in Pages
  BY <1>7 DEF PageOf
<1>9. Typed'
  <2>1. \A q \in Requests : /\ DOMAIN request'[q] = {"st", "raced", "page"}
                            /\ request'[q].st = "asked" => request'[q].page \in Pages
    BY <1>2, <1>5, <1>6, <1>8 DEF Typed
  <2>2. QED
    BY <1>1, <1>2, <1>5, <2>1 DEF Typed
<1>10. Open(r)' => store.ver = file.ino
  BY <1>6 DEF Open
<1>11. \A q : q # r => Open(q)' = Open(q) /\ (q \in Requests => request'[q] = request[q])
  BY <1>5 DEF Open
<1>12. Versions' /\ TailFits' /\ InSequence' /\ FramesValid' /\ HelloFits' /\ FirstFrames' /\ WindowFits' /\ WindowCovers'
  BY <1>1, VersionsSame, TailFitsSame, InSequenceSame, FramesValidSame, HelloFitsSame, FirstFramesSame,
     WindowFitsSame, WindowCoversSame DEF IInv
<1>13. Asks(r, before, wanted)
  BY <1>1, <1>3, <1>6, <1>7, <1>10, <1>11 DEF Asks
<1>14. QED
  BY <1>1, <1>9, <1>12, <1>13

\* The rows before a place that no shown row spans are all in the page.
LEMMA PageCovers ==
  ASSUME NEW b \in Seq(Byte), NEW before \in Nat, NEW ino, NEW p, PageOf(b, before, ino, p)
  PROVE  /\ p.from \in Nat /\ p.to \in Nat /\ p.from <= p.to /\ p.to <= before
         /\ Clean(b, p.from) /\ Clean(b, p.to)
         /\ \A n \in ToSet(p.nodes) : n \in AnyNode /\ n.ino = ino /\ Valid(b, n) /\ n.at >= p.from /\ n.at < p.to
         /\ \A s \in ShownAts(b) : p.from <= s /\ s < p.to => s \in Held(p.nodes)
         /\ \A s \in ShownAts(b) : Clean(b, before) /\ s < before => s < p.to
         /\ \A n \in AnyNode : p.to = 0 \/ FitsFrom(b, n, before) => p.to <= n.at
         /\ p.removed \cap Held(p.nodes) = {}
<1>1. /\ p \in Pages /\ NodesOf(b, p.from, p.to, ino, ToSet(p.nodes))
      /\ p.from \in Starts(b) /\ p.to \in Starts(b) /\ NoEndIn(b, p.to, before)
      /\ p.from <= p.to /\ p.to <= before
      /\ \A s \in p.removed : p.to <= s
  BY DEF PageOf
<1>2. p.from \in Nat /\ p.to \in Nat /\ p.removed \subseteq Nat /\ (p.to = 0 \/ p.to \in Ends(b))
  BY <1>1 DEF Pages, Starts
<1>3. Clean(b, p.from) /\ Clean(b, p.to)
  BY <1>1, StartIsClean
<1>4. /\ \A n \in ToSet(p.nodes) : n \in AnyNode /\ n.ino = ino /\ Valid(b, n) /\ n.at >= p.from /\ n.at < p.to
      /\ \A s \in ShownAts(b) : p.from <= s /\ s < p.to => s \in Held(p.nodes)
  BY <1>1, HeldIs DEF NodesOf
<1>5. ShownAts(b) \subseteq Nat
  BY AtsNat
<1>6. ASSUME NEW s \in ShownAts(b), Clean(b, before), s < before PROVE s < p.to
  BY <1>1, <1>2, <1>6, CleanCut
<1>7. ASSUME NEW n \in AnyNode, p.to = 0 \/ FitsFrom(b, n, before) PROVE p.to <= n.at
  <2>1. n.at \in Nat
    BY DEF AnyNode
  <2>2. QED
    BY <1>1, <1>2, <1>7, <2>1 DEF FitsFrom, NoEndIn
<1>8. p.removed \cap Held(p.nodes) = {}
  BY <1>1, <1>2, <1>4 DEF Held, AnyNode
<1>9. QED
  BY <1>1, <1>2, <1>3, <1>4, <1>6, <1>7, <1>8

\* The reader scrolls up: a page of the rows before the window is read.
LEMMA AskEarlierKeeps ==
  ASSUME IInv, AskEarlier
  PROVE  IInv'
<1>1. PICK wanted : wanted = {n.ino : n \in {m \in ToSet(store.nodes) : m.k = "result"}}
  OBVIOUS
<1>2. PICK before, b, ino, p : before = store.first /\ b = file.bytes /\ ino = file.ino /\ p = request'["earlier"].page
  OBVIOUS
<1>3. Typed /\ TailPageFits /\ WindowCovers /\ WindowFits
  BY DEF IInv
<1>4. before \in Nat /\ b \in Seq(Byte) /\ \A m \in InStore : m \in AnyNode
  BY <1>2, <1>3 DEF Typed, Stores, InStore, ToSet
<1>5. Ask("earlier", before, wanted) /\ store.truncatedBefore
  BY <1>1, <1>2 DEF AskEarlier
<1>6. /\ UNCHANGED <<file, tail, pending, seq, lastSeq, connections, chan, conn, store, reloaded, torn>>
      /\ ino # 0 /\ PageOf(b, before, ino, p)
      /\ Open("earlier")' => store.ver = ino
      /\ \A q : q # "earlier" => Open(q)' = Open(q) /\ (q \in Requests => request'[q] = request[q])
      /\ Typed' /\ Versions' /\ TailFits' /\ InSequence' /\ FramesValid' /\ HelloFits' /\ FirstFrames'
      /\ WindowFits' /\ WindowCovers'
  <2>1. /\ UNCHANGED <<file, tail, pending, seq, lastSeq, connections, chan, conn, store, reloaded, torn>>
        /\ Asks("earlier", before, wanted)
        /\ Typed' /\ Versions' /\ TailFits' /\ InSequence' /\ FramesValid' /\ HelloFits' /\ FirstFrames'
        /\ WindowFits' /\ WindowCovers'
    BY <1>4, <1>5, AskIs
  <2>2. QED
    BY <1>2, <2>1 DEF Asks
<1>7. TailPageFits'
  <2>1. SUFFICES ASSUME Open("tail"), request'["tail"] = request["tail"] PROVE TailPageFits'
    <3>1. Open("tail") => "tail" \in Requests
      BY DEF Open
    <3>2. QED
      BY <1>6, <3>1 DEF TailPageFits
  <2>2. QED
    BY <1>3, <1>6, <2>1 DEF TailPageFits, IsRows, Kind, Sent, UnderWay, Live, Shown, Synced, Good, InStore
<1>8. EarlierFits'
  <2>1. SUFFICES ASSUME Good, store.ver = ino PROVE EarlierFits'
    BY <1>6 DEF EarlierFits, Good
  <2>2. /\ p.from \in Nat /\ p.to \in Nat /\ p.from <= p.to /\ p.to <= before /\ Clean(b, p.from)
        /\ \A n \in ToSet(p.nodes) : n \in AnyNode /\ n.ino = ino /\ Valid(b, n) /\ n.at >= p.from /\ n.at < p.to
        /\ \A s \in ShownAts(b) : p.from <= s /\ s < p.to => s \in Held(p.nodes)
        /\ \A s \in ShownAts(b) : Clean(b, before) /\ s < before => s < p.to
        /\ \A n \in AnyNode : p.to = 0 \/ FitsFrom(b, n, before) => p.to <= n.at
        /\ p.removed \cap Held(p.nodes) = {}
    BY <1>4, <1>6, PageCovers
  <2>3. /\ Ascends(p.nodes)
        /\ p.nodes = <<>> => ~p.truncatedBefore /\ p.removed = {}
        /\ \A q, r \in p.removed : q = r
        /\ \A s \in p.removed : s \notin ShownAts(b) /\ s < Confirmed(b)
    BY <1>6 DEF PageOf
  <2>4. Clean(b, before) /\ \A m \in InStore : FitsFrom(b, m, before)
    BY <1>2, <1>3, <1>5, <1>6, <2>1 DEF WindowCovers, Anchored
  <2>5. p.from <= before
    BY <1>4, <2>2
  <2>6. ASSUME NEW n \in ToSet(p.nodes)
        PROVE  n.at < before /\ \A m \in InStore : n.at < m.at
    <3>1. n.at \in Nat /\ n.at < p.to /\ \A m \in InStore : m.at \in Nat
      BY <1>4, <2>2 DEF AnyNode
    <3>2. \A m \in InStore : p.to <= m.at
      BY <1>4, <2>2, <2>4
    <3>3. QED
      BY <1>4, <2>2, <3>1, <3>2
  <2>7. \A s \in ShownAts(b) : p.from <= s /\ s < before => s \in Held(p.nodes)
    BY <2>2, <2>4
  <2>8. p.removed \cap ShownAts(b) = {} /\ \A q \in p.removed : q < Confirmed(b)
    BY <2>3
  <2>9. InStore' = InStore /\ Shown' = ShownAts(b)
    BY <1>2, <1>6 DEF InStore, Shown
  <2>10. QED
    BY <1>2, <1>5, <1>6, <2>1, <2>2, <2>3, <2>5, <2>6, <2>7, <2>8, <2>9 DEF EarlierFits
<1>9. QED
  BY <1>6, <1>7, <1>8 DEF IInv

\* The reader goes back to the end: a page of the last rows is read.
LEMMA AskTailKeeps ==
  ASSUME IInv, AskTail
  PROVE  IInv'
<1>1. PICK before, b, ino, p, none : /\ before = Len(file.bytes) /\ b = file.bytes /\ ino = file.ino
                                     /\ p = request'["tail"].page /\ none = {}
  OBVIOUS
<1>2. Typed /\ EarlierFits /\ WindowCovers /\ WindowFits
  BY DEF IInv
<1>3. before \in Nat /\ b \in Seq(Byte) /\ store.nodes \in Seq(AnyNode) /\ \A m \in InStore : m \in AnyNode
  BY <1>1, <1>2 DEF Typed, Stores, InStore, ToSet
<1>4. Ask("tail", before, none) /\ store.newBelow > 0
  BY <1>1 DEF AskTail
<1>9. /\ b = file.bytes /\ ino = file.ino /\ p = request'["tail"].page
  BY <1>1
<1>5. /\ UNCHANGED <<file, tail, pending, seq, lastSeq, connections, chan, conn, store, reloaded, torn>>
      /\ ino # 0 /\ PageOf(b, before, ino, p)
      /\ Open("tail")' => store.ver = ino
      /\ \A q : q # "tail" => Open(q)' = Open(q) /\ (q \in Requests => request'[q] = request[q])
      /\ Typed' /\ Versions' /\ TailFits' /\ InSequence' /\ FramesValid' /\ HelloFits' /\ FirstFrames'
      /\ WindowFits' /\ WindowCovers'
  <2>1. /\ UNCHANGED <<file, tail, pending, seq, lastSeq, connections, chan, conn, store, reloaded, torn>>
        /\ Asks("tail", before, none)
        /\ Typed' /\ Versions' /\ TailFits' /\ InSequence' /\ FramesValid' /\ HelloFits' /\ FirstFrames'
        /\ WindowFits' /\ WindowCovers'
    BY <1>3, <1>4, AskIs
  <2>2. QED
    BY <1>9, <2>1 DEF Asks
<1>6. EarlierFits'
  <2>1. SUFFICES ASSUME Open("earlier"), request'["earlier"] = request["earlier"] PROVE EarlierFits'
    <3>1. Open("earlier") => "earlier" \in Requests
      BY DEF Open
    <3>2. QED
      BY <1>5, <3>1 DEF EarlierFits
  <2>2. QED
    BY <1>2, <1>5, <2>1 DEF EarlierFits, Shown, Good, InStore
<1>7. TailPageFits'
  <2>1. CASE ~Open("tail")' \/ ~Good
    BY <1>4, <1>5, <2>1 DEF TailPageFits, Good
  <2>2. CASE Good /\ store.ver = ino
    <3>1. /\ p.from \in Nat /\ p.to \in Nat /\ p.to <= before /\ Clean(b, p.from) /\ Clean(b, p.to)
          /\ \A n \in ToSet(p.nodes) : n \in AnyNode /\ n.ino = ino /\ Valid(b, n) /\ n.at >= p.from /\ n.at < p.to
          /\ \A s \in ShownAts(b) : p.from <= s /\ s < p.to => s \in Held(p.nodes)
      BY <1>3, <1>5, PageCovers
    <3>2. Ascends(p.nodes) /\ NoEndIn(b, p.to, before) /\ (p.nodes = <<>> => p.to = 0)
      BY <1>5 DEF PageOf
    \* The page reaches to the last complete row.
    <3>3. \A e \in Ends(b) : e \in Nat /\ e <= p.to
      BY <1>1, <1>3, <3>1, <3>2, EndsAre DEF NoEndIn
    <3>4. Confirmed(b) \in Nat /\ Confirmed(b) <= p.to
      BY <1>3, <3>1, <3>3, ConfirmedIs DEF Starts
    <3>5. \A m \in InStore : m.at \in Nat /\ m.at < p.to
      <4>1. \A m \in InStore : m.at \in Nat /\ m.at < Confirmed(b)
        BY <1>1, <1>2, <1>3, <1>5, <2>2 DEF WindowCovers, Valid, AnyNode
      <4>2. QED
        BY <3>1, <3>4, <4>1
    <3>6. p.nodes # <<>>
      <4>1. Len(store.nodes) >= WindowCap /\ WindowCap \in Nat \ {0}
        BY <1>2, <1>4, <2>2, SizesAssumption DEF WindowFits
      <4>2. store.nodes[1] \in InStore
        BY <1>3, <4>1 DEF InStore, ToSet
      <4>3. QED
        BY <3>1, <3>2, <3>5, <4>2
    <3>7. \A s \in ShownAts(b) : s < p.to
      <4>1. SUFFICES ASSUME NEW s \in ShownAts(b) PROVE s < p.to
        OBVIOUS
      <4>2. PICK e : IsRow(b, s, e)
        BY <1>3, ShownAre
      <4>3. s \in Nat /\ e \in Nat /\ s < e /\ e \in Ends(b)
        BY <1>3, <4>2, RowBounds DEF IsRow
      <4>4. QED
        BY <3>1, <3>3, <4>3
    <3>8. \A s \in ShownAts(b) : s \in Nat
      BY <1>3, AtsNat
    <3>9. InStore' = InStore /\ Shown' = ShownAts(b)
      BY <1>1, <1>5 DEF InStore, Shown
    <3>10. \A s \in ShownAts(b) : ~(p.to <= s)
      BY <3>1, <3>7, <3>8
    <3>11. QED
      BY <1>1, <1>4, <1>5, <2>2, <3>1, <3>2, <3>5, <3>6, <3>9, <3>10 DEF TailPageFits
  <2>3. QED
    BY <1>5, <2>1, <2>2
<1>8. QED
  BY <1>5, <1>6, <1>7 DEF IInv

-----------------------------------------------------------------------------
(* Rows arrive                                                             *)

\* What rows and what is left of them.
Sorted(nodes) == \A i, k \in DOMAIN nodes : i < k => nodes[i].at <= nodes[k].at
FreshOf(nodes, held, fresh) == fresh = Fresh(nodes, held)

\* What is new of a frame: each place that is not held, once and in order.
LEMMA FreshIs ==
  ASSUME NEW nodes \in Seq(AnyNode), Sorted(nodes), NEW held, NEW fresh, FreshOf(nodes, held, fresh)
  PROVE  /\ fresh \in Seq(AnyNode) /\ Ascends(fresh)
         /\ \A n \in ToSet(fresh) : n \in ToSet(nodes) /\ n.at \notin held
         /\ \A n \in ToSet(nodes) : n.at \in held \/ n.at \in Held(fresh)
<1>1. PICK J : J = {j \in DOMAIN nodes : nodes[j].at \notin held /\ \A i \in 1 .. j - 1 : nodes[i].at # nodes[j].at}
  OBVIOUS
<1>2. J \in SUBSET DOMAIN nodes /\ DOMAIN nodes = 1 .. Len(nodes) /\ Len(nodes) \in Nat
  BY <1>1
<1>3. PICK R : R = AnyNode
  OBVIOUS
<1>4. nodes \in Seq(R) /\ fresh = Kept(nodes, J)
  BY <1>1, <1>3 DEF FreshOf, Fresh
<1>5. /\ fresh \in Seq(R) /\ ToSet(fresh) = {nodes[j] : j \in J}
      /\ \A i, k \in DOMAIN fresh : i < k => \E a, c \in J : a < c /\ fresh[i] = nodes[a] /\ fresh[k] = nodes[c]
  BY <1>2, <1>4, KeptIs
<1>6. \A j \in DOMAIN nodes : nodes[j] \in AnyNode /\ nodes[j].at \in Nat
  <2>1. \A j \in DOMAIN nodes : nodes[j] \in AnyNode
    OBVIOUS
  <2>2. QED
    BY <2>1 DEF AnyNode
<1>7. Ascends(fresh)
  <2>1. SUFFICES ASSUME NEW i \in DOMAIN fresh, NEW k \in DOMAIN fresh, i < k PROVE fresh[i].at < fresh[k].at
    BY DEF Ascends
  <2>2. PICK a \in J, c \in J : a < c /\ fresh[i] = nodes[a] /\ fresh[k] = nodes[c]
    BY <1>5, <2>1
  <2>3. a \in 1 .. c - 1 /\ a \in DOMAIN nodes /\ c \in DOMAIN nodes
    BY <1>2, <2>2
  <2>4. nodes[a].at # nodes[c].at /\ nodes[a].at <= nodes[c].at
    BY <1>1, <2>2, <2>3 DEF Sorted
  <2>5. QED
    BY <1>6, <2>2, <2>3, <2>4
<1>8. \A n \in ToSet(fresh) : n \in ToSet(nodes) /\ n.at \notin held
  BY <1>1, <1>5 DEF ToSet
<1>9. ASSUME NEW n \in ToSet(nodes), n.at \notin held PROVE n.at \in Held(fresh)
  <2>1. PICK S : S = {j \in DOMAIN nodes : nodes[j].at = n.at}
    OBVIOUS
  <2>2. S \in SUBSET Nat /\ S # {}
    BY <1>2, <2>1 DEF ToSet
  <2>3. PICK m \in S : \A j \in S : m <= j
    BY <2>2, LeastIs
  <2>4. \A i \in 1 .. m - 1 : nodes[i].at # nodes[m].at
    BY <1>2, <2>1, <2>3
  <2>5. m \in J /\ nodes[m].at = n.at
    BY <1>1, <1>9, <2>1, <2>4
  <2>6. nodes[m] \in ToSet(fresh)
    BY <1>5, <2>5
  <2>7. QED
    BY <2>5, <2>6 DEF Held
<1>10. QED
  BY <1>3, <1>5, <1>7, <1>8, <1>9

\* The rows that are kept of a window and of what follows it.
KeptOf(old, fresh, cap, all, kept) ==
  /\ all = old \o fresh
  /\ kept = SubSeq(all, Max({1, Len(all) - cap + 1}), Len(all))

\* What is left of a window and the rows after it, of which only the last are kept.
LEMMA KeptRows ==
  ASSUME NEW old \in Seq(AnyNode), NEW fresh \in Seq(AnyNode), fresh # <<>>, NEW cap \in Nat \ {0},
         NEW all, NEW kept, KeptOf(old, fresh, cap, all, kept)
  PROVE  /\ kept \in Seq(AnyNode) /\ kept # <<>> /\ 1 \in DOMAIN kept
         /\ kept[1] \in ToSet(kept) /\ kept[1].at \in Nat
         /\ \A m \in ToSet(kept) : m \in ToSet(old) \/ m \in ToSet(fresh)
         /\ kept = all => \A m : m \in ToSet(old) \/ m \in ToSet(fresh) => m \in ToSet(kept)
         /\ Ascends(old) /\ Ascends(fresh) /\ (\A m \in ToSet(old), n \in ToSet(fresh) : m.at < n.at) =>
              /\ Ascends(kept)
              /\ \A m \in ToSet(kept) : kept[1].at <= m.at
              /\ \A m : m \in ToSet(old) \/ m \in ToSet(fresh) => m \in ToSet(kept) \/ m.at < kept[1].at
<1>1. PICK R : R = AnyNode
  OBVIOUS
<1>2. /\ old \in Seq(R) /\ fresh \in Seq(R) /\ Len(old) \in Nat /\ Len(fresh) \in Nat /\ Len(fresh) > 0
      /\ DOMAIN old = 1 .. Len(old) /\ DOMAIN fresh = 1 .. Len(fresh)
  BY <1>1
<1>3. /\ all \in Seq(R) /\ Len(all) = Len(old) + Len(fresh) /\ DOMAIN all = 1 .. Len(all)
      /\ \A i \in 1 .. Len(all) : all[i] = IF i <= Len(old) THEN old[i] ELSE fresh[i - Len(old)]
  BY <1>2 DEF KeptOf
<1>4. PICK z \in Nat : /\ Max({1, Len(all) - cap + 1}) = z + 1 /\ z < Len(all)
  <2>1. 1 \in Int /\ Len(all) - cap + 1 \in Int
    BY <1>3
  <2>2. Max({1, Len(all) - cap + 1}) = IF 1 <= Len(all) - cap + 1 THEN Len(all) - cap + 1 ELSE 1
    BY <2>1, OfTwo
  <2>3. PICK x \in Int : x = Max({1, Len(all) - cap + 1}) - 1
    BY <2>1, <2>2
  <2>4. x \in Nat /\ x < Len(all) /\ Max({1, Len(all) - cap + 1}) = x + 1
    BY <1>2, <1>3, <2>1, <2>2, <2>3
  <2>5. QED
    BY <2>4
<1>5. kept = SubSeq(all, z + 1, Len(all))
  BY <1>4 DEF KeptOf
<1>6. /\ kept \in Seq(R) /\ Len(kept) = Len(all) - z /\ Len(kept) \in Nat /\ DOMAIN kept = 1 .. Len(kept)
      /\ \A i \in 1 .. Len(kept) : kept[i] = all[z + i] /\ z + i \in 1 .. Len(all)
  BY SMTT(30), <1>2, <1>3, <1>4, <1>5
<1>7. 1 \in DOMAIN kept /\ kept # <<>> /\ kept[1] = all[z + 1] /\ kept[1] \in R
  BY <1>2, <1>3, <1>4, <1>6
<1>8. \A i \in 1 .. Len(all) : all[i] \in AnyNode /\ all[i].at \in Nat
  <2>1. \A i \in 1 .. Len(all) : all[i] \in AnyNode
    BY <1>1, <1>3
  <2>2. QED
    BY <2>1 DEF AnyNode
<1>9. \A i \in 1 .. Len(all) : all[i] \in ToSet(old) \/ all[i] \in ToSet(fresh)
  <2>1. SUFFICES ASSUME NEW i \in 1 .. Len(all) PROVE all[i] \in ToSet(old) \/ all[i] \in ToSet(fresh)
    OBVIOUS
  <2>2. CASE i <= Len(old)
    BY <1>2, <1>3, <2>2 DEF ToSet
  <2>3. CASE ~(i <= Len(old))
    <3>1. i - Len(old) \in DOMAIN fresh /\ all[i] = fresh[i - Len(old)]
      BY <1>2, <1>3, <2>3
    <3>2. QED
      BY <3>1 DEF ToSet
  <2>4. QED
    BY <2>2, <2>3
<1>10. ASSUME NEW m, m \in ToSet(old) \/ m \in ToSet(fresh) PROVE \E i \in 1 .. Len(all) : m = all[i]
  <2>1. CASE m \in ToSet(old)
    <3>1. PICK i \in DOMAIN old : m = old[i]
      BY <2>1 DEF ToSet
    <3>2. i \in 1 .. Len(all) /\ i <= Len(old)
      BY <1>2, <1>3, <3>1
    <3>3. QED
      BY <1>3, <3>1, <3>2
  <2>2. CASE m \in ToSet(fresh)
    <3>1. PICK i \in DOMAIN fresh : m = fresh[i]
      BY <2>2 DEF ToSet
    <3>2. PICK k : k = i + Len(old)
      OBVIOUS
    <3>3. k \in 1 .. Len(all) /\ ~(k <= Len(old)) /\ k - Len(old) = i
      BY <1>2, <1>3, <3>1, <3>2
    <3>4. QED
      BY <1>3, <3>1, <3>3
  <2>3. QED
    BY <1>10, <2>1, <2>2
<1>11. ASSUME NEW m \in ToSet(kept) PROVE \E i \in 1 .. Len(kept) : m = kept[i] /\ m = all[z + i] /\ z + i \in 1 .. Len(all)
  <2>1. PICK i \in DOMAIN kept : m = kept[i]
    BY DEF ToSet
  <2>2. QED
    BY <1>6, <2>1
<1>12. \A m \in ToSet(kept) : m \in ToSet(old) \/ m \in ToSet(fresh)
  BY <1>9, <1>11
<1>13. kept = all => \A m : m \in ToSet(old) \/ m \in ToSet(fresh) => m \in ToSet(kept)
  BY <1>3, <1>10 DEF ToSet
<1>14. ASSUME Ascends(old), Ascends(fresh), \A m \in ToSet(old), n \in ToSet(fresh) : m.at < n.at
       PROVE  /\ Ascends(kept)
              /\ \A m \in ToSet(kept) : kept[1].at <= m.at
              /\ \A m : m \in ToSet(old) \/ m \in ToSet(fresh) => m \in ToSet(kept) \/ m.at < kept[1].at
  <2>1. ASSUME NEW i \in 1 .. Len(all), NEW k \in 1 .. Len(all), i < k PROVE all[i].at < all[k].at
    <3>1. CASE k <= Len(old)
      <4>1. i \in DOMAIN old /\ k \in DOMAIN old /\ all[i] = old[i] /\ all[k] = old[k]
        BY <1>2, <1>3, <2>1, <3>1
      <4>2. QED
        BY <1>14, <2>1, <4>1 DEF Ascends
    <3>2. CASE i > Len(old)
      <4>1. /\ i - Len(old) \in DOMAIN fresh /\ k - Len(old) \in DOMAIN fresh /\ i - Len(old) < k - Len(old)
            /\ all[i] = fresh[i - Len(old)] /\ all[k] = fresh[k - Len(old)]
        BY <1>2, <1>3, <2>1, <3>2
      <4>2. QED
        BY <1>14, <4>1 DEF Ascends
    <3>3. CASE i <= Len(old) /\ ~(k <= Len(old))
      <4>1. /\ i \in DOMAIN old /\ all[i] = old[i]
            /\ k - Len(old) \in DOMAIN fresh /\ all[k] = fresh[k - Len(old)]
        BY <1>2, <1>3, <2>1, <3>3
      <4>2. all[i] \in ToSet(old) /\ all[k] \in ToSet(fresh)
        BY <4>1 DEF ToSet
      <4>3. QED
        BY <1>14, <4>2
    <3>4. QED
      BY <1>2, <3>1, <3>2, <3>3
  <2>2. Ascends(kept)
    <3>1. SUFFICES ASSUME NEW i \in 1 .. Len(kept), NEW k \in 1 .. Len(kept), i < k PROVE kept[i].at < kept[k].at
      BY <1>6 DEF Ascends
    <3>2. PICK x, y : x = z + i /\ y = z + k
      OBVIOUS
    <3>3. x \in 1 .. Len(all) /\ y \in 1 .. Len(all) /\ x < y /\ kept[i] = all[x] /\ kept[k] = all[y]
      BY <1>6, <3>1, <3>2
    <3>4. QED
      BY <2>1, <3>3
  <2>3. ASSUME NEW m \in ToSet(kept) PROVE kept[1].at <= m.at
    <3>1. PICK i \in 1 .. Len(kept) : m = all[z + i] /\ z + i \in 1 .. Len(all)
      BY <1>11
    <3>2. PICK x, y : x = z + 1 /\ y = z + i
      OBVIOUS
    <3>3. x \in 1 .. Len(all) /\ y \in 1 .. Len(all) /\ (x = y \/ x < y) /\ kept[1] = all[x] /\ m = all[y]
      BY <1>3, <1>4, <1>6, <1>7, <3>1, <3>2
    <3>4. QED
      BY <1>8, <2>1, <3>3
  <2>4. ASSUME NEW m, m \in ToSet(old) \/ m \in ToSet(fresh) PROVE m \in ToSet(kept) \/ m.at < kept[1].at
    <3>1. PICK i \in 1 .. Len(all) : m = all[i]
      BY <1>10, <2>4
    <3>2. CASE i <= z
      <4>1. PICK x : x = z + 1
        OBVIOUS
      <4>2. x \in 1 .. Len(all) /\ i < x /\ kept[1] = all[x]
        BY <1>3, <1>4, <1>7, <3>2, <4>1
      <4>3. QED
        BY <2>1, <3>1, <4>2
    <3>3. CASE ~(i <= z)
      <4>1. PICK k : k = i - z
        OBVIOUS
      <4>2. k \in DOMAIN kept /\ kept[k] = all[i]
        <5>1. k \in 1 .. Len(kept) /\ z + k = i
          BY <1>3, <1>4, <1>6, <3>3, <4>1
        <5>2. QED
          BY <1>6, <5>1
      <4>3. QED
        BY <3>1, <4>2 DEF ToSet
    <3>4. QED
      BY <3>2, <3>3
  <2>5. QED
    BY <2>2, <2>3, <2>4
<1>15. kept[1] \in ToSet(kept) /\ kept[1].at \in Nat
  <2>1. kept[1] \in AnyNode
    BY <1>1, <1>7
  <2>2. QED
    BY <1>7, <2>1 DEF ToSet, AnyNode
<1>16. QED
  BY <1>1, <1>6, <1>7, <1>12, <1>13, <1>14, <1>15

\* The window after rows.
TakesRows(frame, new) == new = WithRows(frame)

\* What a window makes of rows: it stays, and counts them if it is frozen, or it
\* has them at its end, and its head makes room.
RowsStay(frame, new) ==
  /\ new.nodes = store.nodes /\ new.first = store.first /\ new.truncatedBefore = store.truncatedBefore
  /\ Frozen \/ new.newBelow = store.newBelow
  /\ new.newBelow = store.newBelow => \A n \in ToSet(frame.nodes) : n.at \in Held(store.nodes)

\* A node after all of the window.
Behind(m) == \A q \in InStore : q.at < m.at

\* The rows are at the end of the window, and the head has made room.
RowsGrow(frame, new) ==
  /\ Ascends(new.nodes)
  /\ \A m \in ToSet(new.nodes) : m \in InStore \/ (m \in ToSet(frame.nodes) /\ Behind(m))
  /\ \/ /\ new.first = IF store.nodes = <<>> THEN frame.from ELSE store.first
        /\ new.truncatedBefore = store.truncatedBefore
        /\ \A m : m \in InStore \/ m \in ToSet(frame.nodes) => m.at \in Held(new.nodes)
     \/ \E c \in ToSet(new.nodes) :
          /\ new.first = c.at /\ new.truncatedBefore
          /\ \A m \in ToSet(new.nodes) : c.at <= m.at
          /\ \A m : m \in InStore \/ m \in ToSet(frame.nodes) => m.at \in Held(new.nodes) \/ m.at < c.at

\* Rows that come after all of the window, except for those that a reload brought.
ComeAfter(frame) ==
  /\ Ascends(store.nodes) /\ ~Late(frame)
  /\ \A n \in ToSet(frame.nodes) : n.at < reloaded \/ \A m \in InStore : m.at <= n.at

\* What becomes of rows: one of the two.
RowsTakenAs(frame, new) ==
  /\ new \in Stores /\ new.nodes # <<>>
  /\ new.gen = store.gen /\ new.ver = store.ver /\ new.following = store.following
  /\ \/ RowsStay(frame, new)
     \/ ~Frozen /\ new.newBelow = store.newBelow /\ (ComeAfter(frame) => RowsGrow(frame, new))

\* A frame of rows stays out of a frozen window and goes to the end of another.
LEMMA RowsTaken ==
  ASSUME store \in Stores, reloaded \in Nat, NEW frame, frame.nodes \in Seq(AnyNode), frame.nodes # <<>>,
         Sorted(frame.nodes), frame.from \in Nat, NEW new, TakesRows(frame, new)
  PROVE  RowsTakenAs(frame, new)
<1>1. PICK nodes, old, held, from : nodes = frame.nodes /\ old = store.nodes /\ held = Held(old) /\ from = frame.from
  OBVIOUS
<1>2. PICK fresh : FreshOf(nodes, held, fresh)
  BY DEF FreshOf
<1>3. /\ nodes \in Seq(AnyNode) /\ old \in Seq(AnyNode) /\ Sorted(nodes) /\ from \in Nat
      /\ store.newBelow \in Nat /\ store.following \in BOOLEAN
  BY <1>1 DEF Stores
<1>4. /\ fresh \in Seq(AnyNode) /\ Ascends(fresh) /\ Len(fresh) \in Nat
      /\ \A n \in ToSet(fresh) : n \in ToSet(nodes) /\ n.at \notin held
      /\ \A n \in ToSet(nodes) : n.at \in held \/ n.at \in Held(fresh)
  BY <1>2, <1>3, FreshIs
<1>5. PICK all, kept : KeptOf(old, fresh, WindowCap, all, kept)
  BY DEF KeptOf
<1>6. WindowCap \in Nat \ {0}
  BY SizesAssumption
<1>7. new = IF Frozen THEN [store EXCEPT !.newBelow = @ + Len(fresh)]
            ELSE IF fresh = <<>> THEN store
            ELSE [store EXCEPT !.nodes = kept,
                               !.first = IF kept # all THEN kept[1].at
                                         ELSE IF old = <<>> THEN from ELSE @,
                               !.truncatedBefore = @ \/ kept # all]
  BY <1>1, <1>2, <1>5 DEF TakesRows, WithRows, FreshOf, KeptOf
<1>8. fresh = <<>> => \A n \in ToSet(nodes) : n.at \in held
  BY <1>4 DEF Held, ToSet
<1>9. nodes[1] \in ToSet(nodes)
  BY <1>1, <1>3 DEF ToSet
<1>10. CASE Frozen
  <2>5. PICK k \in Nat : k = store.newBelow + Len(fresh)
    BY <1>3, <1>4
  <2>6. new = [store EXCEPT !.newBelow = k]
    BY <1>7, <1>10, <2>5
  <2>1. /\ new \in Stores /\ new.nodes = old /\ new.gen = store.gen /\ new.ver = store.ver
        /\ new.following = store.following /\ new.first = store.first /\ new.truncatedBefore = store.truncatedBefore
        /\ new.newBelow = store.newBelow + Len(fresh)
    BY <1>1, <2>5, <2>6 DEF Stores
  <2>2. old # <<>>
    BY <1>1, <1>3, <1>6, <1>10 DEF Frozen
  <2>3. new.newBelow = store.newBelow => fresh = <<>>
    BY <1>3, <1>4, <2>1
  <2>4. QED
    BY <1>1, <1>8, <1>10, <2>1, <2>2, <2>3 DEF RowsTakenAs, RowsStay
<1>11. CASE ~Frozen /\ fresh = <<>>
  <2>1. new = store
    BY <1>7, <1>11
  <2>4. ToSet(old) # {}
    BY <1>1, <1>8, <1>9, <1>11 DEF Held
  <2>2. old # <<>>
    BY <2>4 DEF ToSet
  <2>3. QED
    BY <1>1, <1>8, <1>11, <2>1, <2>2 DEF RowsTakenAs, RowsStay
<1>12. CASE ~Frozen /\ fresh # <<>>
  <2>1. /\ kept \in Seq(AnyNode) /\ kept # <<>>
        /\ kept[1] \in ToSet(kept) /\ kept[1].at \in Nat
        /\ \A m \in ToSet(kept) : m \in ToSet(old) \/ m \in ToSet(fresh)
        /\ kept = all => \A m : m \in ToSet(old) \/ m \in ToSet(fresh) => m \in ToSet(kept)
        /\ Ascends(old) /\ Ascends(fresh) /\ (\A m \in ToSet(old), n \in ToSet(fresh) : m.at < n.at) =>
              /\ Ascends(kept)
              /\ \A m \in ToSet(kept) : kept[1].at <= m.at
              /\ \A m : m \in ToSet(old) \/ m \in ToSet(fresh) => m \in ToSet(kept) \/ m.at < kept[1].at
    BY <1>3, <1>4, <1>5, <1>6, <1>12, KeptRows
  <2>2. PICK first : first = IF kept # all THEN kept[1].at ELSE IF old = <<>> THEN from ELSE store.first
    OBVIOUS
  <2>3. PICK cut \in BOOLEAN : cut = (kept # all)
    OBVIOUS
  <2>4. new = [store EXCEPT !.nodes = kept, !.first = first, !.truncatedBefore = @ \/ cut]
    BY <1>7, <1>12, <2>2, <2>3
  <2>5. first \in Nat
    BY <1>3, <2>1, <2>2 DEF Stores
  <2>6. /\ new \in Stores /\ new.nodes = kept /\ new.gen = store.gen /\ new.ver = store.ver
        /\ new.following = store.following /\ new.newBelow = store.newBelow /\ new.first = first
        /\ new.truncatedBefore = (store.truncatedBefore \/ cut)
    BY <2>1, <2>4, <2>5 DEF Stores
  <2>7. ASSUME ComeAfter(frame) PROVE RowsGrow(frame, new)
    <3>1. InStore = ToSet(old)
      BY <1>1 DEF InStore
    <3>2. \A n \in ToSet(fresh) : ~(n.at < reloaded)
      BY <1>1, <1>2, <1>12, <2>7 DEF ComeAfter, Late, FreshOf
    <3>3. \A m \in ToSet(old) : m.at \in held /\ m.at \in Nat
      <4>1. \A m \in ToSet(old) : m \in AnyNode /\ m.at \in held
        BY <1>1, <1>3 DEF Held, ToSet
      <4>2. QED
        BY <4>1 DEF AnyNode
    <3>4. \A n \in ToSet(fresh) : n.at \in Nat
      <4>1. \A n \in ToSet(fresh) : n \in AnyNode
        BY <1>4 DEF ToSet
      <4>2. QED
        BY <4>1 DEF AnyNode
    <3>5. \A m \in ToSet(old), n \in ToSet(fresh) : m.at < n.at
      BY <1>1, <1>4, <2>7, <3>1, <3>2, <3>3, <3>4 DEF ComeAfter
    <3>6. /\ Ascends(kept)
          /\ \A m \in ToSet(kept) : kept[1].at <= m.at
          /\ \A m : m \in ToSet(old) \/ m \in ToSet(fresh) => m \in ToSet(kept) \/ m.at < kept[1].at
      BY <1>1, <1>4, <2>1, <2>7, <3>5 DEF ComeAfter
    <3>7. \A m \in ToSet(kept) : m \in InStore \/ (m \in ToSet(nodes) /\ Behind(m))
      BY <1>4, <2>1, <3>1, <3>5 DEF Behind
    \* A row of the frame that is not new is in the window.
    <3>8. ASSUME NEW m, m \in InStore \/ m \in ToSet(nodes)
          PROVE  \E q : (q \in ToSet(old) \/ q \in ToSet(fresh)) /\ q.at = m.at
      <4>1. CASE m \in InStore
        BY <3>1, <4>1
      <4>2. CASE m \in ToSet(nodes)
        BY <1>1, <1>4, <4>2 DEF Held
      <4>3. QED
        BY <3>8, <4>1, <4>2
    <3>9. CASE kept = all
      <4>1. /\ first = IF old = <<>> THEN from ELSE store.first
            /\ cut = FALSE
        BY <2>2, <2>3, <3>9
      <4>2. new.truncatedBefore = store.truncatedBefore
        BY <2>6, <4>1 DEF Stores
      <4>3. \A m : m \in InStore \/ m \in ToSet(nodes) => m.at \in Held(kept)
        BY <2>1, <3>8, <3>9 DEF Held
      <4>4. QED
        BY <1>1, <2>6, <3>6, <3>7, <4>1, <4>2, <4>3 DEF RowsGrow
    <3>10. CASE kept # all
      <4>1. first = kept[1].at /\ cut = TRUE
        BY <2>2, <2>3, <3>10
      <4>2. new.truncatedBefore
        BY <2>6, <4>1
      <4>3. \A m : m \in InStore \/ m \in ToSet(nodes) => m.at \in Held(kept) \/ m.at < kept[1].at
        BY <3>6, <3>8 DEF Held
      <4>4. PICK c \in ToSet(kept) : c = kept[1]
        BY <2>1
      <4>5. /\ new.first = c.at /\ new.truncatedBefore
            /\ \A m \in ToSet(kept) : c.at <= m.at
            /\ \A m : m \in InStore \/ m \in ToSet(nodes) => m.at \in Held(kept) \/ m.at < c.at
        BY <2>6, <3>6, <4>1, <4>2, <4>3, <4>4
      <4>6. QED
        BY <1>1, <2>6, <3>6, <3>7, <4>5 DEF RowsGrow
    <3>11. QED
      BY <3>9, <3>10
  <2>8. QED
    BY <1>12, <2>1, <2>6, <2>7 DEF RowsTakenAs
<1>13. QED
  BY <1>10, <1>11, <1>12

\* A window and a file of one version have a poller of that version between them.
LEMMA InodeIs ==
  ASSUME Typed, Versions, Synced, store.ver = file.ino, file.ino # 0
  PROVE  tail.inode = file.ino /\ Live
<1>1. file.ino \in Nat /\ tail.inode \in Nat /\ store.ver \in Nat
  BY DEF Typed, Tails, Stores
<1>2. conn = "open" /\ store.ver <= tail.inode /\ tail.inode <= file.ino
  BY DEF Versions, Synced
<1>3. QED
  BY <1>1, <1>2 DEF Live

\* Rows arrive: the window goes on without a gap, or takes its beginning from them.
LEMMA ReceiveRowsKeeps ==
  ASSUME IInv, ReceiveRows
  PROVE  IInv'
<1>1. Typed /\ Versions /\ TailFits /\ InSequence /\ FramesValid /\ FirstFrames
  BY DEF IInv
<1>2. Take("rows") /\ Quiet /\ conn' = conn /\ reloaded' = reloaded
  BY DEF ReceiveRows
<1>3. /\ Popped /\ conn = "open" /\ Kind(1) = "rows" /\ lastSeq' \in Nat
      /\ Head(chan) = chan[1] /\ chan[1] \in Envelopes
  BY <1>1, <1>2, TakeIs
<1>4. UNCHANGED <<file, tail, pending, seq, connections, conn, reloaded>>
  BY <1>2, <1>3 DEF Popped
<1>5. PICK v, b, old, frame : v = store.ver /\ b = file.bytes /\ old = store.nodes /\ frame = chan[1].frame
  OBVIOUS
<1>6. /\ chan' \in Seq(Envelopes) /\ 1 \in DOMAIN chan /\ IsRows(1) /\ ~Begins(1)
      /\ UnderWay(v)' \subseteq UnderWay(v)
      /\ \A n \in UnderWay(v) : n \in UnderWay(v)' \/ (chan[1].ver = v /\ n \in Sent(1))
      /\ \A n \in Sent(1) : chan[1].ver = v => n \in UnderWay(v)
  BY <1>1, <1>3, Pop DEF IsRows, Begins
<1>7. Synced /\ chan[1].ver = v
  <2>1. Synced
    BY <1>1, <1>3 DEF Versions
  <2>2. chan[1].ver = store.ver \/ \E i \in 1 .. 1 - 1 : Begins(i) /\ chan[i].ver = chan[1].ver
    BY <1>1, <1>3, <1>6 DEF Versions
  <2>3. QED
    BY <1>5, <2>1, <2>2
<1>8. PICK new : TakesRows(frame, new)
  BY DEF TakesRows
<1>9. Becomes(new)
  BY <1>3, <1>5, <1>8 DEF ReceiveRows, TakesRows
<1>10. store \in Stores /\ reloaded \in Nat /\ b \in Seq(Byte) /\ v \in Nat /\ file.ino \in Nat
  BY <1>1, <1>5 DEF Typed, Stores
<1>11. frame.nodes \in Seq(AnyNode) /\ frame.from \in Nat
  BY <1>3, <1>5 DEF Envelopes, Frames, Kind
<1>12. /\ frame.nodes # <<>> /\ Sorted(frame.nodes) /\ Sent(1) = ToSet(frame.nodes)
       /\ \A n \in Sent(1) : n.ino = v /\ (v = tail.inode => n.at < tail.ackOffset)
  BY <1>1, <1>5, <1>6, <1>7 DEF InSequence, Sent, Sorted
\* What is still under way comes after it.
<1>13. ASSUME NEW m \in Sent(1), NEW n \in UnderWay(v)' PROVE m.at <= n.at
  <2>1. PICK k \in DOMAIN chan' : IsRows(k)' /\ chan'[k].ver = v /\ n \in Sent(k)'
    BY DEF UnderWay
  <2>2. PICK z : z = k + 1
    OBVIOUS
  <2>3. z \in DOMAIN chan /\ z # 1 /\ IsRows(z) /\ chan[z].ver = v /\ n \in Sent(z) /\ DOMAIN chan = 1 .. Len(chan)
    BY <1>1, <1>3, <2>1, <2>2, Pop
  <2>4. 1 < z
    BY <2>3
  <2>5. QED
    BY <1>1, <1>6, <1>7, <2>3, <2>4 DEF InSequence
<1>14. RowsTakenAs(frame, new)
  BY <1>8, <1>10, <1>11, <1>12, RowsTaken
<1>15. /\ new \in Stores /\ new.nodes # <<>>
       /\ new.gen = store.gen /\ new.ver = v /\ new.following = store.following
  BY <1>5, <1>14 DEF RowsTakenAs
<1>16. /\ store' = new /\ DOMAIN request' = Requests
       /\ \A r \in Requests : /\ request'[r].st = "asked" => request'[r].page \in Pages
                              /\ Open(r)' => Open(r) /\ ~Outdated(r, new)
                              /\ request'[r].page = request[r].page
                              /\ DOMAIN request'[r] = {"st", "raced", "page"}
  BY <1>1, <1>9, <1>15, BecomesIs
<1>17. Good' => Good /\ ~Late(frame)
  BY <1>3, <1>5 DEF Good, ReceiveRows
<1>18. /\ Live' = Live /\ Shown' = Shown /\ Shown = ShownAts(b) /\ Synced' = Synced /\ Anchored'
       /\ InStore = ToSet(old) /\ InStore' = ToSet(new.nodes)
  BY <1>4, <1>5, <1>15, <1>16 DEF Live, Shown, Synced, Anchored, InStore
<1>19. Typed'
  BY <1>1, <1>3, <1>4, <1>6, <1>15, <1>16 DEF Typed
<1>20. Versions'
  <2>1. store'.gen = connections /\ store'.ver = store.ver
    BY <1>5, <1>7, <1>15, <1>16 DEF Synced
  <2>2. QED
    BY <1>3, <1>4, <1>6, <1>7, <2>1, PopVersions
<1>21. TailFits'
  BY <1>1, <1>4, TailFitsSame
<1>22. InSequence' /\ FramesValid' /\ HelloFits'
  BY <1>3, PopKeeps
<1>23. FirstFrames'
  <2>1. \/ Synced' /\ store'.ver = file.ino /\ ~(Good' /\ store'.nodes = <<>>)
        \/ /\ ~(IsRows(1) /\ chan[1].ver = file.ino)
           /\ Synced /\ store.ver = file.ino => Good /\ store.nodes = <<>>
    BY <1>5, <1>7, <1>15, <1>16, <1>18
  <2>2. QED
    BY <1>3, <1>4, <2>1, PopFirstFrames
\* The window of one range, and the pages that fit it.
<1>24. ASSUME Good
       PROVE  /\ Ascends(old)
              /\ \A m \in InStore : m.ino = v
              /\ ~store.following => Frozen
              /\ store.newBelow > 0 => ~store.following
              /\ v # 0
              /\ store.following => \A n \in UnderWay(v) : n.at < reloaded \/ \A m \in InStore : m.at <= n.at
              /\ v = tail.inode => \A m \in InStore : m.at < tail.ackOffset \/ m.at < reloaded
              /\ store.nodes = <<>> /\ store.truncatedBefore => \A n \in UnderWay(v) : n.at >= store.first
  <2>1. v # 0
    BY <1>1, <1>3, <1>6, <1>7 DEF Versions
  <2>2. QED
    BY <1>5, <1>7, <1>24, <2>1 DEF IInv, WindowFits, Frozen
<1>25. ASSUME Good, v = file.ino, file.ino # 0
       PROVE  /\ \A m \in InStore : Valid(b, m) /\ FitsFrom(b, m, store.first)
              /\ \A s \in Shown, m \in InStore : store.first <= s /\ s <= m.at => s \in Held(old)
              /\ old # <<>> \/ store.truncatedBefore => Clean(b, store.first)
              /\ Live /\ store.following /\ (old # <<>> \/ store.truncatedBefore) =>
                   \A s \in Shown : store.first <= s /\ s < tail.ackOffset => s \in Held(old) \cup Ats(UnderWay(v))
  BY <1>5, <1>7, <1>25 DEF IInv, WindowCovers, Anchored
<1>26. ASSUME Open("earlier"), Good
       PROVE  LET p == request["earlier"].page IN
              /\ Ascends(p.nodes) /\ p.from <= store.first
              /\ \A n \in ToSet(p.nodes) : n.ino = v /\ n.at < store.first /\ \A m \in InStore : n.at < m.at
              /\ store.truncatedBefore
              /\ p.nodes = <<>> => ~p.truncatedBefore /\ p.removed = {}
              /\ \A q, r \in p.removed : q = r
              /\ p.removed \cap Held(p.nodes) = {}
              /\ v = file.ino /\ file.ino # 0 =>
                   /\ \A n \in ToSet(p.nodes) : Valid(b, n) /\ n.at >= p.from
                   /\ Clean(b, p.from)
                   /\ p.removed \cap Shown = {} /\ \A q \in p.removed : q < Confirmed(b)
                   /\ \A s \in Shown : p.from <= s /\ s < store.first => s \in Held(p.nodes)
  BY <1>5, <1>26 DEF IInv, EarlierFits
<1>27. CASE RowsStay(frame, new)
  <2>1. /\ new.nodes = old /\ new.first = store.first /\ new.truncatedBefore = store.truncatedBefore
        /\ Frozen \/ new.newBelow = store.newBelow
        /\ new.newBelow = store.newBelow => \A n \in Sent(1) : n.at \in Held(old)
    BY <1>5, <1>12, <1>27 DEF RowsStay
  <2>2. InStore' = InStore
    BY <1>18, <2>1
  <2>3. Frozen => ~store.following
    BY DEF Frozen
  \* A frame that is not counted was held.
  <2>4. ASSUME new.newBelow = store.newBelow, NEW s \in Ats(UnderWay(v)) PROVE s \in Held(old) \/ s \in Ats(UnderWay(v)')
    BY <1>6, <2>1, <2>4 DEF Ats
  <2>5. WindowFits'
    <3>1. SUFFICES ASSUME Good PROVE WindowFits'
      BY <1>17 DEF WindowFits
    <3>2. \A m \in InStore' : m.ino = v
      BY <1>24, <2>2, <3>1
    <3>3. ~store.following => Len(store.nodes) >= WindowCap
      BY <1>24, <3>1 DEF Frozen
    <3>4. new.newBelow > 0 => ~new.following
      BY <1>15, <1>24, <2>1, <2>3, <3>1
    <3>5. /\ store.following => \A n \in UnderWay(v)' : n.at < reloaded \/ \A m \in InStore' : m.at <= n.at
          /\ v = tail.inode => \A m \in InStore' : m.at < tail.ackOffset \/ m.at < reloaded
      BY <1>6, <1>24, <2>2, <3>1
    <3>6. QED
      BY <1>4, <1>5, <1>15, <1>16, <1>24, <2>1, <3>1, <3>2, <3>3, <3>4, <3>5 DEF WindowFits
  <2>6. WindowCovers'
    <3>1. SUFFICES ASSUME Good, v = file.ino, file.ino # 0 PROVE WindowCovers'
      BY <1>4, <1>15, <1>16, <1>17 DEF WindowCovers
    <3>2. /\ \A m \in InStore' : Valid(b, m) /\ FitsFrom(b, m, new.first)
          /\ \A s \in Shown, m \in InStore' : new.first <= s /\ s <= m.at => s \in Held(new.nodes)
          /\ Clean(b, new.first)
      BY <1>15, <1>25, <2>1, <2>2, <3>1
    <3>3. ASSUME Live, new.following, NEW s \in Shown, new.first <= s, s < tail.ackOffset
          PROVE  s \in Held(new.nodes) \cup Ats(UnderWay(v)')
      <4>1. s \in Held(old) \cup Ats(UnderWay(v))
        BY <1>15, <1>25, <2>1, <3>1, <3>3
      <4>2. new.newBelow = store.newBelow
        BY <1>15, <2>1, <2>3, <3>3
      <4>3. QED
        BY <2>1, <2>4, <4>1, <4>2
    <3>4. QED
      BY <1>4, <1>5, <1>15, <1>16, <1>18, <3>2, <3>3 DEF WindowCovers
  <2>7. EarlierFits'
    <3>1. SUFFICES ASSUME Open("earlier"), Good, request'["earlier"].page = request["earlier"].page PROVE EarlierFits'
      <4>1. Open("earlier")' => "earlier" \in Requests
        BY DEF Open
      <4>2. QED
        BY <1>16, <1>17, <4>1 DEF EarlierFits
    <3>2. QED
      BY <1>4, <1>5, <1>15, <1>16, <1>18, <1>26, <2>1, <2>2, <3>1 DEF EarlierFits
  <2>8. TailPageFits'
    <3>1. SUFFICES ASSUME Open("tail"), ~Outdated("tail", new), request'["tail"].page = request["tail"].page
                   PROVE  TailPageFits'
      <4>1. Open("tail")' => "tail" \in Requests
        BY DEF Open
      <4>2. QED
        BY <1>16, <4>1 DEF TailPageFits
    <3>2. new.newBelow = store.newBelow
      BY <3>1 DEF Outdated
    <3>3. PICK p : p = request["tail"].page
      OBVIOUS
    <3>4. /\ store.newBelow > 0
          /\ Good =>
             /\ Ascends(p.nodes) /\ p.nodes # <<>>
             /\ \A n \in ToSet(p.nodes) : n.ino = v /\ n.at < p.to
             /\ \A m \in InStore : m.at < p.to
             /\ v = file.ino /\ file.ino # 0 =>
                  /\ \A n \in ToSet(p.nodes) : Valid(b, n) /\ n.at >= p.from
                  /\ Clean(b, p.from) /\ Clean(b, p.to)
                  /\ \A s \in Shown :
                       /\ p.from <= s /\ s < p.to => s \in Held(p.nodes)
                       /\ Synced /\ Live /\ p.to <= s /\ s < tail.ackOffset => s \in Ats(UnderWay(v))
      BY <1>5, <3>1, <3>3 DEF IInv, TailPageFits
    <3>5. ASSUME Good, v = file.ino, file.ino # 0, NEW s \in Shown, Live, p.to <= s, s < tail.ackOffset
          PROVE  s \in Ats(UnderWay(v)')
      <4>1. s \in Ats(UnderWay(v))
        BY <1>7, <3>4, <3>5
      <4>2. \A m \in InStore : m.at \in Nat /\ m.at < p.to
        <5>1. \A m \in InStore : m \in AnyNode
          BY <1>10, <1>18, <1>5 DEF Stores, ToSet
        <5>2. QED
          BY <3>4, <3>5, <5>1 DEF AnyNode
      <4>3. p.to \in Nat /\ s \in Nat
        <5>1. p \in Pages /\ Shown \subseteq Nat
          <6>1. Open("tail") /\ p = request["tail"].page
            BY <3>1, <3>3
          <6>2. p \in Pages
            BY <1>1, <6>1 DEF Typed, Open
          <6>3. QED
            BY <1>10, <1>18, <6>2, AtsNat
        <5>2. QED
          BY <3>5, <5>1 DEF Pages
      <4>4. s \notin Held(old)
        BY <1>18, <3>5, <4>2, <4>3 DEF Held
      <4>5. QED
        BY <2>4, <3>2, <4>1, <4>4
    <3>6. QED
      BY <1>4, <1>5, <1>15, <1>16, <1>17, <1>18, <2>2, <3>1, <3>2, <3>3, <3>4, <3>5 DEF TailPageFits
  <2>9. QED
    BY <1>19, <1>20, <1>21, <1>22, <1>23, <2>5, <2>6, <2>7, <2>8 DEF IInv
<1>28. CASE ~RowsStay(frame, new)
  <2>1. ~Frozen /\ new.newBelow = store.newBelow /\ (ComeAfter(frame) => RowsGrow(frame, new))
    BY <1>14, <1>28 DEF RowsTakenAs
  <2>2. PICK from : from = IF old = <<>> THEN frame.from ELSE store.first
    OBVIOUS
  <2>3. from \in Nat
    BY <1>10, <1>11, <2>2 DEF Stores
  <2>4. old # <<>> => \E m \in InStore : m \in AnyNode
    <3>1. old \in Seq(AnyNode)
      BY <1>5, <1>10 DEF Stores
    <3>2. old # <<>> => old[1] \in AnyNode /\ old[1] \in ToSet(old)
      BY <3>1 DEF ToSet
    <3>3. QED
      BY <1>18, <3>2
  <2>5. old = <<>> => InStore = {}
    BY <1>18 DEF ToSet
  <2>6. \A m : m \in InStore \/ m \in Sent(1) => m \in AnyNode /\ m.at \in Nat
    <3>1. \A m : m \in ToSet(old) \/ m \in ToSet(frame.nodes) => m \in AnyNode
      BY <1>5, <1>10, <1>11 DEF Stores, ToSet
    <3>2. QED
      BY <1>12, <1>18, <3>1 DEF AnyNode
  <2>7. ASSUME Good, ~Late(frame)
        PROVE  /\ store.following /\ ~(store.newBelow > 0)
               /\ Ascends(new.nodes)
               /\ \A m \in InStore' : m \in InStore \/ (m \in Sent(1) /\ Behind(m))
               /\ \/ /\ new.first = from /\ new.truncatedBefore = store.truncatedBefore
                     /\ \A m : m \in InStore \/ m \in Sent(1) => m.at \in Held(new.nodes)
                  \/ \E c \in InStore' :
                       /\ new.first = c.at /\ new.truncatedBefore
                       /\ \A m \in InStore' : c.at <= m.at
                       /\ \A m : m \in InStore \/ m \in Sent(1) => m.at \in Held(new.nodes) \/ m.at < c.at
    <3>1. store.following /\ ~(store.newBelow > 0)
      BY <1>24, <2>1, <2>7
    <3>2. \A n \in Sent(1) : n.at < reloaded \/ \A m \in InStore : m.at <= n.at
      BY <1>6, <1>7, <1>24, <2>7, <3>1
    <3>3. ComeAfter(frame)
      BY <1>5, <1>12, <1>24, <2>7, <3>2 DEF ComeAfter
    <3>4. RowsGrow(frame, new)
      BY <2>1, <3>3
    <3>5. QED
      BY <1>5, <1>12, <1>18, <2>2, <3>1, <3>4 DEF RowsGrow
  <2>8. WindowFits'
    <3>1. SUFFICES ASSUME Good, ~Late(frame) PROVE WindowFits'
      BY <1>17 DEF WindowFits
    <3>2. \A m \in InStore' : m.ino = v
      BY <1>12, <1>24, <2>7, <3>1
    <3>3. ASSUME NEW n \in UnderWay(v)' PROVE n.at < reloaded \/ \A m \in InStore' : m.at <= n.at
      BY <1>6, <1>13, <1>24, <2>7, <3>1, <3>3
    <3>4. v = tail.inode => \A m \in InStore' : m.at < tail.ackOffset \/ m.at < reloaded
      BY <1>12, <1>24, <2>7, <3>1
    <3>5. Ascends(new.nodes) /\ new.following /\ ~(new.newBelow > 0) /\ v # 0
      BY <1>15, <1>24, <2>1, <2>7, <3>1
    <3>6. QED
      BY <1>4, <1>15, <1>16, <3>2, <3>3, <3>4, <3>5 DEF WindowFits
  <2>9. WindowCovers'
    <3>1. SUFFICES ASSUME Good, ~Late(frame), v = file.ino, file.ino # 0 PROVE WindowCovers'
      BY <1>4, <1>15, <1>16, <1>17 DEF WindowCovers
    <3>2. /\ Clean(b, frame.from)
          /\ \A n \in Sent(1) : Valid(b, n) /\ FitsFrom(b, n, frame.from)
      BY <1>1, <1>5, <1>6, <1>7, <3>1 DEF FramesValid
    <3>3. Clean(b, from)
      BY <1>25, <2>2, <3>1, <3>2
    <3>4. \A m \in InStore' : Valid(b, m)
      BY <1>25, <2>7, <3>1, <3>2
    <3>5. tail.inode = v /\ Live
      BY <1>1, <1>3, <1>5, <1>7, <1>10, <3>1, InodeIs
    <3>6. ASSUME NEW m \in InStore' PROVE FitsFrom(b, m, from)
      <4>1. CASE old = <<>>
        BY <2>2, <2>5, <2>7, <3>1, <3>2, <4>1
      <4>2. CASE old # <<>> /\ m \in InStore
        BY <1>25, <2>2, <3>1, <4>2
      <4>3. CASE old # <<>> /\ m \in Sent(1) /\ Behind(m)
        <5>1. PICK q \in InStore : q \in AnyNode
          BY <2>4, <4>3
        <5>2. q.at < m.at /\ FitsFrom(b, q, from) /\ q.at \in Nat /\ m.at \in Nat
          BY <1>25, <2>2, <2>6, <3>1, <4>3, <5>1 DEF Behind
        <5>3. \A e \in Ends(b) : e \in Nat
          BY <1>10, EndsAre
        <5>4. QED
          BY <2>3, <5>2, <5>3 DEF FitsFrom, NoEndIn
      <4>4. QED
        BY <2>7, <3>1, <4>1, <4>2, <4>3
    <3>7. Shown \subseteq Nat
      BY <1>10, <1>18, AtsNat
    \* No row that is shown is cut off by a window that makes room.
    <3>8. ASSUME NEW s \in Shown, NEW c \in InStore', c.at <= s PROVE from <= s
      <4>1. c.at \in Nat /\ s \in Nat
        BY <2>6, <2>7, <3>1, <3>7
      <4>2. FitsFrom(b, c, from)
        BY <3>6
      <4>3. CASE c.at >= from
        BY <2>3, <3>8, <4>1, <4>3
      <4>4. CASE NoEndIn(b, c.at, from)
        <5>1. s < from => s < c.at
          BY <1>10, <1>18, <3>3, <4>1, <4>4, CleanCut
        <5>2. QED
          BY <2>3, <3>8, <4>1, <5>1
      <4>5. QED
        BY <4>2, <4>3, <4>4 DEF FitsFrom
    \* What the poller has read is in the window, in the frame or behind it.
    <3>9. ASSUME NEW s \in Shown, from <= s, s < tail.ackOffset
          PROVE  s \in Held(old) \/ s \in Held(frame.nodes) \/ \E n \in UnderWay(v)' : n.at = s
      <4>1. CASE s \in Ats(UnderWay(v))
        BY <1>6, <1>12, <4>1 DEF Ats, Held
      <4>2. CASE old # <<>>
        BY <1>25, <2>2, <2>7, <3>1, <3>5, <3>9, <4>1, <4>2
      <4>3. CASE old = <<>>
        <5>1. s \in Ats(UnderWay(file.ino))
          BY <1>1, <1>5, <1>6, <1>7, <2>2, <3>1, <3>5, <3>9, <4>3 DEF FirstFrames
        <5>2. QED
          BY <3>1, <4>1, <5>1
      <4>4. QED
        BY <4>2, <4>3
    <3>10. ASSUME NEW s \in Shown, new.first <= s, s \in Held(old) \/ s \in Held(frame.nodes)
           PROVE  s \in Held(new.nodes)
      <4>1. PICK m : (m \in InStore \/ m \in Sent(1)) /\ m.at = s
        BY <1>12, <1>18, <3>10 DEF Held
      <4>2. m.at \in Nat
        BY <2>6, <4>1
      <4>3. CASE \A q : q \in InStore \/ q \in Sent(1) => q.at \in Held(new.nodes)
        BY <4>1, <4>3
      <4>4. CASE \E c \in InStore' : /\ new.first = c.at
                                     /\ \A q : q \in InStore \/ q \in Sent(1) => q.at \in Held(new.nodes) \/ q.at < c.at
        <5>1. PICK c \in InStore' : /\ new.first = c.at
                                    /\ \A q : q \in InStore \/ q \in Sent(1) => q.at \in Held(new.nodes) \/ q.at < c.at
          BY <4>4
        <5>2. c.at \in Nat /\ ~(m.at < c.at)
          BY <2>6, <2>7, <3>1, <3>10, <4>1, <4>2, <5>1
        <5>3. QED
          BY <4>1, <5>1, <5>2
      <4>5. QED
        BY <2>7, <3>1, <4>3, <4>4
    <3>11. ASSUME NEW s \in Shown, new.first <= s PROVE from <= s
      <4>1. CASE new.first = from
        BY <3>11, <4>1
      <4>2. CASE \E c \in InStore' : new.first = c.at
        BY <3>8, <3>11, <4>2
      <4>3. QED
        BY <2>7, <3>1, <4>1, <4>2
    <3>12. ASSUME NEW m \in InStore' PROVE FitsFrom(b, m, new.first)
      <4>1. CASE new.first = from
        BY <3>6, <4>1
      <4>2. CASE \E c \in InStore' : new.first = c.at /\ \A q \in InStore' : c.at <= q.at
        <5>1. m.at \in Nat /\ new.first \in Nat /\ new.first <= m.at
          BY <2>6, <2>7, <3>1, <4>2
        <5>2. QED
          BY <5>1 DEF FitsFrom
      <4>3. QED
        BY <2>7, <3>1, <4>1, <4>2
    <3>13. Clean(b, new.first)
      <4>1. CASE new.first = from
        BY <3>3, <4>1
      <4>2. CASE \E c \in InStore' : new.first = c.at
        BY <3>4, <4>2 DEF Valid
      <4>3. QED
        BY <2>7, <3>1, <4>1, <4>2
    <3>14. ASSUME NEW s \in Shown, NEW m \in InStore', new.first <= s, s <= m.at
           PROVE  s \in Held(new.nodes)
      <4>1. from <= s /\ s \in Nat /\ m.at \in Nat
        BY <2>6, <2>7, <3>1, <3>7, <3>11, <3>14
      <4>2. CASE m \in InStore
        <5>1. s \in Held(old)
          BY <1>25, <2>2, <2>5, <3>1, <3>14, <4>1, <4>2
        <5>2. QED
          BY <3>10, <3>14, <5>1
      <4>3. CASE m \in Sent(1)
        <5>1. s < tail.ackOffset
          <6>1. m.at < tail.ackOffset /\ tail.ackOffset \in Nat
            BY <1>1, <1>12, <3>5, <4>3 DEF Typed, Tails
          <6>2. QED
            BY <3>14, <4>1, <6>1
        <5>2. CASE s \in Held(old) \/ s \in Held(frame.nodes)
          BY <3>10, <3>14, <5>2
        <5>3. CASE \E n \in UnderWay(v)' : n.at = s
          <6>1. m.at <= s
            BY <1>13, <4>3, <5>3
          <6>2. s = m.at
            BY <3>14, <4>1, <6>1
          <6>3. QED
            BY <1>18, <6>2 DEF Held
        <5>4. QED
          BY <3>9, <4>1, <5>1, <5>2, <5>3
      <4>4. QED
        BY <2>7, <3>1, <4>2, <4>3
    <3>15. ASSUME NEW s \in Shown, new.first <= s, s < tail.ackOffset
           PROVE  s \in Held(new.nodes) \cup Ats(UnderWay(v)')
      BY <3>9, <3>10, <3>11, <3>15 DEF Ats
    <3>16. QED
      BY <1>4, <1>5, <1>15, <1>16, <1>18, <3>4, <3>12, <3>13, <3>14, <3>15 DEF WindowCovers
  <2>10. EarlierFits'
    <3>1. SUFFICES ASSUME Open("earlier"), ~Outdated("earlier", new), Good, ~Late(frame),
                          request'["earlier"].page = request["earlier"].page
                   PROVE  EarlierFits'
      <4>1. Open("earlier")' => "earlier" \in Requests
        BY DEF Open
      <4>2. QED
        BY <1>16, <1>17, <4>1 DEF EarlierFits
    <3>2. new.first = store.first
      BY <3>1 DEF Outdated
    <3>3. PICK p : p = request["earlier"].page
      OBVIOUS
    <3>4. /\ \A n \in ToSet(p.nodes) : n.ino = v /\ n.at < store.first /\ \A m \in InStore : n.at < m.at
          /\ store.truncatedBefore
          /\ \A n \in ToSet(p.nodes) : n.at \in Nat
      <4>1. p \in Pages
        BY <1>1, <3>1, <3>3 DEF Typed, Open
      <4>2. \A n \in ToSet(p.nodes) : n \in AnyNode
        BY <4>1 DEF Pages, ToSet
      <4>3. QED
        BY <1>26, <3>1, <3>3, <4>2 DEF AnyNode
    <3>5. new.truncatedBefore
      BY <2>7, <3>1, <3>4
    <3>6. ASSUME NEW n \in ToSet(p.nodes), NEW m \in InStore' PROVE n.at < m.at
      <4>1. CASE m \in InStore
        BY <3>4, <4>1
      <4>2. CASE m \in Sent(1) /\ Behind(m) /\ old # <<>>
        <5>1. PICK q \in InStore : q \in AnyNode
          BY <2>4, <4>2
        <5>2. n.at < q.at /\ q.at < m.at /\ n.at \in Nat /\ q.at \in Nat /\ m.at \in Nat
          BY <2>6, <3>4, <4>2, <5>1 DEF Behind
        <5>3. QED
          BY <5>2
      <4>3. CASE m \in Sent(1) /\ old = <<>>
        <5>1. m.at >= store.first /\ m.at \in Nat /\ store.first \in Nat
          BY <1>5, <1>6, <1>7, <1>10, <1>24, <2>6, <3>1, <3>4, <4>3 DEF Stores
        <5>2. QED
          BY <3>4, <5>1
      <4>4. QED
        BY <2>7, <3>1, <4>1, <4>2, <4>3
    <3>7. \A n \in ToSet(p.nodes) : n.ino = v /\ n.at < new.first /\ \A m \in InStore' : n.at < m.at
      BY <3>2, <3>4, <3>6
    <3>8. QED
      BY <1>4, <1>5, <1>15, <1>16, <1>18, <1>26, <3>1, <3>2, <3>3, <3>5, <3>7 DEF EarlierFits
  <2>11. TailPageFits'
    <3>1. Open("tail")' => Open("tail") /\ ~Outdated("tail", new)
      BY <1>16 DEF Open
    <3>2. Open("tail")' => store.newBelow > 0 /\ new.newBelow > 0
      BY <2>1, <3>1 DEF IInv, TailPageFits
    <3>3. Open("tail")' => ~Good'
      BY <1>17, <2>7, <3>2
    <3>4. QED
      BY <1>16, <3>2, <3>3 DEF TailPageFits
  <2>12. QED
    BY <1>19, <1>20, <1>21, <1>22, <1>23, <2>8, <2>9, <2>10, <2>11 DEF IInv
<1>29. QED
  BY <1>27, <1>28

-----------------------------------------------------------------------------
(* An answer arrives                                                       *)

\* The nodes that are not at certain places.
OutsideOf(nodes, ats, rest) == rest = Outside(nodes, ats)

\* The nodes of a list that are not at certain places.
LEMMA OutsideIs ==
  ASSUME NEW nodes \in Seq(AnyNode), NEW ats, NEW rest, OutsideOf(nodes, ats, rest)
  PROVE  /\ rest \in Seq(AnyNode) /\ Len(rest) \in Nat /\ Len(nodes) \in Nat
         /\ \A n : n \in ToSet(rest) <=> n \in ToSet(nodes) /\ n.at \notin ats
         /\ Ascends(nodes) => Ascends(rest)
         /\ (\A n \in ToSet(nodes) : n.at \notin ats) => Len(rest) = Len(nodes)
         /\ Ascends(nodes) /\ (\A q, r \in ats : q = r) => Len(rest) >= Len(nodes) - 1
<1>1. PICK J : J = {j \in DOMAIN nodes : nodes[j].at \notin ats}
  OBVIOUS
<1>2. J \in SUBSET DOMAIN nodes /\ DOMAIN nodes = 1 .. Len(nodes) /\ Len(nodes) \in Nat
  BY <1>1
<1>3. PICK R : R = AnyNode
  OBVIOUS
<1>4. nodes \in Seq(R) /\ rest = Kept(nodes, J)
  BY <1>1, <1>3 DEF OutsideOf, Outside
<1>5. /\ rest \in Seq(R) /\ ToSet(rest) = {nodes[j] : j \in J} /\ Len(rest) = Cardinality(J) /\ Cardinality(J) \in Nat
      /\ \A i, k \in DOMAIN rest : i < k => \E a, c \in J : a < c /\ rest[i] = nodes[a] /\ rest[k] = nodes[c]
  BY <1>2, <1>4, KeptIs
<1>6. \A j \in DOMAIN nodes : nodes[j] \in AnyNode /\ nodes[j].at \in Nat
  <2>1. \A j \in DOMAIN nodes : nodes[j] \in AnyNode
    OBVIOUS
  <2>2. QED
    BY <2>1 DEF AnyNode
<1>7. \A n : n \in ToSet(rest) <=> n \in ToSet(nodes) /\ n.at \notin ats
  BY <1>1, <1>5 DEF ToSet
<1>8. ASSUME Ascends(nodes) PROVE Ascends(rest)
  <2>1. SUFFICES ASSUME NEW i \in DOMAIN rest, NEW k \in DOMAIN rest, i < k PROVE rest[i].at < rest[k].at
    BY DEF Ascends
  <2>2. PICK a \in J, c \in J : a < c /\ rest[i] = nodes[a] /\ rest[k] = nodes[c]
    BY <1>5, <2>1
  <2>3. a \in DOMAIN nodes /\ c \in DOMAIN nodes
    BY <1>2, <2>2
  <2>4. QED
    BY <1>8, <2>2, <2>3 DEF Ascends
<1>9. IsFiniteSet(DOMAIN nodes) /\ Cardinality(DOMAIN nodes) = Len(nodes)
  <2>1. 1 \in Int /\ Len(nodes) \in Int
    BY <1>2
  <2>2. PICK top \in Int : top = Len(nodes)
    BY <2>1
  <2>3. IsFiniteSet(1 .. top) /\ Cardinality(1 .. top) = IF 1 > top THEN 0 ELSE top - 1 + 1
    BY FS_Interval
  <2>4. QED
    BY <1>2, <2>2, <2>3
<1>10. ASSUME \A n \in ToSet(nodes) : n.at \notin ats PROVE Len(rest) = Len(nodes)
  <2>1. J = DOMAIN nodes
    BY <1>1, <1>10 DEF ToSet
  <2>2. QED
    BY <1>5, <1>9, <2>1
<1>11. ASSUME Ascends(nodes), \A q, r \in ats : q = r PROVE Len(rest) >= Len(nodes) - 1
  <2>1. CASE J = DOMAIN nodes
    BY <1>2, <1>5, <1>9, <2>1
  <2>2. CASE J # DOMAIN nodes
    <3>1. PICK z \in DOMAIN nodes : nodes[z].at \in ats
      BY <1>1, <1>2, <2>2
    <3>2. ASSUME NEW j \in DOMAIN nodes, nodes[j].at \in ats PROVE j = z
      <4>1. nodes[j].at = nodes[z].at
        BY <1>11, <3>1, <3>2
      <4>2. ~(j < z) /\ ~(z < j)
        BY <1>6, <1>11, <4>1 DEF Ascends
      <4>3. QED
        BY <1>2, <4>2
    <3>3. J = DOMAIN nodes \ {z}
      BY <1>1, <3>1, <3>2
    <3>4. Cardinality(J) = Cardinality(DOMAIN nodes) - 1
      BY <1>9, <3>1, <3>3, FS_RemoveElement
    <3>5. QED
      BY <1>2, <1>5, <1>9, <3>4
  <2>3. QED
    BY <2>1, <2>2
<1>12. QED
  BY <1>2, <1>3, <1>5, <1>7, <1>8, <1>10, <1>11

\* Two sequences of rows, the first before the second.
Before(s, t) == \A m \in ToSet(s), n \in ToSet(t) : m.at < n.at

\* Two lists of nodes, one after the other.
LEMMA RowsChained ==
  ASSUME NEW s \in Seq(AnyNode), NEW t \in Seq(AnyNode), NEW all, all = s \o t
  PROVE  /\ all \in Seq(AnyNode) /\ Len(all) = Len(s) + Len(t)
         /\ (\A n : n \in ToSet(all) <=> n \in ToSet(s) \/ n \in ToSet(t))
         /\ (Ascends(s) /\ Ascends(t) /\ Before(s, t) => Ascends(all))
<1>1. PICK R : R = AnyNode
  OBVIOUS
<1>3. /\ s \in Seq(R) /\ t \in Seq(R) /\ Len(s) \in Nat /\ Len(t) \in Nat
      /\ DOMAIN s = 1 .. Len(s) /\ DOMAIN t = 1 .. Len(t)
  BY <1>1
<1>4. /\ all \in Seq(R) /\ Len(all) = Len(s) + Len(t) /\ DOMAIN all = 1 .. Len(all)
      /\ \A i \in 1 .. Len(all) : all[i] = IF i <= Len(s) THEN s[i] ELSE t[i - Len(s)]
  BY <1>3
<1>5. ASSUME NEW i \in 1 .. Len(all)
      PROVE  \/ i <= Len(s) /\ i \in DOMAIN s /\ all[i] = s[i]
             \/ ~(i <= Len(s)) /\ i - Len(s) \in DOMAIN t /\ all[i] = t[i - Len(s)]
  BY <1>3, <1>4
<1>6. ASSUME NEW n, n \in ToSet(all) PROVE n \in ToSet(s) \/ n \in ToSet(t)
  <2>1. PICK i \in 1 .. Len(all) : n = all[i]
    BY <1>4, <1>6 DEF ToSet
  <2>2. QED
    BY <1>5, <2>1 DEF ToSet
<1>7. ASSUME NEW n, n \in ToSet(s) \/ n \in ToSet(t) PROVE n \in ToSet(all)
  <2>1. CASE n \in ToSet(s)
    <3>1. PICK i \in DOMAIN s : n = s[i]
      BY <2>1 DEF ToSet
    <3>2. i \in DOMAIN all /\ all[i] = s[i]
      BY <1>3, <1>4, <3>1
    <3>3. QED
      BY <3>1, <3>2 DEF ToSet
  <2>2. CASE n \in ToSet(t)
    <3>1. PICK i \in DOMAIN t : n = t[i]
      BY <2>2 DEF ToSet
    <3>2. PICK k : k = i + Len(s)
      OBVIOUS
    <3>3. k \in DOMAIN all /\ ~(k <= Len(s)) /\ k - Len(s) = i
      BY <1>3, <1>4, <3>1, <3>2
    <3>4. all[k] = t[i]
      BY <1>4, <3>3
    <3>5. QED
      BY <3>1, <3>3, <3>4 DEF ToSet
  <2>3. QED
    BY <1>7, <2>1, <2>2
<1>8. ASSUME Ascends(s), Ascends(t), Before(s, t) PROVE Ascends(all)
  <2>1. SUFFICES ASSUME NEW i \in 1 .. Len(all), NEW k \in 1 .. Len(all), i < k PROVE all[i].at < all[k].at
    BY <1>4 DEF Ascends
  <2>2. CASE k <= Len(s)
    <3>1. i \in DOMAIN s /\ k \in DOMAIN s /\ all[i] = s[i] /\ all[k] = s[k]
      BY <1>3, <1>4, <2>1, <2>2
    <3>2. QED
      BY <1>8, <2>1, <3>1 DEF Ascends
  <2>3. CASE ~(i <= Len(s))
    <3>1. PICK x, y : x = i - Len(s) /\ y = k - Len(s)
      OBVIOUS
    <3>2. x \in DOMAIN t /\ y \in DOMAIN t /\ x < y /\ all[i] = t[x] /\ all[k] = t[y]
      BY <1>3, <1>5, <2>1, <2>3, <3>1
    <3>3. QED
      BY <1>8, <3>2 DEF Ascends
  <2>4. CASE i <= Len(s) /\ ~(k <= Len(s))
    <3>1. all[i] \in ToSet(s) /\ all[k] \in ToSet(t)
      BY <1>5, <2>4 DEF ToSet
    <3>2. QED
      BY <1>8, <3>1 DEF Before
  <2>5. QED
    BY <2>2, <2>3, <2>4
<1>9. all \in Seq(AnyNode)
  BY <1>1, <1>4
<1>10. \A n : n \in ToSet(all) <=> n \in ToSet(s) \/ n \in ToSet(t)
  BY <1>6, <1>7
<1>11. Ascends(s) /\ Ascends(t) /\ Before(s, t) => Ascends(all)
  BY <1>8
<1>12. QED
  BY <1>4, <1>9, <1>10, <1>11

\* The first rows of a window that is too long.
CutTo(all, cap, kept) == kept = SubSeq(all, 1, cap)

\* The first rows of a list that is longer than the cap.
LEMMA FirstRows ==
  ASSUME NEW all \in Seq(AnyNode), NEW cap \in Nat \ {0}, Len(all) > cap, Ascends(all),
         NEW kept, CutTo(all, cap, kept)
  PROVE  /\ Len(kept) = cap /\ Ascends(kept)
         /\ \A n \in ToSet(kept) : n \in ToSet(all)
         /\ \A n \in ToSet(all) : n \in ToSet(kept) \/ \A m \in ToSet(kept) : m.at < n.at
<1>1. PICK R : R = AnyNode
  OBVIOUS
<1>2. all \in Seq(R) /\ Len(all) \in Nat /\ DOMAIN all = 1 .. Len(all)
  BY <1>1
<1>3. /\ kept \in Seq(R) /\ Len(kept) = cap /\ DOMAIN kept = 1 .. cap
      /\ \A i \in 1 .. cap : kept[i] = all[i] /\ i \in 1 .. Len(all)
  BY <1>2 DEF CutTo
<1>4. Ascends(kept)
  BY <1>2, <1>3 DEF Ascends
<1>5. \A n \in ToSet(kept) : n \in ToSet(all)
  BY <1>2, <1>3 DEF ToSet
<1>6. ASSUME NEW n \in ToSet(all), n \notin ToSet(kept), NEW m \in ToSet(kept) PROVE m.at < n.at
  <2>1. PICK i \in 1 .. Len(all) : n = all[i]
    BY <1>2 DEF ToSet
  <2>2. PICK k \in 1 .. cap : m = kept[k]
    BY <1>3 DEF ToSet
  <2>3. ASSUME i <= cap PROVE FALSE
    <3>1. i \in DOMAIN kept /\ kept[i] = n
      BY <1>3, <2>1, <2>3
    <3>2. QED
      BY <1>6, <3>1 DEF ToSet
  <2>4. k < i /\ k \in DOMAIN all /\ i \in DOMAIN all /\ m = all[k]
    BY <1>2, <1>3, <2>2, <2>3
  <2>5. QED
    BY <2>1, <2>4 DEF Ascends
<1>7. QED
  BY <1>3, <1>4, <1>5, <1>6

\* The page a window with earlier rows is made of.
PrependedOf(p, all) == all = Prepended(p)

\* A page put before the window, without the orphans it repairs.
LEMMA PrependedIs ==
  ASSUME store.nodes \in Seq(AnyNode), NEW p, p \in Pages, NEW all, PrependedOf(p, all)
  PROVE  /\ all \in Seq(AnyNode) /\ Len(all) \in Nat
         /\ \A n \in ToSet(all) : n \in ToSet(p.nodes) \/ n \in InStore
         /\ \A n : (n \in ToSet(p.nodes) \/ n \in InStore) /\ n.at \notin p.removed =>
              n.at \in Held(all) /\ (n \in InStore => n \in ToSet(all))
         /\ Ascends(store.nodes) /\ Ascends(p.nodes) /\ (\A n \in ToSet(p.nodes), m \in InStore : n.at < m.at) =>
              /\ Ascends(all)
              /\ \A n \in ToSet(p.nodes) : n.at \notin p.removed => n \in ToSet(all)
              /\ (p.nodes = <<>> => p.removed = {}) /\ (\A q, r \in p.removed : q = r) => Len(all) >= Len(store.nodes)
<1>1. PICK old, new, held, gone : old = store.nodes /\ new = p.nodes /\ held = Held(old) /\ gone = p.removed
  OBVIOUS
<1>2. old \in Seq(AnyNode) /\ new \in Seq(AnyNode) /\ InStore = ToSet(old)
  BY <1>1 DEF Pages, InStore
<1>3. PICK rest : OutsideOf(new, held, rest)
  BY DEF OutsideOf
<1>4. PICK joined : joined = rest \o old
  OBVIOUS
<1>5. OutsideOf(joined, gone, all)
  BY <1>1, <1>3, <1>4 DEF OutsideOf, PrependedOf, Prepended
<1>6. /\ rest \in Seq(AnyNode) /\ Len(rest) \in Nat /\ Len(new) \in Nat
      /\ \A n : n \in ToSet(rest) <=> n \in ToSet(new) /\ n.at \notin held
      /\ Ascends(new) => Ascends(rest)
      /\ (\A n \in ToSet(new) : n.at \notin held) => Len(rest) = Len(new)
  BY <1>2, <1>3, OutsideIs
<1>7. /\ joined \in Seq(AnyNode) /\ Len(joined) = Len(rest) + Len(old)
      /\ (\A n : n \in ToSet(joined) <=> n \in ToSet(rest) \/ n \in ToSet(old))
      /\ (Ascends(rest) /\ Ascends(old) /\ Before(rest, old) => Ascends(joined))
  BY <1>2, <1>4, <1>6, RowsChained
<1>8. /\ all \in Seq(AnyNode) /\ Len(all) \in Nat /\ Len(joined) \in Nat
      /\ \A n : n \in ToSet(all) <=> n \in ToSet(joined) /\ n.at \notin gone
      /\ Ascends(joined) => Ascends(all)
      /\ (\A n \in ToSet(joined) : n.at \notin gone) => Len(all) = Len(joined)
      /\ Ascends(joined) /\ (\A q, r \in gone : q = r) => Len(all) >= Len(joined) - 1
  BY <1>5, <1>7, OutsideIs
<1>9. \A n \in ToSet(all) : n \in ToSet(new) \/ n \in InStore
  BY <1>2, <1>6, <1>7, <1>8
<1>10. ASSUME NEW n, n \in ToSet(new) \/ n \in InStore, n.at \notin gone
       PROVE  n.at \in Held(all) /\ (n \in InStore => n \in ToSet(all))
  <2>1. CASE n \in InStore
    <3>1. n \in ToSet(all)
      BY <1>2, <1>7, <1>8, <1>10, <2>1
    <3>2. QED
      BY <3>1 DEF Held
  <2>2. CASE n \in ToSet(new) /\ n \notin InStore /\ n.at \notin held
    <3>1. n \in ToSet(all)
      BY <1>6, <1>7, <1>8, <1>10, <2>2
    <3>2. QED
      BY <2>2, <3>1 DEF Held
  <2>3. CASE n \notin InStore /\ n.at \in held
    <3>1. PICK m \in ToSet(old) : m.at = n.at
      BY <1>1, <2>3 DEF Held
    <3>2. m \in ToSet(all)
      BY <1>7, <1>8, <1>10, <3>1
    <3>3. QED
      BY <2>3, <3>1, <3>2 DEF Held
  <2>4. QED
    BY <1>10, <2>1, <2>2, <2>3
<1>11. ASSUME Ascends(old), Ascends(new), \A n \in ToSet(new), m \in InStore : n.at < m.at
       PROVE  /\ Ascends(all)
              /\ \A n \in ToSet(new) : n.at \notin gone => n \in ToSet(all)
              /\ (new = <<>> => gone = {}) /\ (\A q, r \in gone : q = r) => Len(all) >= Len(old)
  <2>1. \A n \in ToSet(new) : n \in AnyNode /\ n.at \in Nat
    <3>1. \A n \in ToSet(new) : n \in AnyNode
      BY <1>2 DEF ToSet
    <3>2. QED
      BY <3>1 DEF AnyNode
  <2>2. \A n \in ToSet(new) : n.at \notin held
    BY <1>1, <1>2, <1>11, <2>1 DEF Held
  <2>3. Ascends(joined)
    <3>1. Before(rest, old)
      BY <1>2, <1>6, <1>11 DEF Before
    <3>2. QED
      BY <1>6, <1>7, <1>11, <3>1
  <2>4. \A n \in ToSet(new) : n.at \notin gone => n \in ToSet(all)
    BY <1>6, <1>7, <1>8, <2>2
  <2>5. ASSUME new = <<>> => gone = {}, \A q, r \in gone : q = r PROVE Len(all) >= Len(old)
    <3>1. Len(old) \in Nat
      BY <1>2
    <3>2. CASE gone = {}
      BY <1>6, <1>7, <1>8, <3>1, <3>2
    <3>3. CASE new # <<>>
      <4>1. Len(new) > 0
        BY <1>2, <3>3
      <4>2. QED
        BY <1>6, <1>7, <1>8, <2>2, <2>3, <2>5, <3>1, <4>1
    <3>4. QED
      BY <2>5, <3>2, <3>3
  <2>6. QED
    BY <1>8, <2>3, <2>4, <2>5
<1>12. QED
  BY <1>1, <1>2, <1>8, <1>9, <1>10, <1>11

\* The window with earlier rows: it drops its last ones when it is too long.
PageTaken(p, new) == new = WithPage(p)

\* The window begins where the page does.
Widened(p, new) ==
  /\ new.gen = store.gen /\ new.ver = store.ver /\ new.newBelow = store.newBelow
  /\ new.first = p.from /\ new.truncatedBefore = p.truncatedBefore

\* The page has rows from before the window.
EarlierRows(p) ==
  /\ Ascends(store.nodes) /\ Ascends(p.nodes)
  /\ \A n \in ToSet(p.nodes), m \in InStore : n.at < m.at
  /\ p.nodes = <<>> => p.removed = {}
  /\ \A q, r \in p.removed : q = r
  /\ p.removed \cap Held(p.nodes) = {}

\* The rows of the page and of the window, as far as the cap allows.
RowsPrepended(p, new) ==
  /\ Ascends(new.nodes)
  /\ \A n \in ToSet(new.nodes) : n \in ToSet(p.nodes) \/ n \in InStore
  /\ \A n : (n \in ToSet(p.nodes) \/ n \in InStore) /\ n.at \notin p.removed =>
       n \in ToSet(new.nodes) \/ \A m \in ToSet(new.nodes) : m.at < n.at
  /\ new.nodes = <<>> => p.nodes = <<>> /\ store.nodes = <<>>
  /\ new.following => /\ store.following
                      /\ \A n : (n \in ToSet(p.nodes) \/ n \in InStore) /\ n.at \notin p.removed =>
                           n \in ToSet(new.nodes)
  /\ ~new.following => Len(new.nodes) = WindowCap \/ (~store.following /\ Len(new.nodes) >= Len(store.nodes))

\* A flag that compares two numbers.
LEMMA MoreThan ==
  ASSUME NEW x, NEW n \in Nat, NEW m \in Nat, x = (n > m)
  PROVE  x \in BOOLEAN /\ (x <=> n > m)
<1>1. x \in BOOLEAN
  OBVIOUS
<1>2. x <=> n > m
  BY <1>1, Zenon
<1>3. QED
  BY <1>1, <1>2, Zenon

\* What a window is after a page was put before it.
LEMMA PageTakenIs ==
  ASSUME store \in Stores, NEW p, p \in Pages, NEW new, PageTaken(p, new)
  PROVE  new \in Stores /\ Widened(p, new) /\ (EarlierRows(p) => RowsPrepended(p, new))
<1>1. PICK all : PrependedOf(p, all)
  BY DEF PrependedOf
<1>2. PICK evicts : evicts = (Len(all) > WindowCap)
  OBVIOUS
<1>3. PICK nodes : nodes = IF evicts THEN SubSeq(all, 1, WindowCap) ELSE all
  OBVIOUS
<1>4. store.nodes \in Seq(AnyNode) /\ store.following \in BOOLEAN /\ WindowCap \in Nat \ {0}
  BY SizesAssumption DEF Stores
<1>5. /\ all \in Seq(AnyNode) /\ Len(all) \in Nat
      /\ \A n \in ToSet(all) : n \in ToSet(p.nodes) \/ n \in InStore
      /\ \A n : (n \in ToSet(p.nodes) \/ n \in InStore) /\ n.at \notin p.removed =>
           n.at \in Held(all) /\ (n \in InStore => n \in ToSet(all))
      /\ Ascends(store.nodes) /\ Ascends(p.nodes) /\ (\A n \in ToSet(p.nodes), m \in InStore : n.at < m.at) =>
           /\ Ascends(all)
           /\ \A n \in ToSet(p.nodes) : n.at \notin p.removed => n \in ToSet(all)
           /\ (p.nodes = <<>> => p.removed = {}) /\ (\A q, r \in p.removed : q = r) => Len(all) >= Len(store.nodes)
  BY <1>1, <1>4, PrependedIs
<1>14. evicts \in BOOLEAN /\ (evicts <=> Len(all) > WindowCap)
  <2>1. PICK n \in Nat, m \in Nat : n = Len(all) /\ m = WindowCap
    BY <1>4, <1>5
  <2>2. evicts = (n > m)
    BY <1>2, <2>1
  <2>3. evicts \in BOOLEAN /\ (evicts <=> n > m)
    BY <2>2, MoreThan
  <2>4. QED
    BY <2>1, <2>3
<1>6. nodes \in Seq(AnyNode)
  <2>1. PICK R : R = AnyNode
    OBVIOUS
  <2>2. all \in Seq(R)
    BY <1>5, <2>1
  <2>3. CASE evicts
    <3>1. SubSeq(all, 1, WindowCap) \in Seq(R)
      BY <1>4, <1>5, <1>14, <2>2, <2>3
    <3>2. QED
      BY <1>3, <2>1, <2>3, <3>1
  <2>4. CASE ~evicts
    BY <1>3, <1>5, <2>4
  <2>5. QED
    BY <2>3, <2>4
<1>7. PICK following \in BOOLEAN : following = (store.following /\ ~evicts)
  BY <1>4, <1>14
<1>8. PICK from \in Nat, truncated \in BOOLEAN : from = p.from /\ truncated = p.truncatedBefore
  BY DEF Pages
<1>9. new = [store EXCEPT !.nodes = nodes, !.first = from, !.following = following, !.truncatedBefore = truncated]
  BY <1>1, <1>2, <1>3, <1>7, <1>8 DEF PageTaken, WithPage, PrependedOf
<1>10. /\ new \in Stores /\ new.gen = store.gen /\ new.ver = store.ver /\ new.newBelow = store.newBelow
       /\ new.first = from /\ new.truncatedBefore = truncated /\ new.following = following /\ new.nodes = nodes
  BY <1>6, <1>9 DEF Stores
<1>11. ASSUME EarlierRows(p) PROVE RowsPrepended(p, new)
  <2>1. /\ Ascends(all) /\ Len(all) >= Len(store.nodes)
        /\ \A n \in ToSet(p.nodes) : n.at \notin p.removed => n \in ToSet(all)
    BY <1>5, <1>11 DEF EarlierRows
  <2>2. \A n : (n \in ToSet(p.nodes) \/ n \in InStore) /\ n.at \notin p.removed => n \in ToSet(all)
    BY <1>5, <2>1
  <2>3. /\ Ascends(nodes)
        /\ \A n \in ToSet(nodes) : n \in ToSet(all)
        /\ \A n \in ToSet(all) : n \in ToSet(nodes) \/ \A m \in ToSet(nodes) : m.at < n.at
        /\ evicts => Len(nodes) = WindowCap
    <3>1. CASE evicts
      <4>1. CutTo(all, WindowCap, nodes) /\ Len(all) > WindowCap
        BY <1>3, <1>14, <3>1 DEF CutTo
      <4>2. QED
        BY <1>4, <1>5, <2>1, <4>1, FirstRows
    <3>2. CASE ~evicts
      BY <1>3, <1>14, <2>1, <3>2
    <3>3. QED
      BY <3>1, <3>2
  <2>4. \A n \in ToSet(nodes) : n \in ToSet(p.nodes) \/ n \in InStore
    BY <1>5, <2>3
  <2>5. ASSUME NEW n, (n \in ToSet(p.nodes) \/ n \in InStore) /\ n.at \notin p.removed
        PROVE  n \in ToSet(nodes) \/ \A m \in ToSet(nodes) : m.at < n.at
    BY <2>2, <2>3, <2>5
  <2>6. ASSUME nodes = <<>> PROVE p.nodes = <<>> /\ store.nodes = <<>>
    <3>1. all = <<>>
      BY <1>3, <1>4, <1>5, <1>14, <2>3, <2>6
    <3>2. ToSet(all) = {}
      BY <3>1 DEF ToSet
    <3>3. store.nodes = <<>>
      BY <1>4, <1>5, <2>1, <3>1
    <3>4. ToSet(p.nodes) = {}
      BY <1>11, <2>1, <3>2 DEF EarlierRows, Held
    <3>5. p.nodes = <<>>
      <4>1. p.nodes \in Seq(AnyNode)
        BY DEF Pages
      <4>2. p.nodes # <<>> => p.nodes[1] \in ToSet(p.nodes)
        BY <4>1 DEF ToSet
      <4>3. QED
        BY <3>4, <4>2
    <3>6. QED
      BY <3>3, <3>5
  <2>7. ASSUME following
        PROVE  /\ store.following
               /\ \A n : (n \in ToSet(p.nodes) \/ n \in InStore) /\ n.at \notin p.removed => n \in ToSet(nodes)
    <3>1. store.following /\ ~evicts
      BY <1>4, <1>7, <1>14, <2>7
    <3>2. nodes = all
      BY <1>3, <3>1
    <3>3. QED
      BY <2>2, <3>1, <3>2
  <2>8. ASSUME ~following
        PROVE  Len(nodes) = WindowCap \/ (~store.following /\ Len(nodes) >= Len(store.nodes))
    BY <1>3, <1>4, <1>7, <1>14, <2>1, <2>3, <2>8
  <2>9. QED
    BY <1>10, <2>3, <2>4, <2>5, <2>6, <2>7, <2>8 DEF RowsPrepended
<1>12. Widened(p, new)
  BY <1>8, <1>10 DEF Widened
<1>13. QED
  BY <1>10, <1>11, <1>12

\* A window that is replaced by the last page.
LEMMA WithTailIs ==
  ASSUME store \in Stores, NEW p, p \in Pages, NEW new, new = WithTail(p)
  PROVE  /\ new \in Stores /\ new.gen = store.gen /\ new.ver = store.ver /\ new.nodes = p.nodes
         /\ new.first = p.from /\ new.following /\ new.newBelow = 0 /\ new.truncatedBefore = p.truncatedBefore
BY DEF WithTail, Stores, Pages

\* What an answer leaves alone, and when it fits the window.
LEMMA AnsweredIs ==
  ASSUME Typed, NEW r \in Requests, Answer(r), NEW p, p = request[r].page
  PROVE  /\ UNCHANGED <<file, tail, pending, seq, chan, conn, connections, lastSeq>>
         /\ p \in Pages /\ store \in Stores
         /\ store' = IF r = "earlier" THEN WithPage(p) ELSE WithTail(p)
         /\ Good' => Good /\ Open(r)
         /\ DOMAIN request' = Requests /\ ~Open(r)'
         /\ \A q \in Requests : /\ DOMAIN request'[q] = {"st", "raced", "page"}
                                /\ request'[q].st = "asked" => request'[q].page \in Pages
         /\ \A q : Open(q)' => /\ q \in Requests /\ Open(q) /\ r # "tail" /\ ~Outdated(q, store')
                               /\ request'[q].page = request[q].page
         /\ reloaded' = IF r = "tail" THEN p.to ELSE reloaded
<1>1. PICK new : new = IF r = "earlier" THEN WithPage(p) ELSE WithTail(p)
  OBVIOUS
<1>2. /\ UNCHANGED <<file, tail, pending, seq, chan, conn, connections, lastSeq>>
      /\ store' = new /\ request[r].st = "asked"
      /\ request' = [q \in Requests |->
           IF q = r THEN NoRequest
           ELSE [request[q] EXCEPT !.raced = @ \/ (request[q].st = "asked" /\ (r = "tail" \/ Outdated(q, new)))]]
      /\ torn' = IF request[r].raced THEN torn \cup {"answer"} ELSE torn
      /\ reloaded' = IF r = "tail" THEN p.to ELSE reloaded
  BY <1>1 DEF Answer, server, client
<1>3. p \in Pages /\ store \in Stores
  BY <1>2 DEF Typed
<1>4. Good' => Good /\ Open(r)
  BY <1>2 DEF Good, Open
<1>5. DOMAIN request' = Requests /\ request'[r] = NoRequest
  BY <1>2
<1>6. /\ ~Open(r)' /\ request'[r].st # "asked" /\ DOMAIN request'[r] = {"st", "raced", "page"}
  BY <1>5 DEF Open, NoRequest
<1>7. ASSUME NEW q \in Requests, q # r
      PROVE  /\ DOMAIN request'[q] = {"st", "raced", "page"}
             /\ request'[q].st = request[q].st /\ request'[q].page = request[q].page
             /\ Open(q)' => Open(q) /\ r # "tail" /\ ~Outdated(q, new)
  <2>1. PICK more \in BOOLEAN : more = (request[q].st = "asked" /\ (r = "tail" \/ Outdated(q, new)))
    OBVIOUS
  <2>2. request'[q] = [request[q] EXCEPT !.raced = @ \/ more]
    BY <1>2, <1>7, <2>1
  <2>3. DOMAIN request[q] = {"st", "raced", "page"}
    BY DEF Typed
  <2>4. /\ DOMAIN request'[q] = {"st", "raced", "page"}
        /\ request'[q].st = request[q].st /\ request'[q].page = request[q].page
        /\ request'[q].raced = (request[q].raced \/ more)
    BY <2>2, <2>3
  <2>5. Open(q)' => Open(q) /\ ~more
    BY <2>4 DEF Open
  <2>6. QED
    BY <2>1, <2>4, <2>5 DEF Open
<1>8. \A q \in Requests : /\ DOMAIN request'[q] = {"st", "raced", "page"}
                          /\ request'[q].st = "asked" => request'[q].page \in Pages
  BY <1>6, <1>7 DEF Typed
<1>9. \A q : Open(q)' => /\ q \in Requests /\ Open(q) /\ r # "tail" /\ ~Outdated(q, new)
                         /\ request'[q].page = request[q].page
  <2>1. SUFFICES ASSUME NEW q, Open(q)'
                 PROVE  /\ q \in Requests /\ Open(q) /\ r # "tail" /\ ~Outdated(q, new)
                        /\ request'[q].page = request[q].page
    OBVIOUS
  <2>2. q \in Requests /\ q # r
    BY <1>6, <2>1 DEF Open
  <2>3. QED
    BY <1>7, <2>1, <2>2
<1>10. QED
  BY <1>1, <1>2, <1>3, <1>4, <1>5, <1>6, <1>8, <1>9

\* What an answer does to a window does not touch the frames.
LEMMA AnswerFrames ==
  ASSUME IInv, UNCHANGED <<file, tail, pending, seq, chan, conn, connections, lastSeq>>,
         store' \in Stores, store'.gen = store.gen, store'.ver = store.ver,
         Good' => Good, Good' /\ Synced /\ store.ver = file.ino /\ store'.nodes = <<>> => store.nodes = <<>>
  PROVE  Versions' /\ TailFits' /\ InSequence' /\ FramesValid' /\ HelloFits' /\ FirstFrames'
<1>1. Live' = Live /\ Synced' = Synced /\ Shown' = Shown
  BY DEF Live, Synced, Shown
<1>2. PICK ino : ino = file.ino
  OBVIOUS
<1>3. UnderWay(ino)' = UnderWay(ino) /\ \A j : IsRows(j)' = IsRows(j)
  BY DEF UnderWay, IsRows, Kind, Sent
<1>4. FirstFrames'
  <2>1. FirstFrames
    BY DEF IInv
  <2>2. SUFFICES ASSUME Live, NEW j \in DOMAIN chan, IsRows(j), chan[j].ver = ino,
                        \A i \in 1 .. j - 1 : ~(IsRows(i) /\ chan[i].ver = ino),
                        Synced /\ store.ver = ino => Good' /\ store'.nodes = <<>>
                 PROVE  \A s \in Shown : chan[j].frame.from <= s /\ s < tail.ackOffset => s \in Ats(UnderWay(ino))
    BY <1>1, <1>2, <1>3 DEF FirstFrames
  <2>3. Synced /\ store.ver = ino => Good /\ store.nodes = <<>>
    BY <1>2, <2>2
  <2>4. QED
    BY <1>2, <2>1, <2>2, <2>3 DEF FirstFrames
<1>5. Versions'
  BY DEF IInv, Versions, Kind, Begins, Synced
<1>6. QED
  BY <1>4, <1>5, TailFitsSame, InSequenceSame, FramesValidSame, HelloFitsSame DEF IInv

\* What is under way is nodes.
LEMMA UnderWayTyped ==
  ASSUME Typed, NEW v
  PROVE  UnderWay(v) \subseteq AnyNode
<1>1. SUFFICES ASSUME NEW n \in UnderWay(v) PROVE n \in AnyNode
  OBVIOUS
<1>2. PICK j \in DOMAIN chan : IsRows(j) /\ n \in Sent(j)
  BY DEF UnderWay
<1>3. chan[j] \in Envelopes
  <2>1. chan \in Seq(Envelopes)
    BY DEF Typed
  <2>2. QED
    BY <2>1
<1>4. chan[j].frame.nodes \in Seq(AnyNode)
  BY <1>2, <1>3 DEF Envelopes, Frames, IsRows, Kind
<1>5. QED
  BY <1>2, <1>4 DEF Sent, ToSet

\* The last page arrives and replaces the window.
LEMMA AnswerTailKeeps ==
  ASSUME IInv, "tail" \in Requests, Answer("tail")
  PROVE  IInv'
<1>1. Typed
  BY DEF IInv
<1>2. PICK r, p : r = "tail" /\ p = request[r].page
  OBVIOUS
<1>3. /\ UNCHANGED <<file, tail, pending, seq, chan, conn, connections, lastSeq>>
      /\ p \in Pages /\ store \in Stores
      /\ store' = WithTail(p)
      /\ Good' => Good /\ Open("tail")
      /\ DOMAIN request' = Requests
      /\ \A q \in Requests : /\ DOMAIN request'[q] = {"st", "raced", "page"}
                             /\ request'[q].st = "asked" => request'[q].page \in Pages
      /\ \A q : ~Open(q)'
      /\ reloaded' = p.to
  BY <1>1, <1>2, AnsweredIs
<1>4. PICK new : new = WithTail(p)
  OBVIOUS
<1>5. /\ store' = new /\ new \in Stores /\ new.gen = store.gen /\ new.ver = store.ver /\ new.nodes = p.nodes
      /\ new.first = p.from /\ new.following /\ new.newBelow = 0 /\ new.truncatedBefore = p.truncatedBefore
  BY <1>3, <1>4, WithTailIs
<1>6. p.to \in Nat /\ p.from \in Nat /\ p.nodes \in Seq(AnyNode)
  BY <1>3 DEF Pages
<1>7. Typed'
  BY <1>1, <1>3, <1>5, <1>6 DEF Typed
<1>8. PICK v, b, ino : v = store.ver /\ b = file.bytes /\ ino = file.ino
  OBVIOUS
<1>9. /\ UnderWay(v)' = UnderWay(v) /\ Live' = Live /\ Synced' = Synced /\ Shown' = Shown
      /\ InStore' = ToSet(p.nodes)
  BY <1>3, <1>5 DEF UnderWay, IsRows, Kind, Sent, Live, Synced, Shown, InStore
<1>10. ASSUME Good'
       PROVE  /\ Ascends(p.nodes) /\ p.nodes # <<>>
              /\ \A n \in ToSet(p.nodes) : n.ino = v /\ n.at < p.to
              /\ v = ino /\ ino # 0 =>
                   /\ \A n \in ToSet(p.nodes) : Valid(b, n) /\ n.at >= p.from
                   /\ Clean(b, p.from) /\ Clean(b, p.to)
                   /\ \A s \in Shown :
                        /\ p.from <= s /\ s < p.to => s \in Held(p.nodes)
                        /\ Synced /\ Live /\ p.to <= s /\ s < tail.ackOffset => s \in Ats(UnderWay(v))
              /\ v # 0
  <2>1. Good /\ Open("tail")
    BY <1>3, <1>10
  <2>2. v # 0
    <3>1. store.newBelow > 0
      BY <2>1 DEF IInv, TailPageFits
    <3>2. Len(store.nodes) >= WindowCap /\ WindowCap \in Nat \ {0}
      BY <2>1, <3>1, SizesAssumption DEF IInv, WindowFits
    <3>3. store.nodes # <<>>
      BY <3>2
    <3>4. QED
      BY <1>8, <2>1, <3>3 DEF IInv, WindowFits
  <2>3. QED
    BY <1>2, <1>8, <2>1, <2>2 DEF IInv, TailPageFits
<1>11. \A n \in ToSet(p.nodes) : n \in AnyNode /\ n.at \in Nat
  <2>1. \A n \in ToSet(p.nodes) : n \in AnyNode
    BY <1>6 DEF ToSet
  <2>2. QED
    BY <2>1 DEF AnyNode
<1>12. \A n \in UnderWay(v) : n.at \in Nat
  <2>1. UnderWay(v) \subseteq AnyNode
    BY <1>1, UnderWayTyped
  <2>2. QED
    BY <2>1 DEF AnyNode
<1>13. Shown \subseteq Nat /\ tail.ackOffset \in Nat
  <2>1. b \in Seq(Byte) /\ tail.ackOffset \in Nat
    BY <1>1, <1>8 DEF Typed, Tails
  <2>2. QED
    BY <1>8, <2>1, AtsNat DEF Shown
<1>14. WindowFits'
  <2>1. SUFFICES ASSUME Good' PROVE WindowFits'
    BY DEF WindowFits
  <2>2. \A n \in UnderWay(v) : n.at < p.to \/ \A m \in ToSet(p.nodes) : m.at <= n.at
    BY <1>6, <1>10, <1>11, <1>12, <2>1
  <2>3. QED
    BY <1>3, <1>5, <1>8, <1>9, <1>10, <2>1, <2>2 DEF WindowFits
<1>15. WindowCovers'
  <2>1. SUFFICES ASSUME Good', v = ino, ino # 0 PROVE WindowCovers'
    BY <1>3, <1>5, <1>8 DEF WindowCovers
  <2>2. \A m \in InStore' : Valid(b, m) /\ FitsFrom(b, m, new.first)
    BY <1>5, <1>9, <1>10, <2>1 DEF FitsFrom
  <2>3. ASSUME NEW s \in Shown, NEW m \in InStore', new.first <= s, s <= m.at PROVE s \in Held(new.nodes)
    <3>1. s < p.to /\ p.from <= s
      BY <1>5, <1>6, <1>9, <1>10, <1>11, <1>13, <2>1, <2>3
    <3>2. QED
      BY <1>5, <1>10, <2>1, <3>1
  <2>4. ASSUME Synced, Live, NEW s \in Shown, new.first <= s, s < tail.ackOffset
        PROVE  s \in Held(new.nodes) \cup Ats(UnderWay(v))
    <3>1. s < p.to \/ p.to <= s
      BY <1>6, <1>13
    <3>2. QED
      BY <1>5, <1>10, <2>1, <2>4, <3>1
  <2>5. Clean(b, new.first)
    BY <1>5, <1>10, <2>1
  <2>6. QED
    BY <1>3, <1>5, <1>8, <1>9, <2>2, <2>3, <2>4, <2>5 DEF WindowCovers
<1>16. EarlierFits' /\ TailPageFits'
  BY <1>3 DEF EarlierFits, TailPageFits
<1>17. Versions' /\ TailFits' /\ InSequence' /\ FramesValid' /\ HelloFits' /\ FirstFrames'
  <2>1. Good' /\ Synced /\ store.ver = file.ino /\ store'.nodes = <<>> => store.nodes = <<>>
    BY <1>5, <1>10
  <2>2. QED
    BY <1>3, <1>5, <2>1, AnswerFrames
<1>18. QED
  BY <1>7, <1>14, <1>15, <1>16, <1>17 DEF IInv

\* The page of the rows before the window arrives and is put there.
LEMMA AnswerEarlierKeeps ==
  ASSUME IInv, "earlier" \in Requests, Answer("earlier")
  PROVE  IInv'
<1>1. Typed
  BY DEF IInv
<1>2. PICK r, p : r = "earlier" /\ p = request[r].page
  OBVIOUS
<1>3. /\ UNCHANGED <<file, tail, pending, seq, chan, conn, connections, lastSeq>>
      /\ p \in Pages /\ store \in Stores
      /\ store' = WithPage(p)
      /\ Good' => Good /\ Open("earlier")
      /\ DOMAIN request' = Requests /\ ~Open("earlier")'
      /\ \A q \in Requests : /\ DOMAIN request'[q] = {"st", "raced", "page"}
                             /\ request'[q].st = "asked" => request'[q].page \in Pages
      /\ \A q : Open(q)' => /\ q \in Requests /\ Open(q) /\ ~Outdated(q, store')
                            /\ request'[q].page = request[q].page
      /\ reloaded' = reloaded
  BY <1>1, <1>2, AnsweredIs
<1>4. PICK new : PageTaken(p, new)
  BY DEF PageTaken
<1>5. store' = new /\ new \in Stores /\ Widened(p, new) /\ (EarlierRows(p) => RowsPrepended(p, new))
  BY <1>3, <1>4, PageTakenIs DEF PageTaken
<1>6. /\ new.gen = store.gen /\ new.ver = store.ver /\ new.newBelow = store.newBelow
      /\ new.first = p.from /\ new.truncatedBefore = p.truncatedBefore
  BY <1>5 DEF Widened
<1>7. p.from \in Nat /\ p.nodes \in Seq(AnyNode) /\ store.first \in Nat /\ store.nodes \in Seq(AnyNode)
  BY <1>3 DEF Pages, Stores
<1>8. Typed'
  BY <1>1, <1>3, <1>5 DEF Typed
<1>9. PICK v, b, ino, old, pn : v = store.ver /\ b = file.bytes /\ ino = file.ino /\ old = store.nodes /\ pn = p.nodes
  OBVIOUS
<1>10. /\ UnderWay(v)' = UnderWay(v) /\ Live' = Live /\ Synced' = Synced /\ Shown' = Shown /\ Shown = ShownAts(b)
       /\ InStore = ToSet(old) /\ InStore' = ToSet(new.nodes)
  <2>1. UnderWay(v)' = UnderWay(v)
    BY <1>3 DEF UnderWay, IsRows, Kind, Sent
  <2>2. Live' = Live /\ Synced' = Synced /\ Shown' = Shown /\ Shown = ShownAts(b)
    BY <1>3, <1>5, <1>6, <1>9 DEF Live, Synced, Shown
  <2>3. InStore = ToSet(old) /\ InStore' = ToSet(new.nodes)
    BY <1>5, <1>9 DEF InStore
  <2>4. QED
    BY <2>1, <2>2, <2>3
<1>11. /\ \A m : m \in ToSet(pn) \/ m \in InStore => m \in AnyNode /\ m.at \in Nat
       /\ old # <<>> => \E m \in InStore : m = old[1]
  <2>1. \A m : m \in ToSet(pn) \/ m \in InStore => m \in AnyNode
    BY <1>7, <1>9, <1>10 DEF ToSet
  <2>2. old # <<>> => old[1] \in ToSet(old)
    BY <1>7, <1>9 DEF ToSet
  <2>3. QED
    BY <1>10, <2>1, <2>2 DEF AnyNode
<1>12. \A n \in UnderWay(v) : n.at \in Nat
  <2>1. UnderWay(v) \subseteq AnyNode
    BY <1>1, UnderWayTyped
  <2>2. QED
    BY <2>1 DEF AnyNode
<1>13. Shown \subseteq Nat /\ tail.ackOffset \in Nat /\ tail.inode \in Nat /\ b \in Seq(Byte)
  <2>1. b \in Seq(Byte) /\ tail.ackOffset \in Nat /\ tail.inode \in Nat
    BY <1>1, <1>9 DEF Typed, Tails
  <2>2. QED
    BY <1>10, <2>1, AtsNat
\* The window and the page, when they fit.
<1>14. ASSUME Good'
       PROVE  /\ Ascends(pn) /\ p.from <= store.first
              /\ \A n \in ToSet(pn) : n.ino = v /\ n.at < store.first /\ \A m \in InStore : n.at < m.at
              /\ store.truncatedBefore
              /\ pn = <<>> => ~p.truncatedBefore /\ p.removed = {}
              /\ \A q, t \in p.removed : q = t
              /\ p.removed \cap Held(pn) = {}
              /\ v = ino /\ ino # 0 =>
                   /\ \A n \in ToSet(pn) : Valid(b, n) /\ n.at >= p.from
                   /\ Clean(b, p.from)
                   /\ p.removed \cap Shown = {}
                   /\ \A s \in Shown : p.from <= s /\ s < store.first => s \in Held(pn)
  BY <1>2, <1>3, <1>9, <1>14 DEF IInv, EarlierFits
<1>15. ASSUME Good'
       PROVE  /\ Ascends(old)
              /\ \A m \in InStore : m.ino = v
              /\ ~store.following => Len(old) >= WindowCap
              /\ store.newBelow > 0 => ~store.following
              /\ v # 0
              /\ Synced /\ store.following => \A n \in UnderWay(v) : n.at < reloaded \/ \A m \in InStore : m.at <= n.at
              /\ Synced /\ v = tail.inode => \A m \in InStore : m.at < tail.ackOffset \/ m.at < reloaded
              /\ Synced /\ old = <<>> => /\ \A n \in UnderWay(v) : n.at >= store.first
                                         /\ v = tail.inode => store.first <= tail.ackOffset
  BY <1>3, <1>9, <1>14, <1>15 DEF IInv, WindowFits
<1>16. ASSUME Good' PROVE RowsPrepended(p, new)
  <2>1. EarlierRows(p)
    BY <1>9, <1>14, <1>15, <1>16 DEF EarlierRows
  <2>2. QED
    BY <1>5, <2>1
<1>17. WindowFits'
  <2>1. SUFFICES ASSUME Good' PROVE WindowFits'
    BY DEF WindowFits
  <2>2. /\ Ascends(new.nodes)
        /\ \A m \in InStore' : m \in ToSet(pn) \/ m \in InStore
        /\ new.nodes = <<>> => pn = <<>> /\ old = <<>>
        /\ new.following => store.following
        /\ ~new.following => Len(new.nodes) = WindowCap \/ (~store.following /\ Len(new.nodes) >= Len(old))
    BY <1>9, <1>10, <1>16, <2>1 DEF RowsPrepended
  <2>3. \A m \in InStore' : m.ino = v
    BY <1>14, <1>15, <2>1, <2>2
  <2>4. ~new.following => Len(new.nodes) >= WindowCap
    <3>1. new.nodes \in Seq(AnyNode) /\ WindowCap \in Nat
      BY <1>5, SizesAssumption DEF Stores
    <3>2. Len(new.nodes) \in Nat /\ Len(old) \in Nat
      BY <1>7, <1>9, <3>1
    <3>3. QED
      BY <1>15, <2>1, <2>2, <3>1, <3>2
  <2>5. new.newBelow > 0 => ~new.following
    BY <1>6, <1>15, <2>1, <2>2
  <2>6. ASSUME Synced, new.following, NEW n \in UnderWay(v), ~(n.at < reloaded), NEW m \in InStore' PROVE m.at <= n.at
    <3>1. CASE m \in InStore
      BY <1>15, <2>1, <2>2, <2>6, <3>1
    <3>2. CASE m \in ToSet(pn) /\ old = <<>>
      BY <1>7, <1>11, <1>12, <1>14, <1>15, <2>1, <2>6, <3>2
    <3>3. CASE m \in ToSet(pn) /\ old # <<>>
      <4>1. PICK q \in InStore : q.at \in Nat
        BY <1>11, <3>3
      <4>2. m.at < q.at /\ q.at <= n.at /\ m.at \in Nat /\ n.at \in Nat
        BY <1>11, <1>12, <1>14, <1>15, <2>1, <2>2, <2>6, <3>3, <4>1
      <4>3. QED
        BY <4>1, <4>2
    <3>4. QED
      BY <2>2, <3>1, <3>2, <3>3
  <2>7. ASSUME Synced, v = tail.inode, NEW m \in InStore' PROVE m.at < tail.ackOffset \/ m.at < reloaded
    <3>1. CASE m \in InStore
      BY <1>15, <2>1, <2>7, <3>1
    <3>2. CASE m \in ToSet(pn) /\ old = <<>>
      BY <1>7, <1>11, <1>13, <1>14, <1>15, <2>1, <2>7, <3>2
    <3>3. CASE m \in ToSet(pn) /\ old # <<>>
      <4>1. PICK q \in InStore : q.at \in Nat
        BY <1>11, <3>3
      <4>2. m.at < q.at /\ m.at \in Nat /\ (q.at < tail.ackOffset \/ q.at < reloaded) /\ reloaded \in Nat
        BY <1>1, <1>11, <1>14, <1>15, <2>1, <2>7, <3>3, <4>1 DEF Typed
      <4>3. QED
        BY <1>13, <4>1, <4>2
    <3>4. QED
      BY <2>2, <3>1, <3>2, <3>3
  <2>8. ~(new.nodes = <<>> /\ new.truncatedBefore)
    BY <1>6, <1>14, <2>1, <2>2
  <2>9. v # 0
    BY <1>15, <2>1
  <2>10. QED
    BY <1>3, <1>5, <1>6, <1>9, <1>10, <2>2, <2>3, <2>4, <2>5, <2>6, <2>7, <2>8, <2>9 DEF WindowFits
<1>18. WindowCovers'
  <2>1. SUFFICES ASSUME Good', v = ino, ino # 0 PROVE WindowCovers'
    BY <1>3, <1>5, <1>6, <1>9 DEF WindowCovers
  <2>2. /\ Ascends(new.nodes)
        /\ \A m \in InStore' : m \in ToSet(pn) \/ m \in InStore
        /\ \A n : (n \in ToSet(pn) \/ n \in InStore) /\ n.at \notin p.removed =>
             n \in InStore' \/ \A m \in InStore' : m.at < n.at
        /\ new.following => /\ store.following
                            /\ \A n : (n \in ToSet(pn) \/ n \in InStore) /\ n.at \notin p.removed => n \in InStore'
    BY <1>9, <1>10, <1>16, <2>1 DEF RowsPrepended
  <2>3. /\ \A m \in InStore : Valid(b, m) /\ FitsFrom(b, m, store.first)
        /\ \A s \in Shown, m \in InStore : store.first <= s /\ s <= m.at => s \in Held(old)
        /\ Synced /\ Live /\ store.following =>
             \A s \in Shown : store.first <= s /\ s < tail.ackOffset => s \in Held(old) \cup Ats(UnderWay(v))
    <3>1. Good /\ Anchored
      BY <1>3, <1>14, <2>1 DEF Anchored
    <3>2. QED
      BY <1>9, <2>1, <3>1 DEF IInv, WindowCovers
  <2>4. ASSUME NEW m \in InStore' PROVE Valid(b, m) /\ FitsFrom(b, m, new.first)
    <3>1. CASE m \in ToSet(pn)
      BY <1>6, <1>14, <2>1, <3>1 DEF FitsFrom
    <3>2. CASE m \in InStore
      <4>1. Valid(b, m) /\ FitsFrom(b, m, store.first) /\ m.at \in Nat /\ p.from <= store.first
        BY <1>11, <1>14, <2>1, <2>3, <3>2
      <4>2. \A e \in Ends(b) : e \in Nat
        BY <1>13, EndsAre
      <4>3. QED
        BY <1>6, <1>7, <4>1, <4>2 DEF FitsFrom, NoEndIn
    <3>3. QED
      BY <2>2, <3>1, <3>2
  \* What is shown of the page and the window is shown of both.
  <2>5. ASSUME NEW s \in Shown, s \in Held(pn) \/ s \in Held(old)
        PROVE  \/ s \in Held(new.nodes)
               \/ ~new.following /\ \A m \in InStore' : m.at < s
    <3>1. PICK n : (n \in ToSet(pn) \/ n \in InStore) /\ n.at = s
      BY <1>10, <2>5 DEF Held
    <3>2. n.at \notin p.removed
      BY <1>14, <2>1, <3>1
    <3>3. CASE n \in InStore'
      BY <1>10, <3>1, <3>3 DEF Held
    <3>4. CASE n \notin InStore'
      BY <2>2, <3>1, <3>2, <3>4
    <3>5. QED
      BY <3>3, <3>4
  <2>6. ASSUME NEW s \in Shown, NEW m \in InStore', new.first <= s, s <= m.at PROVE s \in Held(new.nodes)
    <3>1. s \in Nat /\ m.at \in Nat
      BY <1>11, <1>13, <2>2
    <3>2. s \in Held(pn) \/ s \in Held(old)
      <4>1. CASE s < store.first
        BY <1>6, <1>14, <2>1, <2>6, <4>1
      <4>2. CASE ~(s < store.first) /\ m \in InStore
        BY <1>7, <2>3, <2>6, <3>1, <4>2
      <4>3. CASE ~(s < store.first) /\ m \in ToSet(pn)
        BY <1>7, <1>14, <2>1, <2>6, <3>1, <4>3
      <4>4. QED
        BY <2>2, <4>1, <4>2, <4>3
    <3>3. ~(m.at < s)
      BY <2>6, <3>1
    <3>4. QED
      BY <2>5, <3>2, <3>3
  <2>7. ASSUME Synced, Live, new.following, NEW s \in Shown, new.first <= s, s < tail.ackOffset
        PROVE  s \in Held(new.nodes) \cup Ats(UnderWay(v))
    <3>1. s \in Nat
      BY <1>13
    <3>2. s \in Held(pn) \/ s \in Held(old) \/ s \in Ats(UnderWay(v))
      <4>1. CASE s < store.first
        BY <1>6, <1>14, <2>1, <2>7, <4>1
      <4>2. CASE ~(s < store.first)
        BY <1>7, <2>2, <2>3, <2>7, <3>1, <4>2
      <4>3. QED
        BY <4>1, <4>2
    <3>3. QED
      BY <2>5, <2>7, <3>2
  <2>8. Clean(b, new.first)
    BY <1>6, <1>14, <2>1
  <2>9. QED
    BY <1>3, <1>5, <1>6, <1>9, <1>10, <2>4, <2>6, <2>7, <2>8 DEF WindowCovers
<1>19. EarlierFits'
  BY <1>3 DEF EarlierFits
<1>20. TailPageFits'
  <2>1. SUFFICES ASSUME Open("tail"), ~Outdated("tail", new), request'["tail"].page = request["tail"].page
                 PROVE  TailPageFits'
    BY <1>3, <1>5 DEF TailPageFits
  <2>2. new.nodes = old /\ new.newBelow = store.newBelow
    BY <1>9, <2>1 DEF Outdated
  <2>3. InStore' = InStore
    BY <1>10, <2>2
  <2>4. Good' => Good
    BY <1>3
  <2>5. QED
    BY <1>3, <1>5, <1>6, <1>9, <1>10, <2>1, <2>2, <2>3, <2>4 DEF IInv, TailPageFits
<1>21. Versions' /\ TailFits' /\ InSequence' /\ FramesValid' /\ HelloFits' /\ FirstFrames'
  <2>1. Good' /\ Synced /\ store.ver = file.ino /\ store'.nodes = <<>> => store.nodes = <<>>
    BY <1>5, <1>16 DEF RowsPrepended
  <2>2. QED
    BY <1>3, <1>5, <1>6, <2>1, AnswerFrames
<1>22. QED
  BY <1>8, <1>17, <1>18, <1>19, <1>20, <1>21 DEF IInv

-----------------------------------------------------------------------------
(* The theorem                                                             *)

\* Every step keeps the invariant.
LEMMA NextKeeps ==
  ASSUME IInv, [Next]_vars
  PROVE  IInv'
<1>1. CASE Next
  <2>1. CASE Write
    BY <2>1, WriteKeeps
  <2>2. CASE Rotate
    BY <2>2, RotateKeeps
  <2>3. CASE Delete
    BY <2>3, DeleteKeeps
  <2>4. CASE Connect
    BY <2>4, ConnectKeeps
  <2>5. CASE TickGone
    BY <2>5, TickGoneKeeps
  <2>6. CASE TickReset
    BY <2>6, TickResetKeeps
  <2>7. CASE TickRows
    BY <2>7, TickRowsKeeps
  <2>8. CASE PollerFails
    BY <2>8, PollerFailsKeeps
  <2>9. CASE Drop
    <3>1. Disconnect
      BY <2>9 DEF Drop
    <3>2. QED
      BY <3>1, DisconnectKeeps
  <2>10. CASE IdleTimeout
    <3>1. Disconnect
      BY <2>10 DEF IdleTimeout
    <3>2. QED
      BY <3>1, DisconnectKeeps
  <2>11. CASE ReceiveHello
    BY <2>11, ReceiveHelloKeeps
  <2>12. CASE ReceiveRows
    BY <2>12, ReceiveRowsKeeps
  <2>13. CASE ReceivePatch
    BY <2>13, ReceivePatchKeeps
  <2>14. CASE ReceiveReset
    BY <2>14, ReceiveResetKeeps
  <2>15. CASE ReceiveGone
    BY <2>15, ReceiveGoneKeeps
  <2>16. CASE AskEarlier
    BY <2>16, AskEarlierKeeps
  <2>17. CASE AskTail
    BY <2>17, AskTailKeeps
  <2>18. CASE \E r \in Requests : Answer(r) \/ FailAnswer(r)
    <3>1. PICK r \in Requests : Answer(r) \/ FailAnswer(r)
      BY <2>18
    <3>2. CASE FailAnswer(r)
      BY <3>2, FailKeeps
    <3>3. CASE Answer(r) /\ r = "tail"
      BY <3>3, AnswerTailKeeps
    <3>4. CASE Answer(r) /\ r = "earlier"
      BY <3>4, AnswerEarlierKeeps
    <3>5. QED
      BY <3>1, <3>2, <3>3, <3>4, SizesAssumption
  <2>19. QED
    BY <1>1, <2>1, <2>2, <2>3, <2>4, <2>5, <2>6, <2>7, <2>8, <2>9, <2>10, <2>11, <2>12, <2>13,
       <2>14, <2>15, <2>16, <2>17, <2>18 DEF Next, Tick, Receive
<1>2. CASE UNCHANGED vars
  <2>1. UNCHANGED <<file, tail, pending, seq, lastSeq, connections, chan, conn, store, request, reloaded, torn>>
    BY <1>2 DEF vars, server, client, asking, history
  <2>2. QED
    BY <2>1, TypedSame, VersionsSame, TailFitsSame, InSequenceSame, FramesValidSame, HelloFitsSame, FirstFramesSame,
       WindowFitsSame, WindowCoversSame, EarlierFitsSame, TailPageFitsSame DEF IInv
<1>3. QED
  BY <1>1, <1>2

\* What the parts of IInv say of the window, in the words of the property.
LEMMA WindowIsOneRange ==
  ASSUME IInv
  PROVE  OneRange
<1>1. SUFFICES ASSUME Good PROVE Contiguous
  BY DEF OneRange, Good
<1>2. Typed /\ WindowFits /\ WindowCovers
  BY DEF IInv
<1>3. PICK b, ino, old : b = file.bytes /\ ino = file.ino /\ old = store.nodes
  OBVIOUS
<1>4. b \in Seq(Byte) /\ old \in Seq(AnyNode) /\ InStore = ToSet(old) /\ Shown = ShownAts(b) /\ store.first \in Nat
  BY <1>2, <1>3 DEF Typed, Stores, InStore, Shown
<1>5. /\ Ascends(old)
      /\ \A m \in InStore : m.ino = store.ver
      /\ store.ver = 0 => old = <<>>
  BY <1>1, <1>2, <1>3 DEF WindowFits
<1>6. old # <<>> => 1 \in DOMAIN old /\ Len(old) \in DOMAIN old /\ old[1] \in InStore /\ old[Len(old)] \in InStore
  BY <1>4 DEF ToSet
<1>7. old = <<>> => InStore = {}
  BY <1>4 DEF ToSet
<1>8. \A m \in InStore : m \in AnyNode /\ m.at \in Nat
  <2>1. \A m \in InStore : m \in AnyNode
    BY <1>4 DEF ToSet
  <2>2. QED
    BY <2>1 DEF AnyNode
<1>9. ASSUME store.ver = ino, old # <<>>
      PROVE  /\ \A m \in InStore : Valid(b, m) /\ FitsFrom(b, m, store.first)
             /\ \A s \in Shown, m \in InStore : store.first <= s /\ s <= m.at => s \in Held(old)
             /\ Clean(b, store.first)
  BY <1>1, <1>2, <1>3, <1>5, <1>9 DEF WindowCovers, Anchored
<1>10. ASSUME ino = store.ver, NEW n \in ToSet(old), n.k \notin {"oversized", "unreadable"}
       PROVE  n.at \in {row.at : row \in Rows(b)}
  <2>1. Valid(b, n)
    BY <1>4, <1>7, <1>9, <1>10
  <2>2. PICK row \in Rows(b) : row.at = n.at
    BY <1>10, <2>1 DEF Valid
  <2>3. QED
    BY <2>2
<1>11. ASSUME NEW row \in Rows(b), store.ver = ino, old # <<>>, Len(row.text) <= RowCap,
              row.at >= old[1].at, row.at <= old[Len(old)].at, ParsedKind(row.text) \in {"text", "call"}
       PROVE  \E n \in ToSet(old) : /\ n.at = row.at /\ n.ino = store.ver
                                    /\ n.k = ParsedKind(row.text) \/ (n.k = "done" /\ ParsedKind(row.text) = "call")
  <2>1. PICK s : s = row.at
    OBVIOUS
  <2>2. s \in Shown
    BY <1>4, <1>11, <2>1 DEF ShownAts
  <2>3. s \in Nat
    BY <1>4, <2>2, AtsNat
  <2>4. store.first <= s
    <3>1. old[1].at \in Nat /\ old[1].at <= s
      BY <1>6, <1>8, <1>11, <2>1
    <3>2. CASE old[1].at >= store.first
      BY <1>4, <2>3, <3>1, <3>2
    <3>3. CASE NoEndIn(b, old[1].at, store.first)
      <4>1. s < store.first => s < old[1].at
        BY <1>4, <1>9, <1>11, <2>2, <3>1, <3>3, CleanCut
      <4>2. QED
        BY <1>4, <2>3, <3>1, <4>1
    <3>4. QED
      BY <1>6, <1>9, <1>11, <3>2, <3>3 DEF FitsFrom
  <2>5. s \in Held(old)
    BY <1>6, <1>9, <1>11, <2>1, <2>2, <2>4
  <2>6. PICK n \in ToSet(old) : n.at = s
    BY <2>5 DEF Held
  <2>7. Valid(b, n) /\ n.ino = store.ver
    BY <1>4, <1>5, <1>9, <1>11
  <2>8. n.k \notin {"oversized", "unreadable"}
    BY <1>4, <2>2, <2>6, <2>7 DEF Valid
  <2>9. PICK other \in Rows(b) : /\ other.at = n.at
                                 /\ n.k = ParsedKind(other.text) \/ (n.k = "done" /\ ParsedKind(other.text) = "call")
    BY <2>7, <2>8 DEF Valid
  <2>10. other = row
    BY <1>4, <2>1, <2>6, <2>9, RowsAre
  <2>11. QED
    BY <2>1, <2>6, <2>7, <2>9, <2>10
<1>12. ASSUME NEW row \in RowsHeld
       PROVE  /\ ParsedKind(row.text) = "text" => Shows({"text"}, row)
              /\ ParsedKind(row.text) = "call" => Shows({"call", "done"}, row)
  <2>1. /\ row \in Rows(b) /\ store.ver = ino /\ old # <<>> /\ Len(row.text) <= RowCap
        /\ row.at >= old[1].at /\ row.at <= old[Len(old)].at
    BY <1>3, <1>12 DEF RowsHeld
  <2>2. SUFFICES ASSUME ParsedKind(row.text) \in {"text", "call"}
                 PROVE  /\ ParsedKind(row.text) = "text" => Shows({"text"}, row)
                        /\ ParsedKind(row.text) = "call" => Shows({"call", "done"}, row)
    OBVIOUS
  <2>3. PICK n \in ToSet(old) : /\ n.at = row.at /\ n.ino = store.ver
                                /\ n.k = ParsedKind(row.text) \/ (n.k = "done" /\ ParsedKind(row.text) = "call")
    BY <1>11, <2>1, <2>2
  <2>4. QED
    BY <1>3, <2>3 DEF Shows
<1>13. QED
  BY <1>3, <1>5, <1>10, <1>12 DEF Contiguous, Ascends

\* What is in the browser's window and what is under way to it fits the transcript
\* file, whatever the session writes, however its file is replaced, wherever the poller
\* stops reading, and however the stream breaks, resumes and answers: serve.ts and the
\* tail of the transcript together with rowStore.ts.
THEOREM StreamFitsFile ==
  Spec => []IInv
<1>1. Init => IInv
  BY InitIInv
<1>2. IInv /\ [Next]_vars => IInv'
  BY NextKeeps
<1>3. QED
  BY <1>1, <1>2, PTL DEF Spec

\* The rows rowStore.ts shows are one range of the rows of one file: in file order, each
\* once, none left out between the first and the last, each as the file has it. Frames
\* of the stream, pages of history and reloads of the tail are put together from
\* different reads of a file that grows, and a node names a place by its offset alone.
\* OneRange excepts a store that has taken an answer asked for another window, or rows
\* the hello of a reload had in it already: rowStore.ts checks neither.
THEOREM WindowStaysOneRange ==
  Spec => []OneRange
<1>1. IInv => OneRange
  BY WindowIsOneRange
<1>2. QED
  BY <1>1, StreamFitsFile, PTL

-----------------------------------------------------------------------------
(* The poller tells of the result once                                     *)

\* There is one call row; and nodes of one tick or window that tell of the result are one.
LEMMA CallAtsAre ==
  ASSUME NEW b, IsTranscript(b)
  PROVE  CallAts(b) \subseteq Nat /\ \A c, d \in CallAts(b) : c = d
<1>0. b \in Seq(Byte)
  BY DEF IsTranscript
<1>1. ASSUME NEW c \in CallAts(b) PROVE c \in Nat /\ c + 1 \in DOMAIN b /\ b[c + 1] = "c"
  <2>1. PICK e : IsRow(b, c, e) /\ ParsedKind(RowOf(b, c, e).text) = "call"
    BY <1>0, ShownAre
  <2>2. b[c + 1] = "c"
    BY <1>0, <2>1, FirstByte
  <2>3. c \in Nat /\ c + 1 \in DOMAIN b
    BY <1>0, <2>1, RowBounds, EndsAre
  <2>4. QED
    BY <2>2, <2>3
<1>2. ASSUME NEW c \in CallAts(b), NEW d \in CallAts(b) PROVE c = d
  <2>1. c + 1 = d + 1
    BY <1>1 DEF IsTranscript
  <2>2. QED
    BY <1>1, <2>1
<1>3. QED
  BY <1>1, <1>2

\* A set of nodes holds one at the most that tells of the result.
OneTells(N) == \A n, m \in Telling(N) : n = m

LEMMA EmissionTells ==
  ASSUME NEW b, IsTranscript(b), NEW lo, NEW to, NEW base, NEW ino, NEW N, Emission(b, lo, to, base, ino, N), OneForm(N)
  PROVE  OneTells(N)
<1>1. ASSUME NEW n \in Telling(N), NEW m \in Telling(N) PROVE n = m
  <2>1. n \in N /\ m \in N /\ n.k \in {"result", "done"} /\ m.k \in {"result", "done"}
    BY DEF Telling
  <2>2. Valid(b, n) /\ Valid(b, m)
    BY <2>1 DEF Emission
  <2>3. n.k = m.k
    BY <2>1 DEF OneForm
  <2>4. n.at = m.at
    <3>1. CASE n.k = "result"
      BY <2>2, <2>3, <3>1, ResultAtsAre
    <3>2. CASE n.k = "done"
      BY <2>2, <2>3, <3>2, ResultAtsAre, CallAtsAre
    <3>3. QED
      BY <2>1, <3>1, <3>2
  <2>5. QED
    BY <2>1, <2>4 DEF Emission
<1>2. QED
  BY <1>1 DEF OneTells

\* What is told stays told, while frames only leave.
LEMMA ToldPopped ==
  ASSUME Typed, ToldOnce, Popped, Live' => Live
  PROVE  ToldOnce'
<1>1. UNCHANGED <<file, tail>>
  BY DEF Popped
<1>2. /\ Len(chan) \in Nat /\ Len(chan') \in Nat /\ DOMAIN chan = 1 .. Len(chan) /\ DOMAIN chan' = 1 .. Len(chan')
      /\ \A k \in DOMAIN chan' : /\ k + 1 \in DOMAIN chan /\ chan'[k] = chan[k + 1]
                                 /\ Kind(k)' = Kind(k + 1) /\ IsRows(k)' = IsRows(k + 1) /\ Sent(k)' = Sent(k + 1)
  BY Pop
<1>3. \A k \in DOMAIN chan' : Tells(k)' = Tells(k + 1)
  BY <1>2 DEF Tells, Telling
<1>4. ASSUME NEW i \in DOMAIN chan', NEW j \in DOMAIN chan', Tells(i)', Tells(j)', chan'[i].ver = chan'[j].ver
      PROVE  i = j
  <2>1. i + 1 = j + 1
    BY <1>2, <1>3, <1>4 DEF ToldOnce
  <2>2. QED
    BY <1>2, <2>1
<1>5. ASSUME NEW j \in DOMAIN chan', IsRows(j)' PROVE OneForm(Sent(j))'
  BY <1>2, <1>5 DEF ToldOnce, OneForm
<1>6. ASSUME Live', NEW j \in DOMAIN chan', Tells(j)', chan'[j].ver = file.ino
      PROVE  \E r \in ResultAts(file.bytes) : r < tail.ackOffset
  BY <1>2, <1>3, <1>6 DEF ToldOnce
<1>7. QED
  BY <1>1, <1>4, <1>5, <1>6 DEF ToldOnce

\* A step that sends nothing and leaves the file and the tail, or the stream, as they are.
LEMMA ToldSame ==
  ASSUME ToldOnce, chan' = chan, Live' => /\ Live /\ UNCHANGED <<file, tail>>
  PROVE  ToldOnce'
<1>1. \A j : Tells(j)' = Tells(j) /\ IsRows(j)' = IsRows(j) /\ Sent(j)' = Sent(j)
  BY DEF Tells, Telling, IsRows, Kind, Sent
<1>2. ASSUME Live', NEW j \in DOMAIN chan', Tells(j)', chan'[j].ver = file'.ino
      PROVE  \E r \in ResultAts(file.bytes) : r < tail.ackOffset
  BY <1>1, <1>2 DEF ToldOnce
<1>3. \A j : OneForm(Sent(j))' = OneForm(Sent(j))
  BY <1>1 DEF OneForm
<1>4. QED
  BY <1>1, <1>2, <1>3 DEF ToldOnce

\* What the poller adds tells of the result once, and only where none has told of it.
LEMMA ToldExtended ==
  ASSUME Typed, ToldOnce, file' = file, NEW N, NEW from, NEW P, NEW ver, Extended(N, from, P, ver),
         OneForm(N), OneTells(N), P # {} => Telling(N) = {},
         P # {} \/ Telling(N) # {} => \A i \in DOMAIN chan : Tells(i) => chan[i].ver # ver,
         Live' => /\ P # {} \/ Telling(N) # {} => \E r \in ResultAts(file.bytes) : r < tail'.ackOffset
                  /\ \A i \in DOMAIN chan : Tells(i) /\ chan[i].ver = file.ino =>
                       \E r \in ResultAts(file.bytes) : r < tail'.ackOffset
  PROVE  ToldOnce'
<1>1. /\ \A k \in DOMAIN chan : k \in DOMAIN chan' /\ chan'[k] = chan[k] /\ IsRows(k)' = IsRows(k)
                                /\ Kind(k)' = Kind(k) /\ Sent(k)' = Sent(k)
      /\ DOMAIN chan' = 1 .. Len(chan')
  BY ExtendedKeeps
<1>2. \A k \in DOMAIN chan : Tells(k)' = Tells(k)
  BY <1>1 DEF Tells, Telling
<1>3. ASSUME NEW k \in DOMAIN chan', k \notin DOMAIN chan
      PROVE  /\ chan'[k].ver = ver
             /\ IsRows(k)' => \A n \in Sent(k)' : n \in N
             /\ Kind(k)' = "patch" => /\ P # {}
                                      /\ \A i \in DOMAIN chan' : i \notin DOMAIN chan /\ Kind(i)' = "patch" => i = k
             /\ Tells(k)' => P # {} \/ (IsRows(k)' /\ \E n \in Sent(k)' : n \in Telling(N))
  <2>1. /\ chan'[k].ver = ver
        /\ IsRows(k)' => \A n \in Sent(k)' : n \in N
        /\ Kind(k)' = "patch" => /\ P # {}
                                 /\ \A i \in DOMAIN chan' : i \notin DOMAIN chan /\ Kind(i)' = "patch" => i = k
    BY <1>3 DEF Extended
  <2>2. ASSUME Tells(k)', Kind(k)' # "patch" PROVE IsRows(k)' /\ \E n \in Sent(k)' : n \in Telling(N)
    <3>1. IsRows(k)' /\ \E n \in Sent(k)' : n.k \in {"result", "done"}
      BY <2>2 DEF Tells, Telling
    <3>2. QED
      BY <2>1, <3>1 DEF Telling
  <2>3. QED
    BY <2>1, <2>2
<1>4. ASSUME NEW i \in DOMAIN chan', NEW j \in DOMAIN chan', i \notin DOMAIN chan, j \notin DOMAIN chan, Tells(i)', Tells(j)'
      PROVE  i = j
  <2>1. CASE P # {}
    <3>1. Telling(N) = {}
      BY <2>1
    <3>2. Kind(i)' = "patch" /\ Kind(j)' = "patch"
      BY <1>3, <1>4, <3>1 DEF Tells, Telling
    <3>3. QED
      BY <1>3, <1>4, <3>2
  <2>2. CASE P = {}
    <3>1. PICK n \in Sent(i)', m \in Sent(j)' : n \in Telling(N) /\ m \in Telling(N) /\ IsRows(i)' /\ IsRows(j)'
      BY <1>3, <1>4, <2>2
    <3>2. n = m
      BY <3>1 DEF OneTells
    <3>3. ~(i < j) /\ ~(j < i)
      BY <1>4, <3>1, <3>2 DEF Extended
    <3>4. QED
      BY <1>1, <3>3
  <2>3. QED
    BY <2>1, <2>2
<1>5. ASSUME NEW k \in DOMAIN chan', k \notin DOMAIN chan, Tells(k)' PROVE P # {} \/ Telling(N) # {}
  BY <1>3, <1>5
<1>6. ASSUME NEW i \in DOMAIN chan', NEW j \in DOMAIN chan', Tells(i)', Tells(j)', chan'[i].ver = chan'[j].ver
      PROVE  i = j
  <2>1. CASE i \in DOMAIN chan /\ j \in DOMAIN chan
    BY <1>1, <1>2, <1>6, <2>1 DEF ToldOnce
  <2>2. CASE i \notin DOMAIN chan /\ j \notin DOMAIN chan
    BY <1>4, <1>6, <2>2
  <2>3. CASE i \in DOMAIN chan /\ j \notin DOMAIN chan
    BY <1>1, <1>2, <1>3, <1>5, <1>6, <2>3
  <2>4. CASE i \notin DOMAIN chan /\ j \in DOMAIN chan
    BY <1>1, <1>2, <1>3, <1>5, <1>6, <2>4
  <2>5. QED
    BY <2>1, <2>2, <2>3, <2>4
<1>7. ASSUME NEW j \in DOMAIN chan', IsRows(j)' PROVE OneForm(Sent(j))'
  <2>1. CASE j \in DOMAIN chan
    <3>1. OneForm(Sent(j)) /\ Sent(j)' = Sent(j)
      BY <1>1, <1>7, <2>1 DEF ToldOnce
    <3>2. QED
      BY <3>1 DEF OneForm
  <2>2. CASE j \notin DOMAIN chan
    <3>1. \A n \in Sent(j)' : n \in N
      BY <1>3, <1>7, <2>2
    <3>2. QED
      BY <3>1 DEF OneForm
  <2>3. QED
    BY <2>1, <2>2
<1>8. ASSUME Live', NEW j \in DOMAIN chan', Tells(j)', chan'[j].ver = file.ino
      PROVE  \E r \in ResultAts(file.bytes) : r < tail'.ackOffset
  <2>1. CASE j \in DOMAIN chan
    BY <1>1, <1>2, <1>8, <2>1
  <2>2. CASE j \notin DOMAIN chan
    BY <1>5, <1>8, <2>2
  <2>3. QED
    BY <2>1, <2>2
<1>9. QED
  BY <1>6, <1>7, <1>8 DEF ToldOnce

\* What a stream is opened with tells of the result once.
LEMMA OpenedTells ==
  ASSUME Typed, ToldOnce, file' = file, NEW first, NEW from, NEW N, Opened(first, from, N),
         \A i \in DOMAIN chan : chan[i].ver # file.ino
  PROVE  ToldOnce'
<1>1. PICK b, ino, ack : b = file.bytes /\ ino = file.ino /\ ack = tail'.ackOffset
  OBVIOUS
<1>2. Emission(b, from, ack, from, ino, N) /\ WindowTells(b, ack, N) /\ Extended(N, from, {}, ino)
  BY <1>1 DEF Opened
<1>3. IsTranscript(b)
  BY <1>1 DEF Typed
<1>4. OneForm(N) /\ (Telling(N) # {} => \E r \in ResultAts(b) : r < ack)
  BY <1>2 DEF WindowTells
<1>5. OneTells(N)
  BY <1>2, <1>3, <1>4, EmissionTells
<1>6. PICK P : P = {}
  OBVIOUS
<1>7. Extended(N, from, P, ino)
  BY <1>2, <1>6
<1>8. QED
  BY <1>1, <1>4, <1>5, <1>6, <1>7, ToldExtended

\* A reset is of a file that was not followed before: a tail is not past the end of its file.
LEMMA ResetIsOfAnother ==
  ASSUME IInv, TickReset
  PROVE  /\ tail.inode < file.ino /\ \A k \in DOMAIN chan : chan[k].ver # file.ino
         /\ Synced => store.ver # file.ino
<1>1. conn = "open" /\ file.ino # 0 /\ (Truncated \/ Rotated)
  BY DEF TickReset
<1>2. Typed /\ Versions /\ TailFits
  BY DEF IInv
<1>3. file.ino \in Nat /\ tail.inode \in Nat /\ store.ver \in Nat
  BY <1>2 DEF Typed, Tails, Stores
<1>4. tail.inode >= 1 /\ tail.inode <= file.ino
  BY <1>1, <1>2, <1>3 DEF Versions
<1>5. tail.inode # file.ino
  <2>1. SUFFICES ASSUME tail.inode = file.ino PROVE FALSE
    OBVIOUS
  <2>2. Follows(file.bytes, tail)
    BY <1>1, <1>2, <2>1 DEF TailFits, Live
  <2>3. tail.offset <= Len(file.bytes) /\ tail.offset \in Nat /\ Len(file.bytes) \in Nat
    BY <1>2, <2>2 DEF Follows, Typed, Tails
  <2>4. QED
    BY <1>1, <2>1, <2>3 DEF Truncated, Rotated
<1>6. \A k \in DOMAIN chan : chan[k].ver <= tail.inode /\ chan[k].ver \in Nat
  <2>1. \A k \in DOMAIN chan : chan[k] \in Envelopes
    BY <1>2 DEF Typed
  <2>2. QED
    BY <1>2, <2>1 DEF Versions, Envelopes
<1>7. Synced => store.ver <= tail.inode
  BY <1>2 DEF Versions
<1>8. QED
  BY <1>3, <1>4, <1>5, <1>6, <1>7

\* A stream that is opened has told of nothing before.
LEMMA ConnectTells ==
  ASSUME IInv, ToldOnce, Connect
  PROVE  ToldOnce'
<1>1. conn = "waiting" /\ connections' = connections + 1 /\ file.ino # 0 /\ file' = file
  BY DEF Connect, OpenStream
<1>2. Typed /\ Versions
  BY DEF IInv
<1>3. PICK hello : hello = [f |-> "hello", gen |-> connections', from |-> Window.from,
                            truncatedBefore |-> Window.truncatedBefore]
  OBVIOUS
<1>4. connections' \in Nat
  BY <1>1, <1>2 DEF Typed
<1>5. hello \in Frames /\ hello.f = "hello"
  <2>1. Window.from \in Nat /\ Window.truncatedBefore \in BOOLEAN
    BY <1>2, WindowTyped
  <2>2. hello \in [f : {"hello"}, gen : Nat, from : Nat, truncatedBefore : BOOLEAN]
    BY <1>3, <1>4, <2>1
  <2>3. QED
    BY <1>3, <2>2 DEF Frames
<1>6. SendWindow(Window, <<hello>>)
  BY <1>3 DEF Connect
<1>7. PICK N : Opened(hello, Window.from, N)
  BY <1>2, <1>5, <1>6, SendWindowIs
<1>8. DOMAIN chan = {}
  BY <1>1, <1>2 DEF Versions
<1>9. QED
  BY <1>1, <1>2, <1>7, <1>8, OpenedTells

\* A reset begins a segment that has told of nothing before.
LEMMA ResetTells ==
  ASSUME IInv, ToldOnce, TickReset
  PROVE  ToldOnce'
<1>1. conn = "open" /\ file.ino # 0 /\ (Truncated \/ Rotated) /\ file' = file
  BY DEF TickReset
<1>2. Typed /\ Versions
  BY DEF IInv
<1>3. PICK reset : reset = [f |-> "reset"]
  OBVIOUS
<1>4. reset \in Frames /\ reset.f = "reset"
  <2>1. reset \in [f : {"reset", "gone"}]
    BY <1>3
  <2>2. QED
    BY <1>3, <2>1 DEF Frames
<1>5. SendWindow(Window, <<reset>>)
  BY <1>3 DEF TickReset
<1>6. PICK N : Opened(reset, Window.from, N)
  BY <1>2, <1>4, <1>5, SendWindowIs
<1>7. QED
  BY <1>1, <1>2, <1>6, ResetIsOfAnother, OpenedTells

\* The rows of a tick and its patch tell of the result when the tick passes it.
LEMMA TickTellsOnce ==
  ASSUME IInv, ToldOnce, TickRows
  PROVE  ToldOnce'
<1>1. conn = "open" /\ file.ino # 0 /\ ~Rotated /\ file' = file /\ conn' = conn
  BY DEF TickRows, client
<1>2. Typed /\ Versions /\ TailFits
  BY DEF IInv
<1>3. tail.inode = file.ino /\ Live
  BY <1>1, <1>2 DEF Rotated, Live, Versions, Typed, Tails
<1>4. PICK z, N, P : Polled(z, N, P)
  BY <1>2, <1>3, TickRowsIs
<1>5. PICK b, ino, ack, end : b = file.bytes /\ ino = file.ino /\ ack = tail.ackOffset /\ end = tail'.ackOffset
  OBVIOUS
<1>6. /\ Emission(b, ack, end, z, ino, N) /\ TickTells(b, ack, end, N, P) /\ Extended(N, z, P, ino)
      /\ ack <= end
  BY <1>4, <1>5 DEF Polled
<1>7. IsTranscript(b) /\ ack \in Nat /\ end \in Nat
  BY <1>2, <1>4, <1>5 DEF Typed, Tails, Polled
<1>8. OneForm(N) /\ (P # {} => Telling(N) = {})
  BY <1>6 DEF TickTells, OneForm, Telling
<1>9. OneTells(N)
  BY <1>6, <1>7, <1>8, EmissionTells
<1>10. P # {} \/ Telling(N) # {} => \E r \in ResultAts(b) : ack <= r /\ r < end
  <2>1. ASSUME NEW n \in Telling(N) PROVE n.at \in ResultAts(b) /\ ack <= n.at /\ n.at < end
    <3>1. n \in N /\ n.k = "result"
      BY <1>6, <2>1 DEF Telling, TickTells
    <3>2. Valid(b, n) /\ ack <= n.at /\ n.at < end
      BY <1>6, <3>1 DEF Emission
    <3>3. QED
      BY <1>7, <3>1, <3>2, ResultAtsAre
  <2>2. QED
    BY <1>6, <2>1 DEF TickTells
<1>11. \A i \in DOMAIN chan : Tells(i) /\ chan[i].ver = ino => \E r \in ResultAts(b) : r < ack
  BY <1>3, <1>5 DEF ToldOnce
<1>12. ResultAts(b) \subseteq Nat /\ \A q, r \in ResultAts(b) : q = r
  BY <1>7, ResultAtsAre
<1>13. P # {} \/ Telling(N) # {} => \A i \in DOMAIN chan : Tells(i) => chan[i].ver # ino
  BY <1>7, <1>10, <1>11, <1>12
<1>14. \A i \in DOMAIN chan : Tells(i) /\ chan[i].ver = ino => \E r \in ResultAts(b) : r < end
  BY <1>6, <1>7, <1>11, <1>12
<1>15. QED
  BY <1>1, <1>2, <1>5, <1>6, <1>8, <1>9, <1>10, <1>13, <1>14, ToldExtended

\* The word that the file is gone is not about the result.
LEMMA GoneIs ==
  ASSUME IInv, TickGone
  PROVE  /\ Extended({}, 0, {}, tail.inode)
         /\ \A k \in DOMAIN chan' : k \notin DOMAIN chan => Kind(k)' = "gone"
         /\ ~Live /\ ~Live'
         /\ UNCHANGED <<file, tail, conn, connections, store, request, reloaded, torn>>
<1>1. /\ conn = "open" /\ file.ino = 0
      /\ UNCHANGED <<file, tail, conn, connections, store, request, reloaded, torn>>
  BY DEF TickGone, client, asking, history
<1>2. Typed /\ Versions
  BY DEF IInv
<1>3. PICK sent, ver : sent = GoneFrame /\ ver = tail.inode
  OBVIOUS
<1>4. ver \in Nat /\ 1 <= ver
  BY <1>1, <1>2, <1>3 DEF Typed, Tails, Versions
<1>5. sent \in Seq(Frames) /\ DOMAIN sent = {1} /\ sent[1].f = "gone"
  <2>1. [f |-> "gone"] \in Frames
    BY DEF Frames
  <2>2. QED
    BY <1>3, <2>1 DEF GoneFrame
<1>6. Carries(sent, {}, 0, {})
  BY <1>5 DEF Carries
<1>7. Emit(sent, ver)
  BY <1>3 DEF TickGone
<1>8. /\ Extended({}, 0, {}, ver)
      /\ \A k \in DOMAIN chan' : k \notin DOMAIN chan => \E j \in DOMAIN sent : chan'[k].frame = sent[j]
  BY <1>2, <1>4, <1>6, <1>7, EmitExtends
<1>9. ~Live /\ ~Live'
  BY <1>1, <1>3, <1>4 DEF Live
<1>10. \A k \in DOMAIN chan' : k \notin DOMAIN chan => Kind(k)' = "gone"
  BY <1>5, <1>8 DEF Kind
<1>11. QED
  BY <1>1, <1>3, <1>8, <1>9, <1>10

LEMMA GoneTells ==
  ASSUME IInv, ToldOnce, TickGone
  PROVE  ToldOnce'
<1>1. PICK N, P, from, ver : N = {} /\ P = {} /\ from = 0 /\ ver = tail.inode
  OBVIOUS
<1>2. Extended(N, from, P, ver) /\ ~Live' /\ file' = file
  BY <1>1, GoneIs
<1>3. OneForm(N) /\ OneTells(N) /\ Telling(N) = {} /\ P = {}
  BY <1>1 DEF OneForm, OneTells, Telling
<1>4. Typed
  BY DEF IInv
<1>5. QED
  BY <1>2, <1>3, <1>4, ToldExtended

\* What the session writes comes after what it has written.
LEMMA ResultStays ==
  ASSUME NEW b \in Seq(Byte), NEW y \in Byte, NEW c, Appended(b, y, c)
  PROVE  ResultAts(b) \subseteq ResultAts(c)
<1>1. Rows(b) \subseteq Rows(c)
  BY Grow DEF Appended
<1>2. QED
  BY <1>1 DEF ResultAts

LEMMA WriteTells ==
  ASSUME IInv, ToldOnce, Write
  PROVE  ToldOnce'
<1>1. /\ \E y \in Byte : Appended(file.bytes, y, file'.bytes)
      /\ file'.ino = file.ino /\ UNCHANGED <<tail, chan, conn>>
  BY WriteIs DEF IInv
<1>2. PICK b, c : b = file.bytes /\ c = file'.bytes
  OBVIOUS
<1>3. b \in Seq(Byte)
  BY <1>2 DEF IInv, Typed
<1>4. ResultAts(b) \subseteq ResultAts(c)
  BY <1>1, <1>2, <1>3, ResultStays
<1>5. \A j : Tells(j)' = Tells(j) /\ IsRows(j)' = IsRows(j) /\ Sent(j)' = Sent(j)
  BY <1>1 DEF Tells, Telling, IsRows, Kind, Sent
<1>6. ASSUME Live', NEW j \in DOMAIN chan', Tells(j)', chan'[j].ver = file'.ino
      PROVE  \E r \in ResultAts(c) : r < tail.ackOffset
  <2>1. Live
    BY <1>1, <1>6 DEF Live
  <2>2. \E r \in ResultAts(b) : r < tail.ackOffset
    BY <1>1, <1>2, <1>5, <1>6, <2>1 DEF ToldOnce
  <2>3. QED
    BY <1>4, <2>2
<1>7. \A j : OneForm(Sent(j))' = OneForm(Sent(j))
  BY <1>5 DEF OneForm
<1>8. QED
  BY <1>1, <1>2, <1>5, <1>6, <1>7 DEF ToldOnce

\* A file that has been replaced is not the one the poller follows.
LEMMA ReplacedIs ==
  ASSUME IInv, Rotate \/ Delete
  PROVE  /\ ~Live' /\ UNCHANGED <<tail, chan, conn, connections, store, request, reloaded, torn>>
         /\ file'.ino # 0 => store.ver # file'.ino
         /\ file.ino # 0
<1>1. /\ file.ino # 0 /\ UNCHANGED <<tail, chan, conn, connections, store, request, reloaded, torn>>
  BY DEF Rotate, Delete, server, client, asking, history
<1>2. file.ino \in Nat /\ tail.inode \in Nat /\ store.ver \in Nat
  BY DEF IInv, Typed, Tails, Stores
<1>3. file'.ino = file.ino + 1 \/ file'.ino = 0
  BY DEF Rotate, Delete
<1>4. store.ver <= file.ino /\ (conn = "open" => 1 <= tail.inode /\ tail.inode <= file.ino)
  BY <1>1 DEF IInv, Versions
<1>5. ~Live'
  BY <1>1, <1>2, <1>3, <1>4 DEF Live
<1>6. QED
  BY <1>1, <1>2, <1>3, <1>4, <1>5

\* A frame that is taken leaves the channel, and nothing else of the server changes.
LEMMA ReceivedIs ==
  ASSUME Typed, Receive
  PROVE  Popped /\ (Live' => Live) /\ conn = "open"
<1>1. ASSUME NEW kind, Take(kind), Quiet PROVE Popped /\ (Live' => Live) /\ conn = "open"
  <2>1. Popped /\ conn = "open"
    BY <1>1, TakeIs
  <2>2. QED
    BY <2>1 DEF Popped, Live
<1>2. \E kind : Take(kind) /\ Quiet
  BY DEF Receive, ReceiveHello, ReceiveRows, ReceivePatch, ReceiveReset, ReceiveGone
<1>3. QED
  BY <1>1, <1>2

\* No step makes the poller tell of the result twice.
LEMMA NextTells ==
  ASSUME IInv, ToldOnce, [Next]_vars
  PROVE  ToldOnce'
<1>1. Typed
  BY DEF IInv
<1>2. CASE Rotate \/ Delete
  <2>1. ~Live' /\ chan' = chan
    BY <1>2, ReplacedIs
  <2>2. QED
    BY <2>1, ToldSame
<1>3. CASE Disconnect
  BY <1>3 DEF Disconnect, ToldOnce
<1>4. CASE Receive
  <2>1. Popped /\ (Live' => Live)
    BY <1>1, <1>4, ReceivedIs
  <2>2. QED
    BY <1>1, <2>1, ToldPopped
<1>5. CASE UNCHANGED <<file, tail, chan, conn>>
  <2>1. Live' = Live
    BY <1>5 DEF Live
  <2>2. QED
    BY <1>5, <2>1, ToldSame
<1>6. CASE AskEarlier \/ AskTail \/ PollerFails \/ (\E r \in Requests : Answer(r) \/ FailAnswer(r)) \/ UNCHANGED vars
  <2>1. UNCHANGED <<file, tail, chan, conn>>
    BY <1>6 DEF AskEarlier, AskTail, Ask, PollerFails, Answer, FailAnswer, vars, server, client
  <2>2. QED
    BY <1>5, <2>1
<1>7. CASE Write \/ Connect \/ TickGone \/ TickReset \/ TickRows
  BY <1>7, WriteTells, ConnectTells, GoneTells, ResetTells, TickTellsOnce
<1>8. Drop \/ IdleTimeout => Disconnect
  BY DEF Drop, IdleTimeout
<1>9. QED
  BY <1>2, <1>3, <1>4, <1>6, <1>7, <1>8 DEF Next, Tick

-----------------------------------------------------------------------------
(* Steps that leave the window and the answers as they are                 *)

\* A set of nodes is of the window's version, and of what its file says.
Ours(S) ==
  /\ S \subseteq AnyNode
  /\ store.ver = file.ino /\ file.ino # 0 => \A n \in S : Valid(file.bytes, n)

\* The nodes of the window and of the answers that will be applied are such sets.
LEMMA OursAre ==
  ASSUME IInv, Good
  PROVE  /\ Ours(InStore) /\ reloaded \in Nat /\ store.following \in BOOLEAN
         /\ Open("earlier") => /\ Ours(Answered(request["earlier"].page))
                               /\ Ours(ToSet(request["earlier"].page.nodes))
                               /\ request["earlier"].page \in Pages
         /\ Open("tail") => /\ Ours(ToSet(request["tail"].page.nodes)) /\ request["tail"].page \in Pages
                            /\ request["tail"].page.to \in Nat
<1>1. Typed /\ WindowCovers /\ EarlierFits /\ TailPageFits
  BY DEF IInv
<1>2. /\ store.nodes \in Seq(AnyNode) /\ reloaded \in Nat /\ store.following \in BOOLEAN
      /\ \A r \in Requests : request[r].st = "asked" => request[r].page \in Pages
  BY <1>1 DEF Typed, Stores
<1>3. InStore \subseteq AnyNode
  BY <1>2 DEF InStore, ToSet
<1>4. \A p \in Pages : ToSet(p.nodes) \subseteq AnyNode /\ p.to \in Nat
  BY DEF Pages, ToSet
<1>5. Ours(InStore)
  BY <1>1, <1>3 DEF Ours, WindowCovers
<1>6. ASSUME Open("earlier")
      PROVE  /\ Ours(Answered(request["earlier"].page)) /\ Ours(ToSet(request["earlier"].page.nodes))
             /\ request["earlier"].page \in Pages
  <2>1. PICK p : p = request["earlier"].page
    OBVIOUS
  <2>2. p \in Pages
    BY <1>2, <1>6, <2>1 DEF Open
  <2>3. Ours(ToSet(p.nodes))
    BY <1>1, <1>4, <1>6, <2>1, <2>2 DEF Ours, EarlierFits
  <2>4. Ours(Answered(p))
    BY <1>5, <2>3 DEF Ours, Answered
  <2>5. QED
    BY <2>1, <2>2, <2>3, <2>4
<1>7. ASSUME Open("tail")
      PROVE  /\ Ours(ToSet(request["tail"].page.nodes)) /\ request["tail"].page \in Pages
             /\ request["tail"].page.to \in Nat
  <2>1. PICK p : p = request["tail"].page
    OBVIOUS
  <2>2. p \in Pages
    BY <1>2, <1>7, <2>1 DEF Open
  <2>3. Ours(ToSet(p.nodes))
    BY <1>1, <1>4, <1>7, <2>1, <2>2 DEF Ours, TailPageFits
  <2>4. QED
    BY <1>4, <2>1, <2>2, <2>3
<1>8. QED
  BY <1>2, <1>5, <1>6, <1>7

\* What says less, of fewer nodes, is so after a step that sends nothing to the window.
LEMMA OnceKept ==
  ASSUME NEW S, NEW end, NEW follows, Once(S, end, follows), NEW T, T \subseteq S, NEW still, still => follows,
         NEW v, Synced' => /\ Synced /\ store.ver = v /\ store'.ver = v
                           /\ UnderWay(v)' \subseteq UnderWay(v) /\ Due(v)' \subseteq Due(v)
                           /\ Live' /\ v = file'.ino => Live /\ v = file.ino /\ UNCHANGED <<file, tail>>
  PROVE  Once(T, end, still)'
<1>1. OneForm(T)
  BY DEF Once, OneForm
<1>2. SUFFICES ASSUME Synced' PROVE Once(T, end, still)'
  BY <1>1 DEF Once, OneForm
<1>3. Telling(T) \subseteq Telling(S) /\ Telling(UnderWay(v)') \subseteq Telling(UnderWay(v))
  BY <1>2 DEF Telling
<1>4. ASSUME Telling(T) # {}
      PROVE  /\ still => \A n \in Telling(UnderWay(v)') : n.at < end
             /\ Live' /\ v = file'.ino => \E r \in ResultAts(file'.bytes) : r < tail'.ackOffset \/ r < end
  BY <1>2, <1>3, <1>4 DEF Once
<1>5. ASSUME NEW m \in T, m.k = "result", NEW c \in Due(v)'
      PROVE  /\ \A n \in T : n.at = c => n.k = "oversized"
             /\ still => \A n \in UnderWay(v)' : n.at = c => n.at < end
  <2>1. c \in Due(v)
    BY <1>2, <1>5
  <2>2. QED
    BY <1>2, <1>5, <2>1 DEF Once
<1>6. QED
  BY <1>1, <1>2, <1>4, <1>5 DEF Once, OneForm, Telling

\* The windows that are and that will be, through such a step.
LEMMA ShownSame ==
  ASSUME IInv, ShownOnce, UNCHANGED <<store, request, reloaded, torn>>,
         \A S : \A end \in Nat, follows \in BOOLEAN : Ours(S) /\ Once(S, end, follows) => Once(S, end, follows)'
  PROVE  ShownOnce'
<1>1. SUFFICES ASSUME Calm PROVE ShownOnce'
  BY DEF ShownOnce, Calm
<1>2. Good
  BY <1>1 DEF Calm, Good
<1>3. PICK S, end, follows : S = InStore /\ end = reloaded /\ follows = store.following
  OBVIOUS
<1>4. Ours(S) /\ end \in Nat /\ follows \in BOOLEAN
  BY <1>2, <1>3, OursAre
<1>5. InStore' = S /\ reloaded' = end /\ store'.following = follows /\ (\A r : Open(r)' = Open(r)) /\ request' = request
  BY <1>3 DEF InStore, Open
<1>6. Once(S, end, follows)'
  <2>1. Once(S, end, follows)
    BY <1>1, <1>3 DEF ShownOnce
  <2>2. QED
    BY <1>4, <2>1
<1>7. ASSUME Open("earlier"), NEW T, T = Answered(request["earlier"].page) PROVE Once(T, end, follows)'
  <2>1. Ours(T)
    BY <1>2, <1>7, OursAre
  <2>2. Once(T, end, follows)
    BY <1>1, <1>3, <1>7 DEF ShownOnce
  <2>3. QED
    BY <1>4, <2>1, <2>2
<1>8. ASSUME Open("tail"), NEW T, NEW to, T = ToSet(request["tail"].page.nodes), to = request["tail"].page.to
      PROVE  Once(T, to, TRUE)'
  <2>1. Ours(T) /\ to \in Nat
    BY <1>2, <1>8, OursAre
  <2>2. Once(T, to, TRUE)
    BY <1>1, <1>8 DEF ShownOnce
  <2>3. QED
    BY <2>1, <2>2
<1>9. Once(InStore, reloaded, store.following)'
  BY <1>3, <1>5, <1>6
<1>10. QED
  BY <1>3, <1>5, <1>6, <1>7, <1>8, <1>9 DEF ShownOnce, Answered, InStore

\* A call has a patch under way, or it is complete and its result is not passed.
Patched(c, v) == \E j \in DOMAIN chan : Kind(j) = "patch" /\ chan[j].ver = v /\ c \in chan[j].frame.ids
Awaits(c, v)  == /\ c \in CallAts(file.bytes) /\ Live /\ v = file.ino
                 /\ \E r \in ResultAts(file.bytes) : tail.ackOffset <= r

LEMMA DueIs ==
  ASSUME NEW v
  PROVE  /\ \A c : c \in Due(v) <=> Patched(c, v) \/ Awaits(c, v)
         /\ \A c : c \in Due(v)' <=> Patched(c, v)' \/ Awaits(c, v)'
<1>1. \A c : c \in Due(v) <=> Patched(c, v) \/ Awaits(c, v)
  <2>1. PICK A, I, B : /\ I = {i \in DOMAIN chan : Kind(i) = "patch" /\ chan[i].ver = v}
                       /\ A = {chan[j].frame.ids : j \in I}
                       /\ B = {c \in CallAts(file.bytes) : /\ Live /\ v = file.ino
                                 /\ \E r \in ResultAts(file.bytes) : tail.ackOffset <= r}
    OBVIOUS
  <2>2. Due(v) = (UNION A) \cup B
    BY <2>1 DEF Due
  <2>3. \A c : c \in (UNION A) <=> \E j \in I : c \in chan[j].frame.ids
    BY <2>1
  <2>4. \A c : c \in (UNION A) <=> Patched(c, v)
    BY <2>1, <2>3 DEF Patched
  <2>5. \A c : c \in B <=> Awaits(c, v)
    BY <2>1 DEF Awaits
  <2>6. QED
    BY <2>2, <2>4, <2>5
<1>2. \A c : c \in Due(v)' <=> Patched(c, v)' \/ Awaits(c, v)'
  <2>1. PICK A, I, B : /\ I = {i \in DOMAIN chan' : Kind(i)' = "patch" /\ chan'[i].ver = v}
                       /\ A = {chan'[j].frame.ids : j \in I}
                       /\ B = {c \in CallAts(file'.bytes) : /\ Live' /\ v = file'.ino
                                 /\ \E r \in ResultAts(file'.bytes) : tail'.ackOffset <= r}
    OBVIOUS
  <2>2. Due(v)' = (UNION A) \cup B
    BY <2>1 DEF Due
  <2>3. \A c : c \in (UNION A) <=> \E j \in I : c \in chan'[j].frame.ids
    BY <2>1
  <2>4. \A c : c \in (UNION A) <=> Patched(c, v)'
    BY <2>1, <2>3 DEF Patched
  <2>5. \A c : c \in B <=> Awaits(c, v)'
    BY <2>1 DEF Awaits
  <2>6. QED
    BY <2>2, <2>4, <2>5
<1>3. QED
  BY <1>1, <1>2

\* What is due of the version the file has is a call of the file.
LEMMA DueCalls ==
  ASSUME IInv, NEW v, v = file.ino
  PROVE  \A c \in Due(v) : c \in CallAts(file.bytes)
<1>1. \A c : Patched(c, v) => c \in CallAts(file.bytes)
  BY DEF IInv, FramesValid, Patched
<1>2. QED
  BY <1>1, DueIs DEF Awaits

\* Frames that are sent make nothing due but what they patch.
LEMMA DueExtended ==
  ASSUME Typed, NEW N, NEW from, NEW P, NEW ver, Extended(N, from, P, ver), NEW v
  PROVE  \A c : Patched(c, v)' => Patched(c, v) \/ (v = ver /\ c \in P)
<1>1. SUFFICES ASSUME NEW c, Patched(c, v)' PROVE Patched(c, v) \/ (v = ver /\ c \in P)
  OBVIOUS
<1>2. PICK k \in DOMAIN chan' : Kind(k)' = "patch" /\ chan'[k].ver = v /\ c \in chan'[k].frame.ids
  BY <1>1 DEF Patched
<1>3. CASE k \in DOMAIN chan
  BY <1>2, <1>3, ExtendedKeeps DEF Patched
<1>4. CASE k \notin DOMAIN chan
  BY <1>2, <1>4 DEF Extended
<1>5. QED
  BY <1>3, <1>4

\* A step that sends nothing for the window's version, and tells no more of its file.
LEMMA OnceQuiet ==
  ASSUME NEW S, NEW end, NEW follows, Once(S, end, follows), NEW v, v = store.ver,
         Synced' => /\ Synced /\ store'.ver = v /\ UnderWay(v)' \subseteq UnderWay(v)
                    /\ \A c : Patched(c, v)' => Patched(c, v)
                    /\ Live' /\ v = file'.ino => Live /\ v = file.ino /\ UNCHANGED <<file, tail>>
  PROVE  Once(S, end, follows)'
<1>1. ASSUME Synced', NEW c \in Due(v)' PROVE c \in Due(v)
  <2>1. Patched(c, v)' \/ Awaits(c, v)'
    BY <1>1, DueIs
  <2>2. Awaits(c, v)' => Awaits(c, v)
    BY <1>1 DEF Awaits
  <2>3. QED
    BY <1>1, <2>1, <2>2, DueIs
<1>2. QED
  BY <1>1, OnceKept

\* Nothing is told of the result of a window whose hello has not come.
LEMMA OnceBefore ==
  ASSUME NEW S, NEW end, NEW follows, Once(S, end, follows), ~Synced'
  PROVE  Once(S, end, follows)'
<1>1. OneForm(S)
  BY DEF Once
<1>2. QED
  BY <1>1 DEF Once, OneForm

LEMMA OnceReplaced ==
  ASSUME IInv, Rotate \/ Delete \/ TickGone \/ TickReset,
         NEW S, NEW end, NEW follows, Once(S, end, follows)
  PROVE  Once(S, end, follows)'
<1>0. PICK v : v = store.ver
  OBVIOUS
<1>1. Typed
  BY DEF IInv
<1>2. CASE Rotate \/ Delete
  <2>1. ~Live' /\ UNCHANGED <<tail, chan, conn, connections, store>>
    BY <1>2, ReplacedIs
  <2>2. UnderWay(v)' = UnderWay(v) /\ Synced' = Synced
    BY <2>1 DEF UnderWay, IsRows, Kind, Sent, Synced
  <2>3. \A c : Patched(c, v)' => Patched(c, v)
    BY <2>1 DEF Patched, Kind
  <2>4. QED
    BY <1>0, <2>1, <2>2, <2>3, OnceQuiet
<1>3. CASE TickGone
  <2>1. /\ Extended({}, 0, {}, tail.inode) /\ ~Live'
        /\ UNCHANGED <<file, tail, conn, connections, store, request, reloaded, torn>>
    BY <1>3, GoneIs
  <2>2. PICK N, P, from, ver : N = {} /\ P = {} /\ from = 0 /\ ver = tail.inode
    OBVIOUS
  <2>3. Extended(N, from, P, ver)
    BY <2>1, <2>2
  <2>4. UnderWay(v)' = UnderWay(v)
    BY <2>2, <2>3 DEF Extended
  <2>5. \A c : Patched(c, v)' => Patched(c, v)
    BY <1>1, <2>2, <2>3, DueExtended
  <2>6. Synced' = Synced
    BY <2>1 DEF Synced
  <2>7. QED
    BY <1>0, <2>1, <2>4, <2>5, <2>6, OnceQuiet
<1>4. CASE TickReset
  <2>1. Synced => v # file.ino
    BY <1>0, <1>4, ResetIsOfAnother
  <2>2. UNCHANGED <<file, conn, connections, store>>
    BY <1>4 DEF TickReset, client
  <2>3. Synced' = Synced
    BY <2>2 DEF Synced
  <2>4. PICK reset : reset = [f |-> "reset"]
    OBVIOUS
  <2>5. reset \in Frames /\ reset.f = "reset"
    <3>1. reset \in [f : {"reset", "gone"}]
      BY <2>4
    <3>2. QED
      BY <2>4, <3>1 DEF Frames
  <2>6. SendWindow(Window, <<reset>>)
    BY <1>4, <2>4 DEF TickReset
  <2>7. PICK N : Opened(reset, Window.from, N)
    BY <1>1, <2>5, <2>6, SendWindowIs
  <2>8. PICK from, P, ino : from = Window.from /\ P = {} /\ ino = file.ino
    OBVIOUS
  <2>9. Extended(N, from, P, ino)
    BY <2>7, <2>8 DEF Opened
  <2>10. \A c : Patched(c, v)' => Patched(c, v)
    BY <1>1, <2>8, <2>9, DueExtended
  <2>11. Synced => UnderWay(v)' = UnderWay(v)
    BY <2>1, <2>8, <2>9 DEF Extended
  <2>12. QED
    BY <1>0, <2>1, <2>2, <2>3, <2>10, <2>11, OnceQuiet
<1>5. QED
  BY <1>2, <1>3, <1>4

-----------------------------------------------------------------------------
(* Steps by which the poller or the file tells more                        *)

\* A file with a result has its call.
LEMMA CallOfResult ==
  ASSUME NEW b, IsTranscript(b), NEW r \in ResultAts(b)
  PROVE  \E c : c \in CallAts(b)
<1>1. b \in Seq(Byte)
  BY DEF IsTranscript
<1>2. PICK row \in Rows(b) : row.at = r /\ ParsedKind(row.text) = "result"
  BY DEF ResultAts
<1>3. PICK e \in Ends(b) : IsRow(b, r, e) /\ row = RowOf(b, r, e)
  BY <1>1, <1>2, RowsAre
<1>4. b[r + 1] = "r"
  BY <1>1, <1>2, <1>3, FirstByte
<1>5. r \in Nat /\ e \in Nat /\ r < e /\ r + 1 \in DOMAIN b /\ e <= Confirmed(b) /\ Confirmed(b) \in Nat
  <2>1. r \in Nat /\ e \in Nat /\ r < e /\ e <= Len(b) /\ e <= Confirmed(b)
    BY <1>1, <1>3, RowBounds
  <2>2. Confirmed(b) \in Nat /\ DOMAIN b = 1 .. Len(b) /\ Len(b) \in Nat
    BY <1>1, ConfirmedIs, EndsAre
  <2>3. QED
    BY <2>1, <2>2
<1>6. PICK p \in DOMAIN b : p < r + 1 /\ b[p] = "c"
  BY <1>4, <1>5 DEF IsTranscript
<1>7. p \in Nat /\ p - 1 + 1 = p
  BY <1>1, <1>6
<1>8. p <= Confirmed(b)
  BY <1>5, <1>6, <1>7
<1>9. PICK f : IsRow(b, p - 1, f)
  BY <1>6, <1>8, RowOfByte
<1>10. ParsedKind(RowOf(b, p - 1, f).text) = "call"
  BY <1>1, <1>6, <1>7, <1>9, FirstByte
<1>11. QED
  BY <1>1, <1>9, <1>10, ShownAre

LEMMA OnceWritten ==
  ASSUME IInv, Write, NEW S, NEW end, NEW follows, Ours(S), Once(S, end, follows)
  PROVE  Once(S, end, follows)'
<1>1. PICK y \in Byte : Appended(file.bytes, y, file'.bytes)
  BY WriteIs DEF IInv
<1>2. /\ file'.ino = file.ino /\ IsTranscript(file'.bytes) /\ file.ino # 0
      /\ UNCHANGED <<tail, chan, conn, connections, store>>
  BY WriteIs DEF IInv, Write
<1>3. PICK b, d, v : b = file.bytes /\ d = file'.bytes /\ v = store.ver
  OBVIOUS
<1>4. IsTranscript(b) /\ b \in Seq(Byte) /\ IsTranscript(d)
  BY <1>2, <1>3 DEF IInv, Typed
<1>5. ResultAts(b) \subseteq ResultAts(d) /\ CallAts(b) \subseteq CallAts(d)
  BY <1>1, <1>3, <1>4, ResultStays, GrowKeeps
<1>6. UnderWay(v)' = UnderWay(v) /\ Synced' = Synced /\ Live' = Live /\ store' = store
  BY <1>2 DEF UnderWay, IsRows, Kind, Sent, Synced, Live
<1>7. \A c : Patched(c, v)' <=> Patched(c, v)
  BY <1>2 DEF Patched, Kind
<1>8. CASE v # file.ino
  BY <1>2, <1>3, <1>6, <1>7, <1>8, OnceQuiet
<1>9. CASE v = file.ino
  <2>1. SUFFICES ASSUME Synced PROVE Once(S, end, follows)'
    <3>1. OneForm(S)
      BY DEF Once
    <3>2. QED
      BY <1>6, <2>1, <3>1 DEF Once, OneForm
  <2>2. OneForm(S)
    BY DEF Once
  <2>3. ASSUME Telling(S) # {}
        PROVE  /\ follows => \A n \in Telling(UnderWay(v)') : n.at < end
               /\ Live' /\ v = file'.ino => \E r \in ResultAts(d) : r < tail'.ackOffset \/ r < end
    BY <1>2, <1>3, <1>5, <1>6, <2>1, <2>3 DEF Once
  <2>4. ASSUME NEW m \in S, m.k = "result", NEW c \in Due(v)'
        PROVE  /\ \A n \in S : n.at = c => n.k = "oversized"
               /\ follows => \A n \in UnderWay(v)' : n.at = c => n.at < end
    <3>1. Valid(b, m)
      BY <1>2, <1>3, <1>9, <2>4 DEF Ours
    <3>2. m.at \in ResultAts(b)
      BY <1>4, <2>4, <3>1, ResultAtsAre
    <3>3. PICK call : call \in CallAts(b)
      BY <1>4, <3>2, CallOfResult
    <3>4. ASSUME Awaits(c, v)' PROVE Awaits(c, v)
      <4>1. /\ c \in CallAts(d) /\ Live /\ v = file.ino
            /\ \E r \in ResultAts(d) : tail.ackOffset <= r
        BY <1>2, <1>3, <1>6, <1>9, <3>4 DEF Awaits
      <4>2. c = call
        BY <1>4, <1>5, <3>3, <4>1, CallAtsAre
      <4>3. tail.ackOffset <= m.at
        BY <1>4, <1>5, <3>2, <4>1, ResultAtsAre
      <4>4. QED
        BY <1>3, <3>2, <3>3, <4>1, <4>2, <4>3 DEF Awaits
    <3>5. c \in Due(v)
      BY <1>7, <2>4, <3>4, DueIs
    <3>6. QED
      BY <1>3, <1>6, <2>1, <2>4, <3>5 DEF Once
  <2>5. QED
    BY <1>3, <1>6, <2>2, <2>3, <2>4 DEF Once, OneForm, Telling
<1>10. QED
  BY <1>8, <1>9

LEMMA OnceTicked ==
  ASSUME IInv, TickRows, NEW S, NEW end \in Nat, NEW follows, Ours(S), Once(S, end, follows)
  PROVE  Once(S, end, follows)'
<1>1. /\ conn = "open" /\ file.ino # 0 /\ ~Rotated
      /\ UNCHANGED <<file, conn, connections, store>>
  BY DEF TickRows, client
<1>2. Typed /\ Versions /\ TailFits
  BY DEF IInv
<1>3. tail.inode = file.ino /\ Live
  BY <1>1, <1>2 DEF Rotated, Live, Versions, Typed, Tails
<1>4. PICK z, N, P : Polled(z, N, P)
  BY <1>2, <1>3, TickRowsIs
<1>5. PICK b, ino, ack, next : b = file.bytes /\ ino = file.ino /\ ack = tail.ackOffset /\ next = tail'.ackOffset
  OBVIOUS
<1>6. /\ Emission(b, ack, next, z, ino, N) /\ TickTells(b, ack, next, N, P) /\ Extended(N, z, P, ino)
      /\ ack <= next /\ P \subseteq CallAts(b) /\ Live'
  BY <1>1, <1>4, <1>5 DEF Polled, Live
<1>7. IsTranscript(b) /\ ack \in Nat /\ next \in Nat
  BY <1>2, <1>4, <1>5 DEF Typed, Tails, Polled
<1>8. PICK v : v = store.ver
  OBVIOUS
<1>9. \A c : Patched(c, v)' => Patched(c, v) \/ (v = ino /\ c \in P)
  BY <1>2, <1>6, DueExtended
<1>10. Synced' = Synced /\ store' = store
  BY <1>1 DEF Synced
<1>11. CASE v # ino
  <2>1. UnderWay(v)' = UnderWay(v)
    BY <1>6, <1>11 DEF Extended
  <2>2. QED
    BY <1>1, <1>5, <1>8, <1>9, <1>10, <1>11, <2>1, OnceQuiet
<1>12. CASE v = ino
  <2>0. OneForm(S)
    BY DEF Once
  <2>1. SUFFICES ASSUME Synced PROVE Once(S, end, follows)'
    BY <1>10, <2>0, <2>1 DEF Once, OneForm
  <2>2. UnderWay(v)' = UnderWay(v) \cup N
    BY <1>6, <1>12 DEF Extended
  <2>3. ResultAts(b) \subseteq Nat /\ (\A q, r \in ResultAts(b) : q = r)
        /\ \A c \in CallAts(b), r \in ResultAts(b) : c \in Nat /\ c < r
    BY <1>7, ResultAtsAre
  <2>4. ASSUME Telling(S) # {} PROVE \E r \in ResultAts(b) : r < ack \/ r < end
    BY <1>3, <1>5, <1>8, <1>12, <2>1, <2>4 DEF Once
  <2>5. ASSUME Telling(S) # {}
        PROVE  /\ follows => \A n \in Telling(UnderWay(v)') : n.at < end
               /\ Live' /\ v = file'.ino => \E r \in ResultAts(b) : r < next \/ r < end
    <3>1. \E r \in ResultAts(b) : r < next \/ r < end
      BY <1>6, <1>7, <2>3, <2>4, <2>5
    <3>2. ASSUME follows, NEW n \in Telling(UnderWay(v)'), n \in UnderWay(v) PROVE n.at < end
      <4>1. n \in Telling(UnderWay(v))
        BY <3>2 DEF Telling
      <4>2. QED
        BY <1>8, <2>1, <2>5, <3>2, <4>1 DEF Once
    <3>3. ASSUME NEW n \in Telling(UnderWay(v)'), n \notin UnderWay(v) PROVE n.at < end
      <4>1. n \in N /\ n.k \in {"result", "done"}
        BY <2>2, <3>3 DEF Telling
      <4>2. n.k = "result" /\ Valid(b, n) /\ ack <= n.at
        BY <1>6, <4>1 DEF TickTells, Emission
      <4>3. n.at \in ResultAts(b)
        BY <1>7, <4>2, ResultAtsAre
      <4>4. QED
        BY <1>7, <2>3, <2>4, <2>5, <4>2, <4>3
    <3>4. QED
      BY <3>1, <3>2, <3>3
  <2>6. ASSUME NEW m \in S, m.k = "result", NEW c \in Due(v)'
        PROVE  /\ \A n \in S : n.at = c => n.k = "oversized"
               /\ follows => \A n \in UnderWay(v)' : n.at = c => n.at < end
    <3>1. Valid(b, m)
      BY <1>1, <1>5, <1>8, <1>12, <2>6 DEF Ours
    <3>2. m.at \in ResultAts(b)
      BY <1>7, <2>6, <3>1, ResultAtsAre
    <3>3. Telling(S) # {}
      BY <2>6 DEF Telling
    <3>4. m.at < ack \/ m.at < end
      BY <2>3, <2>4, <3>2, <3>3
    <3>5. CASE c \in Due(v)
      <4>1. /\ \A n \in S : n.at = c => n.k = "oversized"
            /\ follows => \A n \in UnderWay(v) : n.at = c => n.at < end
        BY <1>8, <2>1, <2>6, <3>5 DEF Once
      <4>2. c \in CallAts(b)
        BY <1>5, <1>12, <3>5, DueCalls
      <4>3. c \in Nat /\ c < m.at
        BY <2>3, <3>2, <4>2
      <4>4. ASSUME NEW n \in N, n.at = c PROVE n.at < end
        <5>1. ack <= n.at
          BY <1>6, <4>4 DEF Emission
        <5>2. QED
          BY <1>7, <2>3, <3>2, <3>4, <4>3, <4>4, <5>1
      <4>5. QED
        BY <2>2, <4>1, <4>4
    <3>6. c \in Due(v)
      <4>1. Patched(c, v)' \/ Awaits(c, v)'
        BY <2>6, DueIs
      <4>2. CASE Patched(c, v)
        BY <4>2, DueIs
      <4>3. CASE c \in P
        <5>1. \E r \in ResultAts(b) : ack <= r
          BY <1>6, <4>3 DEF TickTells
        <5>2. Awaits(c, v)
          BY <1>3, <1>5, <1>6, <1>12, <4>3, <5>1 DEF Awaits
        <5>3. QED
          BY <5>2, DueIs
      <4>4. CASE Awaits(c, v)'
        <5>1. c \in CallAts(b) /\ \E r \in ResultAts(b) : next <= r
          BY <1>1, <1>5, <4>4 DEF Awaits
        <5>2. Awaits(c, v)
          BY <1>3, <1>5, <1>6, <1>7, <1>12, <2>3, <5>1 DEF Awaits
        <5>3. QED
          BY <5>2, DueIs
      <4>5. QED
        BY <1>9, <4>1, <4>2, <4>3, <4>4
    <3>7. QED
      BY <3>5, <3>6
  <2>7. QED
    BY <1>1, <1>5, <1>8, <1>10, <2>0, <2>5, <2>6 DEF Once, OneForm, Telling
<1>13. QED
  BY <1>11, <1>12

\* The steps of the server and of the file leave the windows as they were.
LEMMA ShownServed ==
  ASSUME IInv, ShownOnce,
         Write \/ Rotate \/ Delete \/ Connect \/ Tick \/ PollerFails \/ Disconnect
  PROVE  ShownOnce'
<1>1. Typed /\ Versions
  BY DEF IInv
<1>2. UNCHANGED <<store, request, reloaded, torn>>
  BY GoneIs DEF Write, Rotate, Delete, Connect, Tick, TickGone, TickReset, TickRows, PollerFails, Disconnect,
     OpenStream, asking, history, client
<1>3. ASSUME NEW S, NEW end \in Nat, NEW follows \in BOOLEAN, Ours(S), Once(S, end, follows)
      PROVE  Once(S, end, follows)'
  <2>1. CASE Write
    BY <1>3, <2>1, OnceWritten
  <2>2. CASE TickRows
    BY <1>3, <2>2, OnceTicked
  <2>3. CASE Rotate \/ Delete \/ TickGone \/ TickReset
    BY <1>3, <2>3, OnceReplaced
  <2>4. CASE Connect
    <3>1. connections' = connections + 1 /\ store' = store
      BY <2>4 DEF Connect, OpenStream
    <3>2. store.gen <= connections /\ connections \in Nat /\ store.gen \in Nat
      BY <1>1 DEF Versions, Typed, Stores
    <3>3. ~Synced'
      BY <3>1, <3>2 DEF Synced
    <3>4. QED
      BY <1>3, <3>3, OnceBefore
  <2>5. CASE Disconnect
    <3>1. ~Synced'
      BY <2>5 DEF Disconnect, Synced
    <3>2. QED
      BY <1>3, <3>1, OnceBefore
  <2>6. CASE PollerFails
    <3>1. UNCHANGED <<file, tail, chan, conn, connections, store>>
      BY <2>6 DEF PollerFails, client
    <3>2. \A v : UnderWay(v)' = UnderWay(v)
      BY <3>1 DEF UnderWay, IsRows, Kind, Sent
    <3>3. \A c, v : Patched(c, v)' => Patched(c, v)
      BY <3>1 DEF Patched, Kind
    <3>4. Synced' = Synced /\ Live' = Live
      BY <3>1 DEF Synced, Live
    <3>5. QED
      BY <1>3, <3>1, <3>2, <3>3, <3>4, OnceQuiet
  <2>7. QED
    BY <2>1, <2>2, <2>3, <2>4, <2>5, <2>6 DEF Tick
<1>4. QED
  BY <1>2, <1>3, ShownSame

-----------------------------------------------------------------------------
(* A page that is asked for                                                *)

\* A node that tells of the result is at its row or at its call.
LEMMA TellingIs ==
  ASSUME NEW b, IsTranscript(b), NEW r \in ResultAts(b)
  PROVE  /\ r \in Nat /\ \A n : Valid(b, n) /\ n.k \in {"result", "done"} => n.at \in Nat /\ n.at <= r
         /\ \A n : Valid(b, n) /\ n.k = "result" => n.at = r
         /\ \A c \in CallAts(b) : c \in Nat /\ c < r
<1>1. /\ ResultAts(b) \subseteq Nat /\ \A q \in ResultAts(b) : q = r
      /\ \A c \in CallAts(b) : c \in Nat /\ c < r
  BY ResultAtsAre
<1>2. ASSUME NEW n, Valid(b, n) PROVE /\ n.k = "result" => n.at = r
                                      /\ n.k = "done" => n.at \in CallAts(b)
  BY <1>1, <1>2, ResultAtsAre
<1>3. QED
  BY <1>1, <1>2

\* What is under way of the version the file has says of it what is so.
LEMMA UnderWayValid ==
  ASSUME IInv, NEW v, v = file.ino
  PROVE  \A n \in UnderWay(v) : Valid(file.bytes, n) /\ n \in AnyNode
<1>1. SUFFICES ASSUME NEW n \in UnderWay(v) PROVE Valid(file.bytes, n) /\ n \in AnyNode
  OBVIOUS
<1>2. PICK j \in DOMAIN chan : IsRows(j) /\ chan[j].ver = v /\ n \in Sent(j)
  BY <1>1 DEF UnderWay
<1>3. Valid(file.bytes, n)
  BY <1>2 DEF IInv, FramesValid
<1>4. n \in AnyNode
  BY <1>2, SentNodes DEF IInv
<1>5. QED
  BY <1>3, <1>4

\* The nodes of a page up to `to' tell of the result, or what comes from there on does.
LEMMA WindowOnce ==
  ASSUME IInv, store.ver = file.ino, NEW to \in Nat, NEW S, WindowTells(file.bytes, to, S)
  PROVE  Once(S, to, TRUE)
<1>1. PICK b, v : b = file.bytes /\ v = store.ver
  OBVIOUS
<1>2. IsTranscript(b)
  BY <1>1 DEF IInv, Typed
<1>3. /\ OneForm(S) /\ (Telling(S) # {} => \E r \in ResultAts(b) : r < to)
      /\ (\E m \in S : m.k = "result") => \A n \in S : n.at \in CallAts(b) => n.k = "oversized"
  BY <1>1 DEF WindowTells
<1>4. \A n \in UnderWay(v) : Valid(b, n) /\ n \in AnyNode
  BY <1>1, UnderWayValid
<1>5. ASSUME Telling(S) # {}
      PROVE  /\ \A n \in Telling(UnderWay(v)) : n.at < to
             /\ \E r \in ResultAts(b) : r < tail.ackOffset \/ r < to
  <2>1. PICK r \in ResultAts(b) : r < to
    BY <1>3, <1>5
  <2>2. \A n \in Telling(UnderWay(v)) : n.at \in Nat /\ n.at <= r /\ r \in Nat
    BY <1>2, <1>4, TellingIs DEF Telling
  <2>3. QED
    BY <2>1, <2>2
<1>6. ASSUME NEW m \in S, m.k = "result", NEW c \in Due(v)
      PROVE  /\ \A n \in S : n.at = c => n.k = "oversized"
             /\ \A n \in UnderWay(v) : n.at = c => n.at < to
  <2>1. c \in CallAts(b)
    BY <1>1, DueCalls
  <2>2. Telling(S) # {}
    BY <1>6 DEF Telling
  <2>3. PICK r \in ResultAts(b) : r < to
    BY <1>3, <2>2
  <2>4. c \in Nat /\ c < r /\ r \in Nat
    BY <1>2, <2>1, TellingIs
  <2>5. c < to
    BY <2>3, <2>4
  <2>6. QED
    BY <1>3, <1>6, <2>1, <2>5
<1>7. QED
  BY <1>1, <1>3, <1>5, <1>6 DEF Once

\* Earlier rows before those of the window tell of the result in the form the window
\* does, and where they complete its call the orphan goes.
LEMMA EarlierOnce ==
  ASSUME IInv, Good, store.ver = file.ino, file.ino # 0, store.truncatedBefore,
         NEW p, PageOf(file.bytes, store.first, file.ino, p),
         PageTells(file.bytes, file.ino, {n.ino : n \in {m \in ToSet(store.nodes) : m.k = "result"}}, p),
         NEW end, end = reloaded, NEW follows, follows = store.following, Once(InStore, end, follows)
  PROVE  Once(Answered(p), end, follows)
<1>1. PICK b, v, wanted, first : /\ b = file.bytes /\ v = store.ver /\ first = store.first
                                 /\ wanted = {n.ino : n \in {m \in ToSet(store.nodes) : m.k = "result"}}
  OBVIOUS
<1>2. PICK H, A, P : H = InStore /\ A = Answered(p) /\ P = ToSet(p.nodes)
  OBVIOUS
<1>3. IsTranscript(b) /\ b \in Seq(Byte) /\ first \in Nat /\ end \in Nat /\ tail.ackOffset \in Nat /\ H \subseteq AnyNode
  BY <1>1, <1>2 DEF IInv, Typed, Stores, Tails, IsTranscript, InStore, ToSet
<1>4. /\ \A m \in H : Valid(b, m) /\ FitsFrom(b, m, first) /\ m.ino = v
      /\ Synced /\ follows => \A n \in UnderWay(v) : n.at < end \/ \A m \in H : m.at <= n.at
      /\ Synced /\ v = tail.inode => \A m \in H : m.at < tail.ackOffset \/ m.at < end
      /\ Synced /\ H = {} => /\ \A n \in UnderWay(v) : n.at >= first
                             /\ v = tail.inode => first <= tail.ackOffset
  <2>1. WindowCovers /\ WindowFits
    BY DEF IInv
  <2>2. H = {} => store.nodes = <<>>
    <3>1. store.nodes \in Seq(AnyNode)
      BY DEF IInv, Typed, Stores
    <3>2. store.nodes # <<>> => store.nodes[1] \in H
      BY <1>2, <3>1 DEF InStore, ToSet
    <3>3. QED
      BY <3>2
  <2>3. QED
    BY <1>1, <1>2, <2>1, <2>2 DEF WindowCovers, WindowFits
<1>5. /\ p.to \in Nat /\ p.to <= first
      /\ \A n \in P : Valid(b, n) /\ n \in AnyNode /\ n.at < p.to
      /\ \A m \in H : p.to <= m.at
  BY <1>1, <1>2, <1>3, <1>4, PageCovers
<1>6. A = {m \in H : m.at \notin p.removed} \cup P
  BY <1>2 DEF Answered
<1>7. \A n \in UnderWay(v) : Valid(b, n) /\ n \in AnyNode
  BY <1>1, UnderWayValid
<1>8. /\ OneForm(H)
      /\ Synced /\ Telling(H) # {} =>
           /\ follows => \A n \in Telling(UnderWay(v)) : n.at < end
           /\ Live /\ v = file.ino => \E r \in ResultAts(b) : r < tail.ackOffset \/ r < end
      /\ Synced /\ (\E m \in H : m.k = "result") =>
           \A c \in Due(v) : /\ \A m \in H : m.at = c => m.k = "oversized"
                             /\ follows => \A n \in UnderWay(v) : n.at = c => n.at < end
  BY <1>1, <1>2 DEF Once
<1>9. \A m \in H : m.k = "result" => m.at \in ResultAts(b)
  BY <1>3, <1>4, ResultAtsAre
<1>10. \A m \in H : m.k = "result" => file.ino \in wanted
  BY <1>1, <1>2, <1>4 DEF InStore
<1>11. CASE p.removed # {}
  <2>1. file.ino \in wanted /\ \A r \in ResultAts(b) : p.to <= r => r \in p.removed
    BY <1>1, <1>11 DEF PageTells
  <2>2. PICK m \in H : m.k = "result"
    BY <1>1, <1>2, <2>1 DEF InStore
  <2>3. m.at \in ResultAts(b) /\ p.to <= m.at /\ m.at \in p.removed
    BY <1>5, <1>9, <2>1, <2>2
  <2>4. ASSUME NEW n \in A, n.k = "result" PROVE FALSE
    <3>1. Valid(b, n)
      BY <1>4, <1>5, <1>6, <2>4
    <3>2. n.at = m.at
      BY <1>3, <2>3, <2>4, <3>1, TellingIs
    <3>3. n \in P
      BY <1>6, <2>3, <2>4, <3>2
    <3>4. n.at < p.to /\ n.at \in Nat
      BY <1>5, <3>3 DEF AnyNode
    <3>5. QED
      BY <1>5, <2>3, <3>2, <3>4
  <2>5. Telling(H) # {}
    BY <2>2 DEF Telling
  <2>6. QED
    BY <1>1, <1>2, <1>8, <2>4, <2>5 DEF Once, OneForm
<1>12. CASE p.removed = {} /\ Telling(P) = {}
  <2>1. A = H \cup P /\ Waits(b, P) /\ file.ino \in wanted => \A r \in ResultAts(b) : r < p.to
    BY <1>1, <1>2, <1>6, <1>12 DEF PageTells
  <2>2. A = H \cup P
    BY <1>6, <1>12
  <2>3. Telling(A) = Telling(H) /\ (\A m \in A : m.k \in {"result", "done"} => m \in H)
    BY <1>12, <2>2 DEF Telling
  <2>4. ASSUME Synced, NEW m \in A, m.k = "result", NEW c \in Due(v)
        PROVE  /\ \A n \in A : n.at = c => n.k = "oversized"
               /\ follows => \A n \in UnderWay(v) : n.at = c => n.at < end
    <3>1. m \in H
      BY <2>3, <2>4
    <3>2. m.at \in ResultAts(b) /\ p.to <= m.at /\ m.at \in Nat
      BY <1>3, <1>5, <1>9, <2>4, <3>1 DEF AnyNode
    <3>3. c \in CallAts(b)
      BY <1>1, <2>4, DueCalls
    <3>4. ASSUME NEW n \in P, n.at = c, n.k # "oversized" PROVE FALSE
      <4>1. Waits(b, P)
        BY <1>12, <3>3, <3>4 DEF Waits, Telling
      <4>2. m.at < p.to
        BY <1>10, <2>1, <2>2, <2>4, <3>1, <3>2, <4>1
      <4>3. QED
        BY <1>5, <3>2, <4>2
    <3>5. QED
      BY <1>8, <2>2, <2>4, <3>1, <3>4
  <2>5. OneForm(A)
    BY <1>8, <2>3 DEF OneForm
  <2>6. QED
    BY <1>1, <1>2, <1>8, <2>3, <2>4, <2>5 DEF Once
<1>13. CASE p.removed = {} /\ Telling(P) # {}
  <2>1. /\ WindowTells(b, p.to, P)
        /\ A = H \cup P
    BY <1>1, <1>2, <1>6, <1>13 DEF PageTells
  <2>2. PICK r \in ResultAts(b) : r < p.to
    BY <1>13, <2>1 DEF WindowTells
  <2>3. /\ r \in Nat /\ \A n : Valid(b, n) /\ n.k \in {"result", "done"} => n.at \in Nat /\ n.at <= r
        /\ \A c \in CallAts(b) : c \in Nat /\ c < r
    BY <1>3, TellingIs
  <2>4. ASSUME NEW n \in H PROVE n.k \notin {"result", "done"} /\ r < n.at /\ n.at \in Nat
    BY <1>3, <1>4, <1>5, <2>2, <2>3, <2>4 DEF AnyNode
  <2>5. ASSUME Synced, follows, NEW n \in UnderWay(v), n.at <= r PROVE n.at < end
    <3>1. n.at \in Nat
      BY <1>7, <2>5 DEF AnyNode
    <3>2. CASE H = {}
      BY <1>3, <1>4, <1>5, <2>2, <2>3, <2>5, <3>1, <3>2
    <3>3. CASE H # {}
      <4>1. PICK m \in H : TRUE
        BY <3>3
      <4>2. n.at < end \/ m.at <= n.at
        BY <1>4, <2>5
      <4>3. QED
        BY <1>3, <2>3, <2>4, <2>5, <3>1, <4>1, <4>2
    <3>4. QED
      BY <3>2, <3>3
  <2>6. ASSUME Synced, Live PROVE r < tail.ackOffset \/ r < end
    <3>1. v = tail.inode
      BY <1>1, <2>6 DEF Live
    <3>2. CASE H = {}
      BY <1>3, <1>4, <1>5, <2>2, <2>3, <2>6, <3>1, <3>2
    <3>3. CASE H # {}
      <4>1. PICK m \in H : TRUE
        BY <3>3
      <4>2. m.at < tail.ackOffset \/ m.at < end
        BY <1>4, <2>6, <3>1
      <4>3. QED
        BY <1>3, <2>3, <2>4, <4>1, <4>2
    <3>4. QED
      BY <3>2, <3>3
  <2>7. ASSUME Synced, follows, NEW n \in Telling(UnderWay(v)) PROVE n.at < end
    <3>1. n \in UnderWay(v) /\ n.at <= r
      BY <1>7, <2>3, <2>7 DEF Telling
    <3>2. QED
      BY <2>5, <2>7, <3>1
  <2>8. ASSUME Synced, NEW m \in A, m.k = "result", NEW c \in Due(v)
        PROVE  /\ \A n \in A : n.at = c => n.k = "oversized"
               /\ follows => \A n \in UnderWay(v) : n.at = c => n.at < end
    <3>1. m \in P
      BY <2>1, <2>4, <2>8
    <3>2. c \in CallAts(b)
      BY <1>1, <2>8, DueCalls
    <3>3. c \in Nat /\ c < r
      BY <2>3, <3>2
    <3>4. \A n \in P : n.at = c => n.k = "oversized"
      BY <2>1, <2>8, <3>1, <3>2 DEF WindowTells
    <3>5. \A n \in H : n.at # c
      BY <2>3, <2>4, <3>3
    <3>6. ASSUME follows, NEW n \in UnderWay(v), n.at = c PROVE n.at < end
      BY <2>3, <2>5, <2>8, <3>3, <3>6
    <3>7. QED
      BY <2>1, <3>4, <3>5, <3>6
  <2>9. OneForm(A)
    BY <2>1, <2>4 DEF OneForm, WindowTells
  <2>10. QED
    BY <1>1, <1>2, <2>6, <2>7, <2>8, <2>9 DEF Once
<1>14. QED
  BY <1>11, <1>12, <1>13

\* What concerns neither the file, the poller, the frames nor the window.
LEMMA OnceStill ==
  ASSUME UNCHANGED <<file, tail, chan, conn, connections, store>>,
         NEW S, NEW end, NEW follows, Once(S, end, follows)
  PROVE  Once(S, end, follows)'
<1>1. PICK v : v = store.ver
  OBVIOUS
<1>2. UnderWay(v)' = UnderWay(v) /\ Synced' = Synced /\ Live' = Live
  BY DEF UnderWay, IsRows, Kind, Sent, Synced, Live
<1>3. \A c : Patched(c, v)' => Patched(c, v)
  BY DEF Patched, Kind
<1>4. QED
  BY <1>1, <1>2, <1>3, OnceQuiet

\* What is said of the answers, request by request.
EarlierOK(p) == Once(Answered(p), reloaded, store.following)
TailOK(p)    == Once(ToSet(p.nodes), p.to, TRUE)

LEMMA ShownIs ==
  ShownOnce <=> (Calm => /\ Once(InStore, reloaded, store.following)
                         /\ Open("earlier") => EarlierOK(request["earlier"].page)
                         /\ Open("tail") => TailOK(request["tail"].page))
BY DEF ShownOnce, EarlierOK, TailOK

LEMMA ShownStill ==
  ASSUME UNCHANGED <<file, tail, chan, conn, connections, store, reloaded>>
  PROVE  /\ Once(InStore, reloaded, store.following) => Once(InStore, reloaded, store.following)'
         /\ \A p : EarlierOK(p) => EarlierOK(p)'
         /\ \A p : TailOK(p) => TailOK(p)'
<1>1. \A S, end, follows : Once(S, end, follows) => Once(S, end, follows)'
  BY OnceStill
<1>2. InStore' = InStore /\ \A p : Answered(p)' = Answered(p)
  BY DEF InStore, Answered
<1>3. \A p : EarlierOK(p) => EarlierOK(p)'
  BY <1>1, <1>2 DEF EarlierOK
<1>4. \A p : TailOK(p) => TailOK(p)'
  BY <1>1 DEF TailOK
<1>5. Once(InStore, reloaded, store.following) => Once(InStore, reloaded, store.following)'
  BY <1>1, <1>2
<1>6. QED
  BY <1>3, <1>4, <1>5

LEMMA ShownAsked ==
  ASSUME IInv, ShownOnce, AskEarlier \/ AskTail
  PROVE  ShownOnce'
<1>1. PICK wanted : wanted = {n.ino : n \in {m \in ToSet(store.nodes) : m.k = "result"}}
  OBVIOUS
<1>2. store.first \in Nat /\ file.bytes \in Seq(Byte) /\ Len(file.bytes) \in Nat
  BY DEF IInv, Typed, Stores
<1>3. CASE AskEarlier
  <2>1. Ask("earlier", store.first, wanted) /\ store.truncatedBefore
    BY <1>1, <1>3 DEF AskEarlier
  <2>2. PICK p, q : p = request'["earlier"].page /\ q = request["tail"].page
    OBVIOUS
  <2>3. /\ UNCHANGED <<file, tail, chan, conn, connections, store, reloaded, torn>>
        /\ file.ino # 0 /\ PageOf(file.bytes, store.first, file.ino, p)
        /\ PageTells(file.bytes, file.ino, wanted, p)
        /\ Open("earlier")' => store.ver = file.ino
        /\ Open("tail")' = Open("tail") /\ ("tail" \in Requests => request'["tail"] = request["tail"])
    <3>1. Asks("earlier", store.first, wanted) /\ UNCHANGED <<file, tail, chan, conn, connections, store, reloaded, torn>>
      BY <1>2, <2>1, AskIs
    <3>2. QED
      BY <2>2, <3>1 DEF Asks
  <2>4. SUFFICES ASSUME Calm PROVE ShownOnce'
    BY <2>3 DEF ShownOnce, Calm
  <2>5. /\ Once(InStore, reloaded, store.following)
        /\ Open("tail") => TailOK(q)
    BY <2>2, <2>4, ShownIs
  <2>6. Open("earlier")' => EarlierOK(p)
    <3>1. Good
      BY <2>4 DEF Calm, Good
    <3>2. QED
      BY <1>1, <2>1, <2>3, <2>5, <3>1, EarlierOnce DEF EarlierOK
  <2>7. /\ Once(InStore, reloaded, store.following)'
        /\ Open("earlier")' => EarlierOK(p)'
        /\ Open("tail") => TailOK(q)'
    BY <2>3, <2>5, <2>6, ShownStill
  <2>8. Open("tail")' => request'["tail"].page = q
    BY <2>2, <2>3 DEF Open
  <2>9. QED
    BY <2>2, <2>3, <2>7, <2>8 DEF TailOK, EarlierOK, ShownOnce
<1>4. CASE AskTail
  <2>1. Ask("tail", Len(file.bytes), {})
    BY <1>4 DEF AskTail
  <2>2. PICK p, q : p = request'["tail"].page /\ q = request["earlier"].page
    OBVIOUS
  <2>3. /\ UNCHANGED <<file, tail, chan, conn, connections, store, reloaded, torn>>
        /\ file.ino # 0 /\ PageOf(file.bytes, Len(file.bytes), file.ino, p)
        /\ PageTells(file.bytes, file.ino, {}, p)
        /\ Open("tail")' => store.ver = file.ino
        /\ Open("earlier")' = Open("earlier") /\ ("earlier" \in Requests => request'["earlier"] = request["earlier"])
    <3>1. Asks("tail", Len(file.bytes), {}) /\ UNCHANGED <<file, tail, chan, conn, connections, store, reloaded, torn>>
      BY <1>2, <2>1, AskIs
    <3>2. QED
      BY <2>2, <3>1 DEF Asks
  <2>4. SUFFICES ASSUME Calm PROVE ShownOnce'
    BY <2>3 DEF ShownOnce, Calm
  <2>5. /\ Once(InStore, reloaded, store.following)
        /\ Open("earlier") => EarlierOK(q)
    BY <2>2, <2>4, ShownIs
  <2>6. WindowTells(file.bytes, p.to, ToSet(p.nodes)) /\ p.to \in Nat
    BY <2>3 DEF PageTells, PageOf, Pages
  <2>7. Open("tail")' => TailOK(p)
    BY <2>3, <2>6, WindowOnce DEF TailOK
  <2>8. /\ Once(InStore, reloaded, store.following)'
        /\ Open("tail")' => TailOK(p)'
        /\ Open("earlier") => EarlierOK(q)'
    BY <2>3, <2>5, <2>7, ShownStill
  <2>9. Open("earlier")' => request'["earlier"].page = q
    BY <2>2, <2>3 DEF Open
  <2>10. QED
    BY <2>2, <2>3, <2>8, <2>9 DEF TailOK, EarlierOK, ShownOnce
<1>5. QED
  BY <1>3, <1>4

-----------------------------------------------------------------------------
(* A frame that arrives                                                    *)

\* When the first frame leaves, nothing comes to be due, or under way.
LEMMA PoppedDue ==
  ASSUME IInv, Popped, conn' = conn, NEW v
  PROVE  /\ UnderWay(v)' \subseteq UnderWay(v) /\ Due(v)' \subseteq Due(v)
         /\ \A c : Patched(c, v)' => \E j \in DOMAIN chan : /\ j # 1 /\ Kind(j) = "patch" /\ chan[j].ver = v
                                                           /\ c \in chan[j].frame.ids
         /\ \A c : Awaits(c, v)' => Awaits(c, v)
         /\ Live' = Live /\ UNCHANGED <<file, tail>>
<1>1. Typed
  BY DEF IInv
<1>2. /\ UnderWay(v)' \subseteq UnderWay(v)
      /\ \A k \in DOMAIN chan' : k + 1 \in DOMAIN chan /\ k + 1 # 1 /\ chan'[k] = chan[k + 1] /\ Kind(k)' = Kind(k + 1)
  BY <1>1, Pop
<1>3. UNCHANGED <<file, tail>> /\ Live' = Live
  BY DEF Popped, Live
<1>4. \A c : Patched(c, v)' => \E j \in DOMAIN chan : /\ j # 1 /\ Kind(j) = "patch" /\ chan[j].ver = v
                                                    /\ c \in chan[j].frame.ids
  BY <1>2 DEF Patched
<1>5. \A c : Patched(c, v)' => Patched(c, v)
  BY <1>4 DEF Patched
<1>6. \A c : Awaits(c, v)' => Awaits(c, v)
  BY <1>3 DEF Awaits
<1>7. Due(v)' \subseteq Due(v)
  BY <1>5, <1>6, DueIs
<1>8. QED
  BY <1>2, <1>3, <1>4, <1>6, <1>7

\* When the frame that tells of the result leaves, all has been said of it.
LEMMA ToldOnceOnly ==
  ASSUME IInv, ToldOnce, Popped, conn' = conn, Tells(1), NEW v, v = chan[1].ver
  PROVE  /\ Telling(UnderWay(v)') = {} /\ Due(v)' = {}
         /\ Live /\ v = file.ino => \E r \in ResultAts(file.bytes) : r < tail.ackOffset
<1>1. Typed /\ IsTranscript(file.bytes) /\ tail.ackOffset \in Nat
  BY DEF IInv, Typed, Tails
<1>2. /\ 1 \in DOMAIN chan
      /\ \A k \in DOMAIN chan' : /\ k + 1 \in DOMAIN chan /\ k + 1 # 1 /\ chan'[k] = chan[k + 1]
                                 /\ IsRows(k)' = IsRows(k + 1) /\ Sent(k)' = Sent(k + 1)
  BY <1>1, Pop
<1>3. \A j \in DOMAIN chan : Tells(j) /\ chan[j].ver = v => j = 1
  BY <1>2 DEF ToldOnce
<1>4. ASSUME NEW n \in Telling(UnderWay(v)') PROVE FALSE
  <2>1. PICK k \in DOMAIN chan' : IsRows(k)' /\ chan'[k].ver = v /\ n \in Sent(k)'
    BY <1>4 DEF UnderWay, Telling
  <2>2. PICK j \in DOMAIN chan : j # 1 /\ IsRows(j) /\ chan[j].ver = v /\ n \in Sent(j)
    BY <1>2, <2>1
  <2>3. Tells(j)
    BY <1>4, <2>2 DEF Tells, Telling
  <2>4. QED
    BY <1>3, <2>2, <2>3
<1>5. ASSUME Live, v = file.ino PROVE \E r \in ResultAts(file.bytes) : r < tail.ackOffset
  BY <1>2, <1>5 DEF ToldOnce
<1>6. ASSUME NEW c \in Due(v)' PROVE FALSE
  <2>1. CASE Patched(c, v)'
    <3>1. PICK j \in DOMAIN chan : j # 1 /\ Kind(j) = "patch" /\ chan[j].ver = v
      BY <2>1, PoppedDue
    <3>2. QED
      BY <1>3, <3>1 DEF Tells
  <2>2. CASE Awaits(c, v)'
    <3>1. Awaits(c, v)
      BY <2>2, PoppedDue
    <3>2. PICK r \in ResultAts(file.bytes) : tail.ackOffset <= r
      BY <3>1 DEF Awaits
    <3>3. PICK q \in ResultAts(file.bytes) : q < tail.ackOffset
      BY <1>5, <3>1 DEF Awaits
    <3>4. q = r /\ q \in Nat /\ r \in Nat
      BY <1>1, ResultAtsAre
    <3>5. QED
      BY <1>1, <3>2, <3>3, <3>4
  <2>3. QED
    BY <1>6, <2>1, <2>2, DueIs
<1>7. QED
  BY <1>4, <1>5, <1>6

\* Rows that arrive and that the window takes, if it follows the tail, add no second form.
LEMMA OnceRows ==
  ASSUME IInv, ToldOnce, Popped, conn' = conn, IsRows(1), Synced, chan[1].ver = store.ver, store'.ver = store.ver,
         NEW S, NEW end \in Nat, NEW follows, Once(S, end, follows),
         NEW T, \A m \in T : m \in S \/ (follows /\ m \in Sent(1) /\ m.at >= end)
  PROVE  Once(T, end, follows)'
<1>1. PICK v, F : v = store.ver /\ F = Sent(1)
  OBVIOUS
<1>2. Typed /\ 1 \in DOMAIN chan
  BY Pop DEF IInv
<1>3. F \subseteq UnderWay(v) /\ \A n \in F : n.at \in Nat
  BY <1>1, <1>2, SentNodes DEF UnderWay
<1>4. /\ UnderWay(v)' \subseteq UnderWay(v) /\ Due(v)' \subseteq Due(v)
      /\ Live' = Live /\ UNCHANGED <<file, tail>>
  BY PoppedDue
<1>5. /\ OneForm(S)
      /\ Telling(S) # {} =>
           /\ follows => \A n \in Telling(UnderWay(v)) : n.at < end
           /\ Live /\ v = file.ino => \E r \in ResultAts(file.bytes) : r < tail.ackOffset \/ r < end
      /\ (\E m \in S : m.k = "result") =>
           \A c \in Due(v) : /\ \A m \in S : m.at = c => m.k = "oversized"
                             /\ follows => \A n \in UnderWay(v) : n.at = c => n.at < end
  BY <1>1 DEF Once
<1>6. OneForm(F)
  BY <1>1, <1>2 DEF ToldOnce
<1>7. CASE Telling(T) \subseteq S
  <2>1. OneForm(T)
    BY <1>5, <1>7 DEF OneForm, Telling
  <2>2. ASSUME Telling(T) # {}
        PROVE  /\ follows => \A n \in Telling(UnderWay(v)') : n.at < end
               /\ Live' /\ v = file'.ino => \E r \in ResultAts(file'.bytes) : r < tail'.ackOffset \/ r < end
    <3>1. Telling(S) # {} /\ Telling(UnderWay(v)') \subseteq Telling(UnderWay(v))
      BY <1>4, <1>7, <2>2 DEF Telling
    <3>2. QED
      BY <1>4, <1>5, <3>1
  <2>3. ASSUME NEW m \in T, m.k = "result", NEW c \in Due(v)'
        PROVE  /\ \A n \in T : n.at = c => n.k = "oversized"
               /\ follows => \A n \in UnderWay(v)' : n.at = c => n.at < end
    <3>1. m \in S /\ c \in Due(v)
      BY <1>4, <1>7, <2>3 DEF Telling
    <3>2. /\ \A n \in S : n.at = c => n.k = "oversized"
          /\ follows => \A n \in UnderWay(v) : n.at = c => n.at < end
      BY <1>5, <2>3, <3>1
    <3>3. ASSUME NEW n \in T, n \notin S, n.at = c PROVE FALSE
      BY <1>1, <1>3, <3>2, <3>3
    <3>4. QED
      BY <1>4, <3>2, <3>3
  <2>4. QED
    BY <1>1, <2>1, <2>2, <2>3 DEF Once, OneForm, Telling
<1>8. CASE ~(Telling(T) \subseteq S)
  <2>1. PICK n \in Telling(T) : n \notin S
    BY <1>8
  <2>2. n \in T /\ n \in F /\ follows /\ n.at >= end /\ n \in Telling(F)
    BY <1>1, <2>1 DEF Telling
  <2>3. Telling(S) = {}
    BY <1>3, <1>5, <2>2 DEF Telling
  <2>4. OneForm(T)
    <3>1. \A m \in T : m.k \in {"done", "result"} => m \in F
      BY <1>1, <2>3 DEF Telling
    <3>2. QED
      BY <1>6, <3>1 DEF OneForm
  <2>5. Tells(1)
    BY <1>1, <2>2 DEF Tells
  <2>6. /\ Telling(UnderWay(v)') = {} /\ Due(v)' = {}
        /\ Live /\ v = file.ino => \E r \in ResultAts(file.bytes) : r < tail.ackOffset
    BY <1>1, <2>5, ToldOnceOnly
  <2>7. QED
    BY <1>1, <1>4, <2>4, <2>6 DEF Once, OneForm, Telling
<1>9. QED
  BY <1>7, <1>8

\* A patch that arrives completes no call of a window with the orphan.
LEMMA OncePatch ==
  ASSUME IInv, ToldOnce, Popped, conn' = conn, Kind(1) = "patch", Synced, chan[1].ver = store.ver, store'.ver = store.ver,
         NEW S, S \subseteq AnyNode, NEW end, NEW follows, Once(S, end, follows),
         NEW T, \A m \in T : \/ m \in S
                             \/ \E n \in S : /\ m = Complete(n, chan[1].frame.ids)
                                             /\ n.at \in chan[1].frame.ids => n.k # "oversized"
  PROVE  Once(T, end, follows)'
<1>1. PICK v, ids : v = store.ver /\ ids = chan[1].frame.ids
  OBVIOUS
<1>2. 1 \in DOMAIN chan /\ Tells(1)
  BY Pop DEF IInv, Tells
<1>3. /\ Telling(UnderWay(v)') = {} /\ Due(v)' = {}
      /\ Live /\ v = file.ino => \E r \in ResultAts(file.bytes) : r < tail.ackOffset
  BY <1>1, <1>2, ToldOnceOnly
<1>4. Live' = Live /\ UNCHANGED <<file, tail>>
  BY PoppedDue
<1>5. \A c \in ids : c \in Due(v)
  BY <1>1, <1>2, DueIs DEF Patched
<1>6. ASSUME NEW m \in T, m.k = "result" PROVE m \in S
  <2>1. SUFFICES ASSUME NEW n \in S, m = Complete(n, ids) PROVE m \in S
    BY <1>1
  <2>2. n \in AnyNode
    OBVIOUS
  <2>3. n.at \in ids => Complete(n, ids).k = "done"
    BY <2>2 DEF AnyNode, Complete
  <2>4. QED
    BY <1>6, <2>1, <2>3 DEF Complete
<1>7. ASSUME NEW d \in T, d.k = "done", NEW m \in T, m.k = "result" PROVE FALSE
  <2>1. m \in S
    BY <1>6, <1>7
  <2>2. CASE d \in S
    BY <1>7, <2>1, <2>2 DEF Once, OneForm
  <2>3. CASE d \notin S
    <3>1. PICK n \in S : d = Complete(n, ids) /\ (n.at \in ids => n.k # "oversized")
      BY <1>1, <2>3
    <3>2. n.at \in ids
      BY <2>3, <3>1 DEF Complete
    <3>3. n.at \in Due(v)
      BY <1>5, <3>2
    <3>4. n.k = "oversized"
      BY <1>1, <1>7, <2>1, <3>3 DEF Once
    <3>5. QED
      BY <3>1, <3>2, <3>4
  <2>4. QED
    BY <2>2, <2>3
<1>8. QED
  BY <1>1, <1>3, <1>4, <1>7 DEF Once, OneForm, Telling

\* A window that is empty shows no result, and no answer will be applied to it.
LEMMA ShownRenewed ==
  ASSUME IInv, NEW new, new \in Stores, Becomes(new), new.nodes = <<>>, new.newBelow = 0
  PROVE  ShownOnce'
<1>1. Typed /\ TailPageFits
  BY DEF IInv
<1>2. /\ store' = new
      /\ \A r \in Requests : Open(r)' => Open(r) /\ ~Outdated(r, new)
  BY <1>1, BecomesIs
<1>3. ~Open("earlier")'
  <2>1. Open("earlier")' => "earlier" \in Requests
    BY DEF Open
  <2>2. Outdated("earlier", new)
    BY DEF Outdated
  <2>3. QED
    BY <1>2, <2>1, <2>2
<1>4. ~Open("tail")'
  <2>1. Open("tail")' => "tail" \in Requests
    BY DEF Open
  <2>2. ~Outdated("tail", new) => new.newBelow = store.newBelow
    BY DEF Outdated
  <2>3. Open("tail") => store.newBelow > 0
    BY <1>1 DEF TailPageFits
  <2>4. QED
    BY <1>2, <2>1, <2>2, <2>3
<1>5. PICK S, end, follows : S = {} /\ end = reloaded' /\ follows = store'.following
  OBVIOUS
<1>6. Once(S, end, follows)'
  BY <1>5 DEF Once, OneForm, Telling
<1>7. InStore' = S
  BY <1>2, <1>5 DEF InStore, ToSet
<1>8. QED
  BY <1>3, <1>4, <1>5, <1>6, <1>7 DEF ShownOnce

LEMMA RowsShown ==
  ASSUME IInv, ToldOnce, ShownOnce, ReceiveRows
  PROVE  ShownOnce'
<1>1. Typed /\ Versions /\ InSequence
  BY DEF IInv
<1>2. Take("rows") /\ Quiet /\ conn' = conn /\ reloaded' = reloaded
  BY DEF ReceiveRows
<1>3. /\ Popped /\ conn = "open" /\ Kind(1) = "rows"
      /\ Head(chan) = chan[1] /\ chan[1] \in Envelopes
  BY <1>1, <1>2, TakeIs
<1>4. PICK v, frame : v = store.ver /\ frame = chan[1].frame
  OBVIOUS
<1>5. /\ 1 \in DOMAIN chan /\ IsRows(1) /\ ~Begins(1)
      /\ \A n \in Sent(1) : chan[1].ver = v => n \in UnderWay(v)
  BY <1>1, <1>3, Pop DEF IsRows, Begins
<1>6. Synced /\ chan[1].ver = v
  <2>1. Synced
    BY <1>1, <1>3 DEF Versions
  <2>2. chan[1].ver = store.ver \/ \E i \in 1 .. 1 - 1 : Begins(i) /\ chan[i].ver = chan[1].ver
    BY <1>1, <1>3, <1>5 DEF Versions
  <2>3. QED
    BY <1>4, <2>1, <2>2
<1>7. PICK new : TakesRows(frame, new)
  BY DEF TakesRows
<1>8. Becomes(new)
  BY <1>3, <1>4, <1>7 DEF ReceiveRows, TakesRows
<1>9. store \in Stores /\ reloaded \in Nat
  BY <1>1 DEF Typed
<1>10. frame.nodes \in Seq(AnyNode) /\ frame.from \in Nat
  BY <1>3, <1>4 DEF Envelopes, Frames, Kind
<1>11. frame.nodes # <<>> /\ Sorted(frame.nodes) /\ Sent(1) = ToSet(frame.nodes)
  BY <1>1, <1>4, <1>5 DEF InSequence, Sent, Sorted
<1>12. RowsTakenAs(frame, new)
  BY <1>7, <1>9, <1>10, <1>11, RowsTaken
<1>13. new \in Stores /\ new.ver = v /\ new.following = store.following
  BY <1>4, <1>12 DEF RowsTakenAs
<1>14. /\ store' = new
       /\ \A r \in Requests : Open(r)' => Open(r) /\ request'[r].page = request[r].page
  BY <1>1, <1>8, <1>13, BecomesIs
<1>15. torn \subseteq torn' /\ ("answer" \notin torn' => ~Late(frame))
  BY <1>3, <1>4 DEF ReceiveRows
<1>16. SUFFICES ASSUME Calm' PROVE ShownOnce'
  BY DEF ShownOnce
<1>17. Calm /\ Good /\ ~Late(frame)
  BY <1>15, <1>16 DEF Calm, Good
<1>18. PICK S, T, end, follows : S = InStore /\ T = InStore' /\ end = reloaded /\ follows = store.following
  OBVIOUS
<1>19. T = ToSet(new.nodes) /\ S = ToSet(store.nodes) /\ end \in Nat
  BY <1>9, <1>14, <1>18 DEF InStore
<1>20. ASSUME NEW m \in T PROVE m \in S \/ (follows /\ m \in Sent(1) /\ m.at >= end)
  <2>1. CASE RowsStay(frame, new)
    BY <1>19, <1>20, <2>1 DEF RowsStay
  <2>2. CASE ~RowsStay(frame, new)
    <3>1. ~Frozen /\ (ComeAfter(frame) => RowsGrow(frame, new))
      BY <1>12, <2>2 DEF RowsTakenAs
    <3>2. Ascends(store.nodes) /\ store.following
      BY <1>17, <3>1 DEF IInv, WindowFits, Frozen
    <3>3. \A n \in Sent(1) : n.at < reloaded \/ \A q \in InStore : q.at <= n.at
      BY <1>4, <1>5, <1>6, <1>17, <3>2 DEF IInv, WindowFits
    <3>4. ComeAfter(frame)
      BY <1>11, <1>17, <3>2, <3>3 DEF ComeAfter
    <3>5. RowsGrow(frame, new)
      BY <3>1, <3>4
    <3>6. ASSUME m \notin S PROVE m \in Sent(1) /\ m.at >= end
      <4>1. m \in ToSet(frame.nodes) /\ \A q \in InStore : q.at < m.at
        BY <1>18, <1>19, <1>20, <3>5, <3>6 DEF RowsGrow, Behind
      <4>2. m \in AnyNode /\ m.at \in Nat
        <5>1. m \in AnyNode
          BY <1>10, <4>1 DEF ToSet
        <5>2. QED
          BY <5>1 DEF AnyNode
      <4>3. \A q \in InStore : q \in AnyNode /\ q.at \in Nat
        <5>1. store.nodes \in Seq(AnyNode)
          BY <1>9 DEF Stores
        <5>2. \A q \in InStore : q \in AnyNode
          BY <5>1 DEF InStore, ToSet
        <5>3. QED
          BY <5>2 DEF AnyNode
      <4>4. m.at \notin Held(store.nodes)
        BY <4>1, <4>2, <4>3 DEF Held, InStore
      <4>5. PICK fresh : FreshOf(frame.nodes, Held(store.nodes), fresh)
        BY DEF FreshOf
      <4>6. m.at \in Held(fresh)
        BY <1>10, <1>11, <4>1, <4>4, <4>5, FreshIs
      <4>7. \A n \in ToSet(fresh) : ~(n.at < reloaded)
        BY <1>17, <3>1, <4>5 DEF Late, FreshOf
      <4>8. ~(m.at < reloaded)
        BY <4>6, <4>7 DEF Held
      <4>9. QED
        BY <1>9, <1>11, <1>18, <4>1, <4>2, <4>8
    <3>7. QED
      BY <1>18, <3>2, <3>6
  <2>3. QED
    BY <2>1, <2>2
<1>21. Once(T, end, follows)'
  <2>1. Once(S, end, follows)
    BY <1>17, <1>18 DEF ShownOnce
  <2>2. QED
    BY <1>2, <1>3, <1>4, <1>5, <1>6, <1>13, <1>14, <1>19, <1>20, <2>1, OnceRows
<1>22. ASSUME Open("earlier")', NEW p, p = request'["earlier"].page PROVE Once(Answered(p), end, follows)'
  <2>1. Open("earlier") /\ p = request["earlier"].page
    BY <1>14, <1>22 DEF Open
  <2>2. PICK A, B : A = Answered(p) /\ B = Answered(p)'
    OBVIOUS
  <2>3. Once(A, end, follows)
    BY <1>17, <1>18, <2>1, <2>2 DEF ShownOnce
  <2>4. \A m \in B : m \in A \/ (follows /\ m \in Sent(1) /\ m.at >= end)
    <3>1. A = {m \in S : m.at \notin p.removed} \cup ToSet(p.nodes) /\ B = {m \in T : m.at \notin p.removed} \cup ToSet(p.nodes)
      BY <1>18, <2>2 DEF Answered
    <3>2. QED
      BY <1>20, <3>1
  <2>5. Once(B, end, follows)'
    BY <1>2, <1>3, <1>4, <1>5, <1>6, <1>13, <1>14, <1>19, <2>3, <2>4, OnceRows
  <2>6. QED
    BY <2>2, <2>5
<1>23. ASSUME Open("tail")', NEW p, p = request'["tail"].page PROVE Once(ToSet(p.nodes), p.to, TRUE)'
  <2>1. Open("tail") /\ p = request["tail"].page
    BY <1>14, <1>23 DEF Open
  <2>2. p.to \in Nat
    BY <1>17, <2>1, OursAre
  <2>3. PICK A, to : A = ToSet(p.nodes) /\ to = p.to
    OBVIOUS
  <2>4. Once(A, to, TRUE)
    BY <1>17, <2>1, <2>3 DEF ShownOnce
  <2>5. Once(A, to, TRUE)'
    BY <1>2, <1>3, <1>4, <1>5, <1>6, <1>13, <1>14, <2>2, <2>3, <2>4, OnceRows
  <2>6. QED
    BY <2>3, <2>5
<1>24. reloaded' = end /\ store'.following = follows /\ InStore' = T
  BY <1>2, <1>13, <1>14, <1>18
<1>25. QED
  BY <1>21, <1>22, <1>23, <1>24 DEF ShownOnce

LEMMA PatchShown ==
  ASSUME IInv, ToldOnce, ShownOnce, ReceivePatch
  PROVE  ShownOnce'
<1>1. Typed /\ Versions
  BY DEF IInv
<1>2. Take("patch") /\ Quiet /\ conn' = conn /\ reloaded' = reloaded
  BY DEF ReceivePatch
<1>3. /\ Popped /\ conn = "open" /\ Kind(1) = "patch"
      /\ Head(chan) = chan[1] /\ chan[1] \in Envelopes
  BY <1>1, <1>2, TakeIs
<1>4. 1 \in DOMAIN chan /\ ~Begins(1)
  BY <1>1, <1>3, Pop DEF Begins
<1>5. Synced /\ chan[1].ver = store.ver
  <2>1. Synced
    BY <1>1, <1>3 DEF Versions
  <2>2. chan[1].ver = store.ver \/ \E i \in 1 .. 1 - 1 : Begins(i) /\ chan[i].ver = chan[1].ver
    BY <1>1, <1>3, <1>4 DEF Versions
  <2>3. QED
    BY <2>1, <2>2
<1>6. PICK ids, old : ids = chan[1].frame.ids /\ old = store.nodes
  OBVIOUS
<1>7. PICK nodes : PatchedBy(old, ids, nodes)
  BY DEF PatchedBy
<1>8. PICK new : new = [store EXCEPT !.nodes = nodes]
  OBVIOUS
<1>9. Becomes(new)
  BY <1>3, <1>6, <1>7, <1>8 DEF ReceivePatch, PatchedBy
<1>10. old \in Seq(AnyNode) /\ store \in Stores /\ file.bytes \in Seq(Byte)
  BY <1>1, <1>6 DEF Typed, Stores
<1>11. nodes \in Seq(AnyNode) /\ \A m \in ToSet(nodes) : \E n \in ToSet(old) : m = Complete(n, ids)
  <2>1. nodes \in Seq(AnyNode) /\ DOMAIN nodes = DOMAIN old
    BY <1>7, <1>10, PatchedIs
  <2>2. \A j \in DOMAIN old : nodes[j] = Complete(old[j], ids)
    BY <1>7 DEF PatchedBy
  <2>3. QED
    BY <2>1, <2>2 DEF ToSet
<1>12. new \in Stores /\ new.ver = store.ver /\ new.following = store.following /\ new.nodes = nodes
  BY <1>8, <1>10, <1>11 DEF Stores
<1>13. /\ store' = new
       /\ \A r \in Requests : Open(r)' => Open(r) /\ request'[r].page = request[r].page
  BY <1>1, <1>9, <1>12, BecomesIs
<1>14. PICK big : big = {n.k : n \in {m \in ToSet(store.nodes) : m.at \in ids /\ m.k = "oversized"}}
  OBVIOUS
<1>15. torn \subseteq torn' /\ big \subseteq torn'
  BY <1>3, <1>6, <1>14 DEF ReceivePatch
<1>16. SUFFICES ASSUME Calm' PROVE ShownOnce'
  BY DEF ShownOnce
<1>17. Calm /\ Good
  BY <1>15, <1>16 DEF Calm, Good
<1>18. PICK S, T, end, follows : S = InStore /\ T = InStore' /\ end = reloaded /\ follows = store.following
  OBVIOUS
<1>19. \A n \in S : n.at \in ids => n.k # "oversized"
  BY <1>14, <1>15, <1>16, <1>18 DEF Calm, InStore
<1>20. \A m \in T : \E n \in S : m = Complete(n, ids) /\ (n.at \in ids => n.k # "oversized")
  BY <1>6, <1>11, <1>12, <1>13, <1>18, <1>19 DEF InStore
<1>21. Once(T, end, follows)'
  <2>1. Once(S, end, follows) /\ S \subseteq AnyNode
    BY <1>17, <1>18, OursAre DEF ShownOnce, Ours
  <2>2. QED
    BY <1>2, <1>3, <1>5, <1>6, <1>12, <1>13, <1>20, <2>1, OncePatch
<1>22. ASSUME Open("earlier")', NEW p, p = request'["earlier"].page PROVE Once(Answered(p), end, follows)'
  <2>1. Open("earlier") /\ p = request["earlier"].page
    BY <1>13, <1>22 DEF Open
  <2>2. PICK A, B : A = Answered(p) /\ B = Answered(p)'
    OBVIOUS
  <2>3. Once(A, end, follows) /\ A \subseteq AnyNode
    BY <1>17, <1>18, <2>1, <2>2, OursAre DEF ShownOnce, Ours
  <2>4. /\ A = {m \in S : m.at \notin p.removed} \cup ToSet(p.nodes)
        /\ B = {m \in T : m.at \notin p.removed} \cup ToSet(p.nodes)
    BY <1>18, <2>2 DEF Answered
  <2>5. ASSUME NEW m \in B, m \notin A
        PROVE  \E n \in A : m = Complete(n, ids) /\ (n.at \in ids => n.k # "oversized")
    <3>1. m \in T /\ m.at \notin p.removed
      BY <2>4, <2>5
    <3>2. PICK n \in S : m = Complete(n, ids) /\ (n.at \in ids => n.k # "oversized")
      BY <1>20, <3>1
    <3>3. n \in AnyNode
      <4>1. store.nodes \in Seq(AnyNode)
        BY <1>6, <1>10
      <4>2. QED
        BY <1>18, <3>2, <4>1 DEF InStore, ToSet
    <3>4. m.at = n.at
      BY <3>2, <3>3 DEF Complete, AnyNode
    <3>5. QED
      BY <2>4, <3>1, <3>2, <3>4
  <2>6. Once(B, end, follows)'
    BY <1>2, <1>3, <1>5, <1>6, <1>12, <1>13, <2>3, <2>5, OncePatch
  <2>7. QED
    BY <2>2, <2>6
<1>23. ASSUME Open("tail")', NEW p, p = request'["tail"].page PROVE Once(ToSet(p.nodes), p.to, TRUE)'
  <2>1. Open("tail") /\ p = request["tail"].page
    BY <1>13, <1>23 DEF Open
  <2>2. PICK A, to : A = ToSet(p.nodes) /\ to = p.to
    OBVIOUS
  <2>3. Once(A, to, TRUE) /\ A \subseteq AnyNode
    BY <1>17, <2>1, <2>2, OursAre DEF ShownOnce, Ours
  <2>4. Once(A, to, TRUE)'
    BY <1>2, <1>3, <1>5, <1>6, <1>12, <1>13, <2>3, OncePatch
  <2>5. QED
    BY <2>2, <2>4
<1>24. reloaded' = end /\ store'.following = follows /\ InStore' = T
  BY <1>2, <1>12, <1>13, <1>18
<1>25. QED
  BY <1>21, <1>22, <1>23, <1>24 DEF ShownOnce

\* What a renewed window is.
LEMMA EmptyIs ==
  ASSUME NEW gen \in Nat, NEW ver \in Nat, NEW first \in Nat, NEW truncated \in BOOLEAN,
         NEW new, new = [gen |-> gen, nodes |-> <<>>, first |-> first, following |-> TRUE,
                         newBelow |-> 0, truncatedBefore |-> truncated, ver |-> ver]
  PROVE  new \in Stores /\ new.nodes = <<>> /\ new.newBelow = 0
<1>1. <<>> \in Seq(AnyNode)
  OBVIOUS
<1>2. QED
  BY <1>1 DEF Stores

\* Whatever arrives, the window shows the result in one form.
LEMMA ShownReceived ==
  ASSUME IInv, ToldOnce, ShownOnce, Receive
  PROVE  ShownOnce'
<1>1. Typed /\ Versions
  BY DEF IInv
<1>2. CASE ReceiveHello
  <2>1. Take("hello") /\ Quiet
    BY <1>2 DEF ReceiveHello
  <2>2. /\ Popped /\ Kind(1) = "hello" /\ Head(chan) = chan[1] /\ chan[1] \in Envelopes
    BY <1>1, <2>1, TakeIs
  <2>3. 1 \in DOMAIN chan
    BY <1>1, <2>2, Pop
  <2>4. chan[1].frame.gen = connections /\ store.gen < connections /\ store.gen \in Nat /\ connections \in Nat
    BY <1>1, <2>2, <2>3 DEF Versions, Typed, Stores
  <2>5. /\ chan[1].frame.from \in Nat /\ chan[1].frame.truncatedBefore \in BOOLEAN /\ chan[1].frame.gen \in Nat
        /\ chan[1].ver \in Nat
    BY <2>2 DEF Envelopes, Frames, Kind
  <2>6. PICK new : new = [[EmptyStore EXCEPT !.gen = chan[1].frame.gen, !.ver = chan[1].ver]
                            EXCEPT !.first = chan[1].frame.from, !.truncatedBefore = chan[1].frame.truncatedBefore]
    OBVIOUS
  <2>7. chan[1].frame.gen # store.gen
    BY <2>4
  <2>8. Becomes(new)
    BY <1>2, <2>2, <2>6, <2>7 DEF ReceiveHello
  <2>9. new \in Stores /\ new.nodes = <<>> /\ new.newBelow = 0
    <3>1. PICK gen, ver, first, truncated : /\ gen = chan[1].frame.gen /\ ver = chan[1].ver /\ first = chan[1].frame.from
                                            /\ truncated = chan[1].frame.truncatedBefore
      OBVIOUS
    <3>2. new = [gen |-> gen, nodes |-> <<>>, first |-> first, following |-> TRUE,
                 newBelow |-> 0, truncatedBefore |-> truncated, ver |-> ver]
      BY <2>6, <3>1 DEF EmptyStore
    <3>3. QED
      BY <2>5, <3>1, <3>2, EmptyIs
  <2>10. QED
    BY <2>8, <2>9, ShownRenewed
<1>3. CASE ReceiveReset
  <2>1. Take("reset") /\ Quiet
    BY <1>3 DEF ReceiveReset
  <2>2. Head(chan) = chan[1] /\ chan[1] \in Envelopes
    BY <1>1, <2>1, TakeIs
  <2>3. store.gen \in Nat /\ chan[1].ver \in Nat
    BY <1>1, <2>2 DEF Typed, Stores, Envelopes
  <2>4. PICK new : new = [EmptyStore EXCEPT !.gen = store.gen, !.ver = chan[1].ver]
    OBVIOUS
  <2>5. Becomes(new)
    BY <1>3, <2>2, <2>4 DEF ReceiveReset
  <2>6. new \in Stores /\ new.nodes = <<>> /\ new.newBelow = 0
    <3>1. PICK gen, ver : gen = store.gen /\ ver = chan[1].ver
      OBVIOUS
    <3>2. new = [gen |-> gen, nodes |-> <<>>, first |-> 0, following |-> TRUE,
                 newBelow |-> 0, truncatedBefore |-> FALSE, ver |-> ver]
      BY <2>4, <3>1 DEF EmptyStore
    <3>3. QED
      BY <2>3, <3>1, <3>2, EmptyIs
  <2>7. QED
    BY <2>5, <2>6, ShownRenewed
<1>4. CASE ReceiveGone
  <2>1. conn' = "ended" /\ UNCHANGED <<store, request, reloaded, torn>>
    BY <1>4 DEF ReceiveGone, history
  <2>2. ~Synced'
    BY <2>1 DEF Synced
  <2>3. \A S : \A end \in Nat, follows \in BOOLEAN : Ours(S) /\ Once(S, end, follows) => Once(S, end, follows)'
    BY <2>2, OnceBefore
  <2>4. QED
    BY <2>1, <2>3, ShownSame
<1>5. QED
  BY <1>2, <1>3, <1>4, RowsShown, PatchShown DEF Receive

-----------------------------------------------------------------------------
(* An answer                                                               *)

\* The first rows of a longer list are rows of it.
LEMMA FirstOnly ==
  ASSUME NEW all \in Seq(AnyNode), NEW cap \in Nat \ {0}, Len(all) > cap, NEW kept, CutTo(all, cap, kept)
  PROVE  \A n \in ToSet(kept) : n \in ToSet(all)
<1>1. PICK R : R = AnyNode
  OBVIOUS
<1>2. all \in Seq(R) /\ Len(all) \in Nat /\ DOMAIN all = 1 .. Len(all)
  BY <1>1
<1>3. /\ DOMAIN kept = 1 .. cap
      /\ \A i \in 1 .. cap : kept[i] = all[i] /\ i \in 1 .. Len(all)
  BY <1>2 DEF CutTo
<1>4. QED
  BY <1>2, <1>3 DEF ToSet

\* A node of the window that a page leaves is of the page or was not taken away by it.
LEMMA PageLeaves ==
  ASSUME store \in Stores, NEW p, p \in Pages, NEW new, PageTaken(p, new), p.removed \cap Held(p.nodes) = {}
  PROVE  \A n \in ToSet(new.nodes) : n \in Answered(p)
<1>1. PICK all : PrependedOf(p, all)
  BY DEF PrependedOf
<1>2. PICK old, page, held, gone : old = store.nodes /\ page = p.nodes /\ held = Held(old) /\ gone = p.removed
  OBVIOUS
<1>3. PICK first : OutsideOf(page, held, first)
  BY DEF OutsideOf
<1>4. PICK joined : joined = first \o old
  OBVIOUS
<1>5. OutsideOf(joined, gone, all)
  BY <1>1, <1>2, <1>3, <1>4 DEF OutsideOf, PrependedOf, Prepended
<1>6. page \in Seq(AnyNode) /\ old \in Seq(AnyNode) /\ InStore = ToSet(old)
  BY <1>2 DEF Pages, Stores, InStore
<1>7. first \in Seq(AnyNode) /\ \A n : n \in ToSet(first) => n \in ToSet(page)
  BY <1>3, <1>6, OutsideIs
<1>8. joined \in Seq(AnyNode) /\ \A n : n \in ToSet(joined) <=> n \in ToSet(first) \/ n \in ToSet(old)
  BY <1>4, <1>6, <1>7, RowsChained
<1>9. /\ all \in Seq(AnyNode) /\ Len(all) \in Nat
      /\ \A n : n \in ToSet(all) <=> n \in ToSet(joined) /\ n.at \notin gone
  BY <1>5, <1>8, OutsideIs
<1>10. \A n \in ToSet(all) : n \in Answered(p)
  BY <1>2, <1>6, <1>7, <1>8, <1>9 DEF Answered
<1>11. PICK evicts : evicts = (Len(all) > WindowCap)
  OBVIOUS
<1>12. evicts \in BOOLEAN /\ (evicts <=> Len(all) > WindowCap)
  <2>1. PICK n \in Nat, m \in Nat : n = Len(all) /\ m = WindowCap
    BY <1>9, SizesAssumption
  <2>2. evicts = (n > m)
    BY <1>11, <2>1
  <2>3. evicts \in BOOLEAN /\ (evicts <=> n > m)
    BY <2>2, MoreThan
  <2>4. QED
    BY <2>1, <2>3
<1>13. new.nodes = IF evicts THEN SubSeq(all, 1, WindowCap) ELSE all
  <2>1. new = WithPage(p) /\ all = Prepended(p)
    BY <1>1 DEF PageTaken, PrependedOf
  <2>2. new.nodes = IF Len(all) > WindowCap THEN SubSeq(all, 1, WindowCap) ELSE all
    BY <2>1 DEF WithPage, Stores
  <2>3. QED
    BY <1>11, <2>2
<1>14. \A n \in ToSet(new.nodes) : n \in ToSet(all)
  <2>1. CASE evicts
    <3>1. CutTo(all, WindowCap, new.nodes) /\ Len(all) > WindowCap
      BY <1>12, <1>13, <2>1 DEF CutTo
    <3>2. QED
      BY <1>9, <3>1, SizesAssumption, FirstOnly
  <2>2. CASE ~evicts
    BY <1>13, <2>2
  <2>3. QED
    BY <1>12, <2>1, <2>2
<1>15. QED
  BY <1>10, <1>14

\* An answer changes neither the file, the poller nor the frames.
LEMMA OnceAnswered ==
  ASSUME UNCHANGED <<file, tail, chan, conn, connections>>, store'.ver = store.ver, store'.gen = store.gen,
         NEW S, NEW end, NEW follows, Once(S, end, follows), NEW T, T \subseteq S, NEW still, still => follows
  PROVE  Once(T, end, still)'
<1>1. PICK v : v = store.ver
  OBVIOUS
<1>2. UnderWay(v)' = UnderWay(v) /\ Synced' = Synced /\ Live' = Live
  BY DEF UnderWay, IsRows, Kind, Sent, Synced, Live
<1>3. \A c : (Patched(c, v)' <=> Patched(c, v)) /\ (Awaits(c, v)' <=> Awaits(c, v))
  BY <1>2 DEF Patched, Kind, Awaits
<1>4. Due(v)' \subseteq Due(v)
  BY <1>3, DueIs
<1>5. QED
  BY <1>1, <1>2, <1>4, OnceKept

LEMMA ShownAnswered ==
  ASSUME IInv, ShownOnce, NEW r \in Requests, Answer(r)
  PROVE  ShownOnce'
<1>1. Typed
  BY DEF IInv
<1>2. PICK p : p = request[r].page
  OBVIOUS
<1>3. /\ UNCHANGED <<file, tail, chan, conn, connections>>
      /\ p \in Pages /\ store \in Stores
      /\ store' = IF r = "earlier" THEN WithPage(p) ELSE WithTail(p)
      /\ Good' => Good /\ Open(r)
      /\ ~Open(r)'
      /\ \A q : Open(q)' => /\ q \in Requests /\ Open(q) /\ r # "tail" /\ request'[q].page = request[q].page
      /\ reloaded' = IF r = "tail" THEN p.to ELSE reloaded
  BY <1>1, <1>2, AnsweredIs
<1>4. SUFFICES ASSUME Calm' PROVE ShownOnce'
  BY DEF ShownOnce
<1>5. Calm /\ Good /\ Open(r)
  <2>1. torn \subseteq torn' /\ Good'
    BY <1>4 DEF Answer, Calm, Good
  <2>2. QED
    BY <1>3, <1>4, <2>1 DEF Calm
<1>6. r = "earlier" \/ r = "tail"
  BY SizesAssumption
<1>7. CASE r = "tail"
  <2>1. store' = WithTail(p) /\ reloaded' = p.to /\ \A q : ~Open(q)'
    BY <1>3, <1>7
  <2>2. PICK new : new = WithTail(p)
    OBVIOUS
  <2>3. store' = new /\ new.gen = store.gen /\ new.ver = store.ver /\ new.nodes = p.nodes /\ new.following
    BY <1>3, <2>1, <2>2, WithTailIs
  <2>4. PICK S, end, follows : S = ToSet(p.nodes) /\ end = p.to /\ follows = store'.following
    OBVIOUS
  <2>5. Once(S, end, TRUE)
    BY <1>2, <1>5, <1>7, <2>4 DEF ShownOnce
  <2>6. Once(S, end, follows)'
    BY <1>3, <2>3, <2>5, OnceAnswered
  <2>7. InStore' = S
    BY <2>3, <2>4 DEF InStore
  <2>8. QED
    BY <2>1, <2>4, <2>6, <2>7 DEF ShownOnce
<1>8. CASE r = "earlier"
  <2>1. store' = WithPage(p) /\ reloaded' = reloaded
    BY <1>3, <1>8
  <2>2. PICK new : PageTaken(p, new)
    BY DEF PageTaken
  <2>3. store' = new /\ Widened(p, new) /\ (EarlierRows(p) => RowsPrepended(p, new))
    BY <1>3, <2>1, <2>2, PageTakenIs DEF PageTaken
  <2>4. EarlierRows(p) /\ p.removed \cap Held(p.nodes) = {}
    BY <1>2, <1>5, <1>8 DEF IInv, EarlierFits, WindowFits, EarlierRows
  <2>5. new.gen = store.gen /\ new.ver = store.ver /\ (new.following => store.following)
    BY <2>3, <2>4 DEF Widened, RowsPrepended
  <2>6. PICK A, T, end, follows, still : /\ A = Answered(p) /\ T = InStore' /\ end = reloaded
                                         /\ follows = store.following /\ still = store'.following
    OBVIOUS
  <2>7. T \subseteq A
    BY <1>3, <2>2, <2>3, <2>4, <2>6, PageLeaves DEF InStore
  <2>8. Once(A, end, follows)
    BY <1>2, <1>5, <1>8, <2>6 DEF ShownOnce
  <2>9. Once(T, end, still)'
    BY <1>3, <2>3, <2>5, <2>6, <2>7, <2>8, OnceAnswered
  <2>10. ASSUME Open("tail")', NEW q, q = request'["tail"].page PROVE Once(ToSet(q.nodes), q.to, TRUE)'
    <3>1. Open("tail") /\ q = request["tail"].page
      BY <1>3, <2>10
    <3>2. PICK S, to : S = ToSet(q.nodes) /\ to = q.to
      OBVIOUS
    <3>3. Once(S, to, TRUE)
      BY <1>5, <3>1, <3>2 DEF ShownOnce
    <3>4. Once(S, to, TRUE)'
      BY <1>3, <2>3, <2>5, <3>3, OnceAnswered
    <3>5. QED
      BY <3>2, <3>4
  <2>11. ~Open("earlier")'
    BY <1>3, <1>8
  <2>12. QED
    BY <2>1, <2>6, <2>9, <2>10, <2>11 DEF ShownOnce
<1>9. QED
  BY <1>6, <1>7, <1>8

\* An answer that fails to come concerns the window no more.
LEMMA ShownUnanswered ==
  ASSUME IInv, ShownOnce, NEW r \in Requests, FailAnswer(r)
  PROVE  ShownOnce'
<1>1. UNCHANGED <<file, tail, chan, conn, connections, store, reloaded, torn>>
  BY DEF FailAnswer, client, server, history
<1>2. \A q : Open(q)' => Open(q) /\ request'[q] = request[q]
  BY DEF FailAnswer, Open, NoRequest, IInv, Typed
<1>3. SUFFICES ASSUME Calm PROVE ShownOnce'
  BY <1>1 DEF ShownOnce, Calm
<1>4. PICK p, q : p = request["earlier"].page /\ q = request["tail"].page
  OBVIOUS
<1>5. /\ Once(InStore, reloaded, store.following)
      /\ Open("earlier") => EarlierOK(p)
      /\ Open("tail") => TailOK(q)
  BY <1>3, <1>4, ShownIs
<1>6. /\ Once(InStore, reloaded, store.following)'
      /\ Open("earlier") => EarlierOK(p)'
      /\ Open("tail") => TailOK(q)'
  BY <1>1, <1>5, ShownStill
<1>7. /\ Open("earlier")' => Open("earlier") /\ request'["earlier"].page = p
      /\ Open("tail")' => Open("tail") /\ request'["tail"].page = q
  BY <1>2, <1>4
<1>8. QED
  BY <1>1, <1>6, <1>7 DEF TailOK, EarlierOK, ShownOnce

-----------------------------------------------------------------------------
(* A result is shown once                                                  *)

LEMMA InitOnce ==
  Init => ToldOnce /\ ShownOnce
<1>1. SUFFICES ASSUME Init PROVE ToldOnce /\ ShownOnce
  OBVIOUS
<1>2. chan = <<>> /\ DOMAIN chan = {} /\ ~Synced /\ InStore = {}
  <2>1. chan = <<>> /\ conn = "waiting" /\ store = EmptyStore
    BY <1>1 DEF Init
  <2>2. store.nodes = <<>>
    BY <2>1 DEF EmptyStore
  <2>3. QED
    BY <2>1, <2>2 DEF Synced, InStore, ToSet
<1>3. \A r : ~Open(r)
  <2>1. \A r \in Requests : request[r] = NoRequest
    BY <1>1 DEF Init
  <2>2. NoRequest.st = "idle"
    BY DEF NoRequest
  <2>3. QED
    BY <2>1, <2>2 DEF Open
<1>4. ToldOnce
  BY <1>2 DEF ToldOnce
<1>5. Once(InStore, reloaded, store.following)
  BY <1>2 DEF Once, OneForm, Telling
<1>6. QED
  BY <1>3, <1>4, <1>5 DEF ShownOnce

LEMMA NextOnce ==
  ASSUME IInv, ToldOnce, ShownOnce, [Next]_vars
  PROVE  ShownOnce'
<1>1. CASE Write \/ Rotate \/ Delete \/ Connect \/ Tick \/ PollerFails \/ Disconnect
  BY <1>1, ShownServed
<1>2. CASE Receive
  BY <1>2, ShownReceived
<1>3. CASE AskEarlier \/ AskTail
  BY <1>3, ShownAsked
<1>4. CASE \E r \in Requests : Answer(r) \/ FailAnswer(r)
  BY <1>4, ShownAnswered, ShownUnanswered
<1>5. CASE UNCHANGED vars
  <2>1. UNCHANGED <<file, tail, chan, conn, connections, store, reloaded, request, torn>>
    BY <1>5 DEF vars, server, client, asking, history
  <2>2. SUFFICES ASSUME Calm PROVE ShownOnce'
    BY <2>1 DEF ShownOnce, Calm
  <2>3. PICK p, q : p = request["earlier"].page /\ q = request["tail"].page
    OBVIOUS
  <2>4. /\ Once(InStore, reloaded, store.following)
        /\ Open("earlier") => EarlierOK(p)
        /\ Open("tail") => TailOK(q)
    BY <2>2, <2>3, ShownIs
  <2>5. /\ Once(InStore, reloaded, store.following)'
        /\ Open("earlier") => EarlierOK(p)'
        /\ Open("tail") => TailOK(q)'
    BY <2>1, <2>4, ShownStill
  <2>6. /\ Open("earlier")' => Open("earlier") /\ request'["earlier"].page = p
        /\ Open("tail")' => Open("tail") /\ request'["tail"].page = q
    BY <2>1, <2>3 DEF Open
  <2>7. QED
    BY <2>1, <2>5, <2>6 DEF TailOK, EarlierOK, ShownOnce
<1>6. Drop \/ IdleTimeout => Disconnect
  BY DEF Drop, IdleTimeout
<1>7. QED
  BY <1>1, <1>2, <1>3, <1>4, <1>5, <1>6 DEF Next

\* A result the poller has read is told of once by what it sends (tail.ts), and neither the
\* window, a page on its way (window.ts completeBackfillOrphans) nor the reload of the tail
\* comes to hold it as an orphan and in its call (pair.ts, rowStore.ts), whatever order
\* frames, answers, reloads and replacements of the file come in.
THEOREM ResultToldOnce ==
  Spec => []OInv
<1>1. Init => OInv
  BY InitIInv, InitOnce DEF OInv
<1>2. OInv /\ [Next]_vars => OInv'
  BY NextKeeps, NextTells, NextOnce DEF OInv
<1>3. QED
  BY <1>1, <1>2, PTL DEF Spec

\* rowStore.ts never shows a result twice, in the node of its call and as a node of its
\* own: the patch that completes the call takes the orphan away, and a page that holds the
\* call has the orphan in the window taken away with it.
THEOREM ResultIsShownOnce ==
  Spec => []ResultShownOnce
<1>1. OInv => ResultShownOnce
  <2>1. SUFFICES ASSUME OInv, Calm PROVE OneForm(InStore)
    BY DEF ResultShownOnce, Calm, OneForm, InStore
  <2>2. Once(InStore, reloaded, store.following)
    BY <2>1 DEF OInv, ShownOnce
  <2>3. QED
    BY <2>2 DEF Once
<1>2. QED
  BY <1>1, ResultToldOnce, PTL
=============================================================================
