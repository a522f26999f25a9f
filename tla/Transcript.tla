----------------------------- MODULE Transcript -----------------------------
(***************************************************************************)
(* What the viewer makes of the bytes of a transcript: rows, windows of    *)
(* rows (core/window.ts), the forward tail (core/tail.ts) and the pairing  *)
(* of a tool call with its result (core/pair.ts).                          *)
(*                                                                         *)
(* A transcript is a sequence of bytes. The first byte of a row says what  *)
(* the row is, "t" a text, "c" a tool call, "r" a tool result; "x" is any  *)
(* later byte of a row and "n" the newline. A row is one block, and a      *)
(* transcript holds at most one call and one result, which belong          *)
(* together, so the pending map holds one entry and is never evicted.      *)
(* Offsets count from 0, as in the code.                                   *)
(***************************************************************************)
EXTENDS Integers, Sequences, SequencesExt, FiniteSets

CONSTANT RowCap   \* ROW_CAP, in bytes

ASSUME RowCapAssumption == RowCap \in Nat \ {0}

Byte  == {"t", "c", "r", "x", "n"}
\* "result": an orphan_result node; "done": a tool node with its result;
\* "unreadable": a row that does not parse.
Kinds == {"text", "call", "result", "done", "oversized", "unreadable"}

\* A row is begun only where one ends, and there is one call and one result,
\* in this order.
IsTranscript(bytes) ==
  /\ bytes \in Seq(Byte)
  /\ \A p \in DOMAIN bytes : bytes[p] \in {"t", "c", "r"} /\ p > 1 => bytes[p - 1] = "n"
  /\ \A p, q \in DOMAIN bytes : bytes[p] = bytes[q] /\ bytes[p] \in {"c", "r"} => p = q
  /\ \A q \in DOMAIN bytes : bytes[q] = "r" => \E p \in DOMAIN bytes : p < q /\ bytes[p] = "c"

Ends(bytes) == {e \in 1 .. Len(bytes) : bytes[e] = "n"}

\* One past the last complete row.
Confirmed(bytes) == Max(Ends(bytes) \cup {0})

\* The complete rows: where each starts, and its bytes.
RowStart(bytes, e) == Max({s \in Ends(bytes) : s < e} \cup {0})

Rows(bytes) ==
  {[at |-> RowStart(bytes, e), text |-> SubSeq(bytes, RowStart(bytes, e) + 1, e - 1)] :
     e \in Ends(bytes)}

\* What normalize makes of a row that is not too large to be parsed.
ParsedKind(text) ==
  IF text = <<>> THEN "unreadable"
  ELSE CASE Head(text) = "t" -> "text"
         [] Head(text) = "c" -> "call"
         [] Head(text) = "r" -> "result"
         [] OTHER            -> "unreadable"

RowKind(text) == IF Len(text) > RowCap THEN "oversized" ELSE ParsedKind(text)

Node(at, kind, ino) == [at |-> at, k |-> kind, ino |-> ino]

Ats(nodes) == {n.at : n \in nodes}
-----------------------------------------------------------------------------
\* The numbers of a finite set in order, the elements of a sequence whose places
\* are in J, and a set of nodes in file order; the node of a row that is too
\* large goes before what the same row was parsed to.
Ascending(J) ==
  [i \in 1 .. Cardinality(J) |-> CHOOSE j \in J : Cardinality({k \in J : k <= j}) = i]

Kept(s, J) ==
  LET places == Ascending(J) IN [i \in DOMAIN places |-> s[places[i]]]

Place(n) == 2 * n.at + (IF n.k = "oversized" THEN 0 ELSE 1)

InFileOrder(nodes) ==
  LET places == Ascending({Place(n) : n \in nodes})
  IN  [i \in DOMAIN places |-> CHOOSE n \in nodes : Place(n) = places[i]]
-----------------------------------------------------------------------------
(***************************************************************************)
(* pair(): a call is remembered until its result comes; a result completes *)
(* a call that was remembered, by a patch, or stays an orphan.             *)
(***************************************************************************)
Pair(candidates, pending) ==
  LET known(r)  == {c \in pending \cup candidates :
                      c.k = "call" /\ c.ino = r.ino /\ c.at < r.at}
      results   == {r \in candidates : r.k = "result" /\ known(r) # {}}
      completed == UNION {known(r) : r \in results}
  IN  [nodes   |-> candidates \ results,
       patches |-> Ats(completed),
       pending |-> (pending \cup {c \in candidates : c.k = "call"}) \ completed]

\* A result patch replaces the node in place; one for a node not held is dropped.
Complete(n, patches)       == IF n.at \in patches THEN [n EXCEPT !.k = "done"] ELSE n
Completed(nodes, patches)  == {Complete(n, patches) : n \in nodes}

(***************************************************************************)
(* findWindow: the last `limit' complete rows before `eof', and the bytes  *)
(* after them, of which no more than the cap are kept.                     *)
(***************************************************************************)
CarrySeed(bytes, to, eof) == SubSeq(bytes, Max({to, eof - RowCap}) + 1, eof)

FindWindow(bytes, eof, limit) ==
  LET prefix == SubSeq(bytes, 1, eof)
      rows   == Rows(prefix)
      kept   == {row \in rows : Cardinality({r \in rows : r.at >= row.at}) <= limit}
      to     == Confirmed(prefix)
      from   == IF kept = {} THEN to ELSE Min({row.at : row \in kept})
  IN  [rows |-> kept, from |-> from, to |-> to, truncatedBefore |-> from > 0,
       carrySeed |-> CarrySeed(bytes, to, eof)]

WindowCandidates(window, ino) == {Node(row.at, RowKind(row.text), ino) : row \in window.rows}
-----------------------------------------------------------------------------
(***************************************************************************)
(* advanceTail on the bytes read since the last tick. A row that outgrows  *)
(* the cap is skipped up to its newline; `ackOffset' is one past the last  *)
(* newline found.                                                          *)
(***************************************************************************)
NoTail == [offset |-> 0, carry |-> <<>>, ackOffset |-> 0, inode |-> 0,
           skipping |-> FALSE, rowStart |-> 0]

\* Where the joined bytes begin in the file; the first form is right unless a
\* row is being skipped.
AbsBaseAcknowledged(base) == base.ackOffset

AbsBase(base) == base.offset - Len(base.carry)

AdvanceTail(base, chunk, inode) ==
  LET combined == base.carry \o chunk
      absBase  == AbsBase(base)
      rows     == Rows(combined)
      rest     == SubSeq(combined, Confirmed(combined) + 1, Len(combined))
      still    == base.skipping /\ rows = {}
      skipping == still \/ Len(rest) > RowCap
  IN  [state |-> [offset    |-> base.offset + Len(chunk),
                  carry     |-> IF skipping THEN <<>> ELSE rest,
                  ackOffset |-> IF rows = {} THEN base.ackOffset
                                ELSE absBase + Confirmed(combined),
                  inode     |-> inode,
                  skipping  |-> skipping,
                  rowStart  |-> IF still THEN base.rowStart
                                ELSE IF skipping THEN absBase + Confirmed(combined)
                                ELSE 0],     \* read only while skipping
       oversized |-> {IF base.skipping /\ row.at = 0 THEN base.rowStart ELSE absBase + row.at :
                        row \in {r \in rows : Len(r.text) > RowCap \/ (base.skipping /\ r.at = 0)}}]
=============================================================================
