------------------------------- MODULE Paging -------------------------------
(***************************************************************************)
(* The lists a client walks page by page while messages are posted,        *)
(* pruned, pinned and withdrawn: the messages of a conversation and of a   *)
(* topic, by cursor, and the Echo requirements, by offset. A page takes    *)
(* several statements, each of which sees what is committed by then. A row *)
(* is its place in the order (created_at, id), drawn before the commit.    *)
(***************************************************************************)
EXTENDS Naturals, FiniteSets, Sequences, SequencesExt

CONSTANTS Rows,               \* 1..n
          Limit, RetentionCount, MaxPins

VARIABLES table,              \* "messages", "topic" or "requirements"
          row,                \* "none", "drawn", "live", "gone"
          pinned, everPinned, withdrawn,  \* the last two are ghosts
          reader

pagingVars == <<table, row, pinned, everPinned, withdrawn, reader>>

Idle == [kind |-> "none", pc |-> "idle", cursor |-> 0, at |-> 0, found |-> FALSE, page |-> <<>>, pages |-> <<>>,
         base |-> {}, lost |-> FALSE, offset |-> 0, hasNext |-> FALSE]
Live == {r \in Rows : row[r] = "live"}
Steps == {"idle", "latest", "lookup", "window", "anchor", "older", "newer", "select", "count", "answer", "done"}

(* The shape of every variable.                                            *)
PagingTypeOK ==
  /\ table \in {"messages", "topic", "requirements"} /\ row \in [Rows -> {"none", "drawn", "live", "gone"}]
  /\ pinned \subseteq everPinned /\ everPinned \subseteq Rows /\ withdrawn \in BOOLEAN
  /\ reader.kind \in {"none", "before", "after", "around", "offset"} /\ reader.pc \in Steps
  /\ reader.cursor \in Rows \union {0} /\ reader.base \subseteq Rows /\ Len(reader.page) <= Limit + 2

PagingInit ==
  /\ table \in {"messages", "topic", "requirements"} /\ row = [r \in Rows |-> IF r <= 2 THEN "live" ELSE "none"]
  /\ pinned = {} /\ everPinned = {} /\ withdrawn = FALSE /\ reader = Idle
-----------------------------------------------------------------------------
Drawn == {r \in Rows : row[r] # "none"}
Draw(r) ==
  /\ row[r] = "none" /\ Drawn = 1..(r - 1) /\ row' = [row EXCEPT ![r] = "drawn"]
  /\ UNCHANGED <<table, pinned, everPinned, withdrawn, reader>>
(* Retention is enforced in the transaction that posts; requirements have  *)
(* none.                                                                   *)
Victims(live) == {r \in live \ pinned : Cardinality({q \in live \ pinned : q > r}) >= RetentionCount}
Commit(r) ==
  /\ row[r] = "drawn"
  /\ LET victims == IF table = "requirements" THEN {} ELSE Victims(Live \union {r})
     IN row' = [q \in Rows |-> IF q \in victims THEN "gone" ELSE IF q = r THEN "live" ELSE row[q]]
  /\ UNCHANGED <<table, pinned, everPinned, withdrawn, reader>>
SetPinned(r) ==
  /\ row[r] = "live" /\ table # "requirements"
  /\ \/ r \notin pinned /\ Cardinality(everPinned) < MaxPins /\ pinned' = pinned \union {r} /\ everPinned' = everPinned \union {r}
     \/ r \in pinned /\ pinned' = pinned \ {r} /\ UNCHANGED everPinned
  /\ UNCHANGED <<table, row, withdrawn, reader>>
(* The copy of a topic message is taken back; a requirement's status       *)
(* leaves the filter.                                                      *)
Withdraw(r) ==
  /\ row[r] = "live" /\ r \notin pinned /\ table # "topic" /\ ~withdrawn /\ withdrawn' = TRUE
  /\ row' = [row EXCEPT ![r] = "gone"] /\ UNCHANGED <<table, pinned, everPinned, reader>>
-----------------------------------------------------------------------------
Beside == UNCHANGED <<table, row, pinned, everPinned, withdrawn>>
Beyond(dir, r, c) == IF dir = "before" THEN r < c ELSE r > c
Ascending(dir) == dir = "after"
Sorted(S) == CHOOSE q \in [1..Cardinality(S) -> S] : \A i, j \in DOMAIN q : i < j => q[i] < q[j]
(* How many rows ORDER BY puts before r, and what LIMIT leaves.            *)
Precedes(dir, q, r) == IF Ascending(dir) THEN q < r ELSE q > r
Rank(S, dir, r) == Cardinality({q \in S : Precedes(dir, q, r)})
First(S, dir, limit) == {r \in S : Rank(S, dir, r) < limit}
(* Rows before a cursor are read newest first and turned round.            *)
listMessageWindow(dir, c, limit) ==
  LET inRange == {r \in Live : dir = "latest" \/ Beyond(dir, r, c)} IN Sorted(First(inRange, dir, limit))
(* A topic's pages are turned round only when they have a before cursor.   *)
listTopicMessages(dir, c, limit) ==
  IF dir = "latest" THEN Reverse(listMessageWindow(dir, c, limit)) ELSE listMessageWindow(dir, c, limit)
Window(dir, c, limit) == IF table = "topic" THEN listTopicMessages(dir, c, limit) ELSE listMessageWindow(dir, c, limit)

Begin(kind, at) ==
  /\ reader = Idle /\ Beside
  /\ (kind = "offset") = (table = "requirements") /\ (kind \in {"before", "offset"}) = (at = 0) /\ at \in Live \union {0}
  /\ reader' = [Idle EXCEPT !.kind = kind, !.cursor = at, !.at = at, !.base = Live,
                  !.pc = CASE kind = "before" -> "latest" [] kind = "after" -> "lookup" [] kind = "around" -> "anchor" [] OTHER -> "select"]
Latest ==
  /\ reader.pc = "latest" /\ Beside
  /\ reader' = [reader EXCEPT !.pc = "answer", !.page = Window("latest", 0, Limit)]
(* The cursor row is looked up first; if it is gone the page is empty.     *)
messageCursor ==
  /\ reader.pc = "lookup" /\ Beside
  /\ reader' = IF row[reader.cursor] = "live" THEN [reader EXCEPT !.pc = "window"]
               ELSE [reader EXCEPT !.pc = "answer", !.page = <<>>, !.lost = TRUE]
listMessages ==
  /\ reader.pc = "window" /\ Beside
  /\ reader' = [reader EXCEPT !.pc = "answer", !.page = Window(reader.kind, reader.cursor, Limit)]
(* The client: the next page starts at the far end of this one, and one    *)
(* that is not full is the last.                                           *)
FarEnd(page) == IF reader.kind = "after" \/ (table = "topic" /\ reader.pages = <<>>) THEN page[Len(page)] ELSE page[1]
Turn ==
  /\ reader.pc = "answer" /\ reader.kind \in {"before", "after"} /\ Beside
  /\ reader' = [reader EXCEPT !.pages = Append(@, reader.page), !.page = <<>>,
                  !.pc = IF Len(reader.page) < Limit THEN "done" ELSE "lookup",
                  !.cursor = IF reader.page = <<>> THEN @ ELSE FarEnd(reader.page)]
-----------------------------------------------------------------------------
sideLimit == IF (Limit - 1) \div 2 < 1 THEN 1 ELSE (Limit - 1) \div 2
Anchor ==
  /\ reader.pc = "anchor" /\ Beside
  /\ reader' = IF row[reader.at] = "live" THEN [reader EXCEPT !.pc = "older", !.page = <<reader.at>>]
               ELSE [reader EXCEPT !.pc = "done"]
(* Each side looks its cursor up again.                                    *)
Side(pc, next, whole) ==
  /\ reader.pc = pc /\ Beside
  /\ \/ row[reader.at] # "live" /\ ~reader.found /\ reader' = [reader EXCEPT !.pc = next]
     \/ row[reader.at] = "live" /\ ~reader.found /\ reader' = [reader EXCEPT !.found = TRUE]
     \/ reader.found /\ reader' = [reader EXCEPT !.pc = next, !.found = FALSE, !.page = whole]
Older == Side("older", "newer", Window("before", reader.at, sideLimit) \o reader.page)
Newer == Side("newer", "done", reader.page \o Window("after", reader.at, sideLimit))
-----------------------------------------------------------------------------
(* ORDER BY created_at DESC LIMIT OFFSET, then COUNT in a statement of its *)
(* own.                                                                    *)
listRequirements ==
  /\ reader.pc = "select" /\ Beside
  /\ LET rank(r) == Rank(Live, "latest", r)
         selected == {r \in Live : reader.offset <= rank(r) /\ rank(r) < reader.offset + Limit}
     IN reader' = [reader EXCEPT !.pc = "count", !.page = Reverse(Sorted(selected))]
HasNext(items) == reader.offset + Len(items) < Cardinality(Live)
CountRequirements ==
  /\ reader.pc = "count" /\ Beside /\ reader' = [reader EXCEPT !.pc = "answer", !.hasNext = HasNext(reader.page)]
NextOffset(page) == Len(page)
ListPage ==
  /\ reader.pc = "answer" /\ reader.kind = "offset" /\ Beside
  /\ reader' = [reader EXCEPT !.pages = Append(@, reader.page), !.page = <<>>,
                  !.offset = @ + NextOffset(reader.page), !.pc = IF reader.hasNext /\ Len(reader.pages) < 3 THEN "select" ELSE "done"]
(* The client keeps what it wants and walks again.                         *)
Again == reader.pc = "done" /\ reader' = Idle /\ Beside
-----------------------------------------------------------------------------
PagingNext ==
  \/ \E r \in Rows : Draw(r) \/ Commit(r) \/ SetPinned(r) \/ Withdraw(r)
  \/ \E kind \in {"before", "after", "around", "offset"}, at \in Rows \union {0} : Begin(kind, at)
  \/ Latest \/ messageCursor \/ listMessages \/ Turn \/ Anchor \/ Older \/ Newer
  \/ listRequirements \/ CountRequirements \/ ListPage \/ Again
-----------------------------------------------------------------------------
Seen == UNION {Range(reader.pages[i]) : i \in DOMAIN reader.pages}
Missed == {r \in reader.base \ Seen : r \in Live /\ (reader.kind = "after" => r > reader.at)}

(* A walk that reached its end has shown every row that was there from its *)
(* beginning to its end, though pages were read at different moments. If   *)
(* its cursor was pruned under it, a walk back may miss pinned rows, and   *)
(* others only if someone withdrew a copy.                                 *)
WalkComplete ==
  reader.pc = "done" /\ reader.kind \in {"before", "after"} =>
    /\ ~reader.lost => Missed = {}
    /\ reader.lost /\ ~withdrawn /\ reader.kind = "before" => Missed \subseteq everPinned

(* The pages of a walk follow each other in the order of the list: no row  *)
(* comes twice and none comes late.                                        *)
PagesInOrder ==
  \A i, j \in DOMAIN reader.pages :
    i < j => \A a \in Range(reader.pages[i]), b \in Range(reader.pages[j]) :
               /\ reader.kind = "before" => b < a
               /\ reader.kind = "after" => a < b

(* Around an anchor nothing is left out: a row between the ends of the     *)
(* page that was there all along is in it, and the page is in order.       *)
AroundContiguous ==
  reader.pc = "done" /\ reader.kind = "around" /\ reader.page # <<>> =>
    LET page == reader.page IN
    /\ \A i \in 1..(Len(page) - 1) : page[i] < page[i + 1]
    /\ \A r \in reader.base : r \in Live /\ page[1] <= r /\ r <= page[Len(page)] => r \in Range(page)

(* Pages by offset miss nothing that stays in the list as long as none     *)
(* leaves it, however many are submitted meanwhile (rows come twice then). *)
OffsetMissesNothing ==
  reader.pc = "done" /\ reader.kind = "offset" /\ ~withdrawn /\ ~reader.hasNext => Missed = {}
=============================================================================
