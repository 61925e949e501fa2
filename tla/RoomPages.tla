------------------------------ MODULE RoomPages ------------------------------
(***************************************************************************)
(* How a window gets to see a long room or thread: the pages of            *)
(* apps/desktop/workers/room-view.js and the hooks useRoomHistory and      *)
(* useRoomThread of apps/web/lib/data/hooks.ts.  A projection shows the    *)
(* newest items; older ones are asked for page by page with a cursor, and  *)
(* both are merged by id and sorted where they are rendered.               *)
(*                                                                         *)
(* The items of the room, or the replies of the thread, are 1 .. count in  *)
(* the order of their keys; re-linearization of what a page showed is left *)
(* out, as are the cursor's encoding and the items' contents.              *)
(***************************************************************************)
EXTENDS Naturals, FiniteSets, FiniteSetsExt

CONSTANTS
  Window,    \* items of a projection
  PageSize,  \* items of a page
  MaxScans,  \* pages that one click reads at most
  MaxItems,  \* bound on the items
  MaxBehind  \* bound on what is appended between two projections

ASSUME PageBoundsAssumption ==
  {Window, MaxItems, MaxBehind} \subseteq Nat /\ {PageSize, MaxScans} \subseteq Nat \ {0}
\* With a page more between two projections, items pass the window unseen: the
\* code has no page that reaches what lies between its cursor and a projection.
ASSUME PagesAssumption == MaxBehind <= Window - PageSize

VARIABLES
  scope,    \* "history" or "thread"
  count,
  upto,     \* the newest item of the last projection, 0 before the first
  first,    \* "awaited", "failed" or "done"
  head,     \* the newest item when the first page was read
  loaded,   \* the hook's older or loaded
  cursor,   \* the cursor's boundary, 0 for none
  more,     \* hasMore
  reading,  \* the calls of loadOlder that is under way, at most one
  displayed      \* what the window showed at some time

pageVars == <<scope, count, upto, first, head, loaded, cursor, more, reading, displayed>>

-----------------------------------------------------------------------------
(* The worker. *)

\* pageEntries reads one entry more than the page holds.
FaultExactly(boundary) == {i \in 1 .. count : i < boundary /\ i + PageSize >= boundary}
PageEntries(boundary) == {i \in 1 .. count : i < boundary /\ i + PageSize + 1 >= boundary}
Page(boundary) == {i \in PageEntries(boundary) : i + PageSize >= boundary}
HasMore(boundary) == Cardinality(PageEntries(boundary)) > PageSize
NextCursor(boundary) == IF HasMore(boundary) THEN Min(Page(boundary)) ELSE 0
Newest == count + 1  \* the boundary of a page that is asked for without a cursor

\* What projectRoom shows when the newest item is k.
Projection(k) == {i \in 1 .. k : i + Window > k}

-----------------------------------------------------------------------------
(* The hooks. *)

Shown == loaded \cup Projection(upto)
Behind == count - (IF upto > 0 THEN upto ELSE IF first = "done" THEN head ELSE count)

PagesInit ==
  /\ scope \in {"history", "thread"}
  /\ count \in 0 .. MaxItems
  /\ upto = 0 /\ first = "awaited" /\ head = 0
  /\ loaded = {} /\ cursor = 0 /\ more = FALSE
  /\ reading = {} /\ displayed = {}

\* The room goes on.
Arrive ==
  /\ count < MaxItems /\ Behind < MaxBehind
  /\ count' = count + 1
  /\ UNCHANGED <<scope, upto, first, head, loaded, cursor, more, reading, displayed>>

\* A projection, which may be older than the room is by now.
Project ==
  /\ \E k \in upto .. count :
       /\ k > upto /\ count - k <= MaxBehind
       /\ upto' = k
       /\ displayed' = displayed \cup Projection(k)
  /\ UNCHANGED <<scope, count, first, head, loaded, cursor, more, reading>>

\* The first page: a thread takes its items, the history its cursor only.
FirstPage ==
  /\ first = "awaited"
  /\ first' = "done" /\ head' = count
  /\ loaded' = IF scope = "thread" THEN Page(Newest) ELSE {}
  /\ cursor' = NextCursor(Newest) /\ more' = HasMore(Newest)
  /\ displayed' = displayed \cup loaded'
  /\ UNCHANGED <<scope, count, upto, reading>>

FirstFails ==
  /\ first = "awaited" /\ first' = "failed"
  /\ UNCHANGED <<scope, count, upto, head, loaded, cursor, more, reading, displayed>>

\* addReply: the window's own reply, which the thread shows at once.
AddReply ==
  /\ scope = "thread" /\ count < MaxItems /\ Behind < MaxBehind
  /\ count' = count + 1
  /\ loaded' = loaded \cup {count + 1}
  /\ displayed' = displayed \cup {count + 1}
  /\ UNCHANGED <<scope, upto, first, head, cursor, more, reading>>

LoadOlder ==
  /\ reading = {} /\ more /\ cursor # 0
  /\ reading' = {[known |-> Shown, cursor |-> cursor, scans |-> 0]}
  /\ UNCHANGED <<scope, count, upto, first, head, loaded, cursor, more, displayed>>

\* A page without anything new is followed by the next, within bounds.
ReadPage(r) ==
  LET found == Page(r.cursor) \ r.known
      done == found # {} \/ ~HasMore(r.cursor) \/ r.scans + 1 = MaxScans
      at == NextCursor(r.cursor)
  IN
  /\ reading' = IF done THEN {} ELSE {[r EXCEPT !.cursor = at, !.scans = r.scans + 1]}
  /\ loaded' = loaded \cup found
  /\ cursor' = IF done THEN at ELSE cursor
  /\ more' = IF done THEN HasMore(r.cursor) ELSE more
  /\ displayed' = displayed \cup found
  /\ UNCHANGED <<scope, count, upto, first, head>>

\* A page is refused or the worker is gone: what this click read is forgotten.
PageFails ==
  /\ reading # {} /\ reading' = {}
  /\ UNCHANGED <<scope, count, upto, first, head, loaded, cursor, more, displayed>>

PagesNext ==
  \/ Arrive \/ Project \/ FirstPage \/ FirstFails \/ AddReply \/ LoadOlder \/ PageFails
  \/ \E r \in reading : ReadPage(r)

PagesSpec == PagesInit /\ [][PagesNext]_pageVars

-----------------------------------------------------------------------------
(* What must hold. *)

PagesOK ==
  /\ upto <= count /\ loaded \subseteq 1 .. count
  /\ cursor # 0 => more
  /\ \A r \in reading : r.cursor # 0 /\ r.cursor <= cursor /\ r.scans < MaxScans

\* room-pagination.test.js:22: pages do not drift when newer records arrive.  From
\* the cursor up to the newest item that was projected, the window has shown
\* every item, also those that left the projection while a page was on its way;
\* so once no more is offered it has shown them all.
PagesReachEverything ==
  first = "done" /\ upto > 0 => \A i \in 1 .. upto : i >= cursor => i \in displayed
=============================================================================
