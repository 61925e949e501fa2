--------------------------- MODULE RoomClientProofs ---------------------------
(***************************************************************************)
(* Theorems about what a member's window and app do with a room: RoomPages *)
(* for every size of windows and pages, SlipMarket for any number of       *)
(* views, polls and markets, RoomScores for any number of fans and calls,  *)
(* and, with RoomTimelineProofs, the whole of MCRoomTimeline.              *)
(***************************************************************************)
EXTENDS MCRoomTimeline, RoomTimelineProofs, FiniteSetTheorems, NaturalsInduction, TLAPS

LEMMA PageBounds ==
  /\ Window \in Nat /\ MaxItems \in Nat /\ MaxBehind \in Nat
  /\ PageSize \in Nat /\ PageSize > 0 /\ MaxScans \in Nat /\ MaxScans > 0
  /\ MaxBehind + PageSize <= Window
BY PageBoundsAssumption, PagesAssumption

-----------------------------------------------------------------------------
(* One page. *)

\* A page has an older one when more than a page's items precede its boundary,
\* and its cursor is then the oldest item on it.
LEMMA PageCuts ==
  ASSUME count \in Nat, NEW b \in 1 .. count + 1
  PROVE  /\ HasMore(b) <=> b > PageSize + 1
         /\ NextCursor(b) = IF b > PageSize + 1 THEN b - PageSize ELSE 0
         /\ \A i \in Nat : i \in Page(b) <=> i >= 1 /\ i < b /\ i + PageSize >= b
<1> USE PageBounds
<1>1. \A i \in Nat : i \in Page(b) <=> i >= 1 /\ i < b /\ i + PageSize >= b
  BY DEF Page, PageEntries
<1>2. CASE b > PageSize + 1
  <2>1. PageEntries(b) = (b - PageSize - 1) .. (b - 1)
    BY <1>2 DEF PageEntries
  <2>2. Cardinality(PageEntries(b)) = PageSize + 1
    <3>1. b - PageSize - 1 \in Int /\ b - 1 \in Int /\ b - PageSize - 1 <= b - 1
      OBVIOUS
    <3>2. Cardinality((b - PageSize - 1) .. (b - 1)) = (b - 1) - (b - PageSize - 1) + 1
      BY <3>1, FS_Interval
    <3>3. QED
      BY <2>1, <3>2
  <2>3. HasMore(b)
    BY <2>2 DEF HasMore
  <2>4. Min(Page(b)) = b - PageSize
    <3>1. Page(b) = (b - PageSize) .. (b - 1)
      BY <1>2 DEF Page, PageEntries
    <3>2. b - PageSize \in Page(b)
      BY <1>2, <3>1
    <3>3. \A y \in Page(b) : b - PageSize <= y
      BY <1>2, <3>1
    <3>4. Min(Page(b)) \in Page(b) /\ \A y \in Page(b) : Min(Page(b)) <= y
      BY <3>2, <3>3 DEF Min
    <3>5. QED
      BY <3>1, <3>3, <3>4
  <2>5. QED
    BY <1>1, <1>2, <2>3, <2>4 DEF NextCursor
<1>3. CASE ~(b > PageSize + 1)
  <2>1. PageEntries(b) = 1 .. (b - 1)
    BY <1>3 DEF PageEntries
  <2>2. Cardinality(PageEntries(b)) = b - 1
    <3>1. Cardinality(1 .. (b - 1)) = IF 1 > b - 1 THEN 0 ELSE (b - 1) - 1 + 1
      BY FS_Interval
    <3>2. QED
      BY <2>1, <3>1
  <2>3. ~HasMore(b)
    BY <1>3, <2>2 DEF HasMore
  <2>4. QED
    BY <1>1, <1>3, <2>3 DEF NextCursor
<1>4. QED
  BY <1>2, <1>3

-----------------------------------------------------------------------------
(* The window. *)

\* The newest item that is shown, or that the first page was read with.
Edge == IF upto > 0 THEN upto ELSE head

PageTypes ==
  /\ scope \in {"history", "thread"} /\ first \in {"awaited", "failed", "done"}
  /\ count \in Nat /\ upto \in 0 .. count /\ head \in 0 .. count
  /\ cursor \in 0 .. count /\ more \in BOOLEAN
  /\ loaded \subseteq 1 .. count /\ loaded \subseteq displayed
  /\ cursor # 0 => more
  /\ first # "done" => reading = {} /\ ~more

\* No projection is further behind than the pages allow for.
NotFarBehind ==
  /\ upto > 0 => count - upto <= MaxBehind
  /\ first = "done" => count - Edge <= MaxBehind

\* What the window has shown: the last projection, and everything from the
\* cursor on; before any projection, the page that the next one covers is open.
Contiguous ==
  /\ \A i \in Nat : i >= 1 /\ i <= upto /\ i + Window > upto => i \in displayed
  /\ first = "done" =>
       \A i \in Nat : i >= 1 /\ i >= cursor /\ i <= Edge =>
         i \in displayed \/ (upto = 0 /\ i + PageSize > head)

\* A click that scans on has passed only over what was shown.
Scans ==
  \A r \in reading :
    /\ r.cursor \in 1 .. cursor /\ r.scans \in 0 .. MaxScans - 1
    /\ r.known \subseteq displayed
    /\ \A i \in Nat : r.cursor <= i /\ i < cursor => i \in displayed

PagesInv == PageTypes /\ NotFarBehind /\ Contiguous /\ Scans

LEMMA InitPages == PagesInit => PagesInv
<1> SUFFICES ASSUME PagesInit PROVE PagesInv
  OBVIOUS
<1>1. /\ count \in Nat /\ upto = 0 /\ first = "awaited" /\ head = 0 /\ cursor = 0
      /\ loaded = {} /\ displayed = {} /\ reading = {} /\ more = FALSE
      /\ scope \in {"history", "thread"}
  BY PageBounds DEF PagesInit
<1>2. PageTypes
  <2>1. upto \in 0 .. count /\ head \in 0 .. count /\ cursor \in 0 .. count
    BY <1>1
  <2>2. more \in BOOLEAN /\ ~more
    BY <1>1
  <2>3. QED
    BY <1>1, <2>1, <2>2 DEF PageTypes
<1>3. NotFarBehind /\ Contiguous /\ Scans
  BY <1>1 DEF NotFarBehind, Contiguous, Scans
<1>4. QED
  BY <1>2, <1>3 DEF PagesInv

\* A new item is out of reach of everything the window relies on.
LEMMA GrowthKeepsPages ==
  ASSUME PagesInv, count < MaxItems, Behind < MaxBehind, count' = count + 1,
         UNCHANGED <<scope, upto, first, head, cursor, more, reading>>,
         loaded' \subseteq loaded \cup {count + 1}, displayed \subseteq displayed',
         loaded' \subseteq displayed'
  PROVE  PagesInv'
<1> USE PageBounds
<1>1. PageTypes'
  <2>1. loaded' \subseteq 1 .. count'
    BY DEF PagesInv, PageTypes
  <2>2. QED
    BY <2>1 DEF PagesInv, PageTypes
<1>2. NotFarBehind'
  BY DEF PagesInv, PageTypes, NotFarBehind, Edge, Behind
<1>3. Contiguous'
  BY DEF PagesInv, PageTypes, Contiguous, Edge
<1>4. Scans'
  BY DEF PagesInv, Scans
<1>5. QED
  BY <1>1, <1>2, <1>3, <1>4 DEF PagesInv

LEMMA ProjectKeepsPages == PagesInv /\ Project => PagesInv'
<1> SUFFICES ASSUME PagesInv, Project PROVE PagesInv'
  OBVIOUS
<1> USE PageBounds
<1>1. PICK k \in upto .. count :
        /\ k > upto /\ count - k <= MaxBehind
        /\ upto' = k /\ displayed' = displayed \cup Projection(k)
  BY DEF Project
<1>2. UNCHANGED <<scope, count, first, head, loaded, cursor, more, reading>>
  BY DEF Project
<1>3. upto \in Nat /\ count \in Nat /\ head \in Nat /\ head <= count /\ upto <= count
  BY DEF PagesInv, PageTypes
<1>4. k \in Nat /\ k > 0
  BY <1>1, <1>3
<1>5. \A i \in Nat : i >= 1 /\ i <= k /\ i + Window > k => i \in displayed'
  BY <1>1, <1>4 DEF Projection
<1>6. PageTypes'
  BY <1>1, <1>2, <1>4 DEF PagesInv, PageTypes
<1>7. NotFarBehind'
  BY <1>1, <1>2, <1>4 DEF NotFarBehind, Edge
<1>8. Contiguous'
  <2>1. SUFFICES ASSUME first = "done", NEW i \in Nat, i >= 1, i >= cursor, i <= k
                 PROVE  i \in displayed'
    BY <1>1, <1>2, <1>4, <1>5 DEF Contiguous, Edge
  <2>2. CASE i + Window > k
    BY <1>5, <2>1, <2>2
  <2>3. CASE ~(i + Window > k)
    <3>1. k <= Edge + MaxBehind
      BY <1>1, <1>3, <2>1 DEF PagesInv, NotFarBehind, Edge
    <3>2. i + PageSize <= Edge /\ Edge \in Nat
      BY <1>3, <1>4, <2>3, <3>1 DEF Edge
    <3>3. i \in displayed
      BY <1>3, <2>1, <3>2 DEF PagesInv, Contiguous, Edge
    <3>4. QED
      BY <1>1, <3>3
  <2>4. QED
    BY <2>2, <2>3
<1>9. Scans'
  BY <1>1, <1>2 DEF PagesInv, Scans
<1>10. QED
  BY <1>6, <1>7, <1>8, <1>9 DEF PagesInv

LEMMA FirstPageKeepsPages == PagesInv /\ FirstPage => PagesInv'
<1> SUFFICES ASSUME PagesInv, FirstPage PROVE PagesInv'
  OBVIOUS
<1> USE PageBounds
<1>1. /\ count \in Nat /\ upto \in 0 .. count /\ loaded \subseteq displayed
      /\ reading = {} /\ first = "awaited" /\ first' = "done" /\ head' = count
      /\ cursor' = NextCursor(Newest) /\ more' = HasMore(Newest)
      /\ displayed' = displayed \cup loaded' /\ UNCHANGED <<scope, count, upto, reading>>
  BY DEF PagesInv, PageTypes, FirstPage
<1>2. loaded' = Page(Newest) \/ loaded' = {}
  BY DEF FirstPage
<1>3. /\ HasMore(Newest) <=> count > PageSize
      /\ NextCursor(Newest) = IF count > PageSize THEN count + 1 - PageSize ELSE 0
  <2>1. Newest = count + 1 /\ Newest \in 1 .. count + 1
    BY <1>1 DEF Newest
  <2>2. QED
    BY <1>1, <2>1, PageCuts
<1>4. PageTypes'
  <2>1. Page(Newest) \subseteq 1 .. count
    BY DEF Page, PageEntries
  <2>2. more' \in BOOLEAN
    BY <1>1 DEF HasMore
  <2>3. cursor' \in 0 .. count /\ (cursor' # 0 => more')
    BY <1>1, <1>3
  <2>4. scope \in {"history", "thread"}
    BY DEF PagesInv, PageTypes
  <2>5. QED
    BY <1>1, <1>2, <2>1, <2>2, <2>3, <2>4 DEF PageTypes
<1>5. NotFarBehind'
  BY <1>1 DEF PagesInv, NotFarBehind, Edge
<1>6. Contiguous'
  <2>1. SUFFICES ASSUME NEW i \in Nat, i >= 1, i >= cursor', i <= Edge'
                 PROVE  i \in displayed' \/ (upto = 0 /\ i + PageSize > count)
    BY <1>1 DEF PagesInv, Contiguous
  <2>2. i + PageSize > count
    BY <1>1, <1>3, <2>1 DEF Edge
  <2>3. CASE upto > 0
    <3>1. i <= upto /\ i + Window > upto
      BY <1>1, <2>1, <2>2, <2>3 DEF Edge
    <3>2. i \in displayed
      BY <2>1, <3>1 DEF PagesInv, Contiguous
    <3>3. QED
      BY <1>1, <3>2
  <2>4. QED
    BY <1>1, <2>2, <2>3
<1>7. Scans'
  BY <1>1 DEF Scans
<1>8. QED
  BY <1>4, <1>5, <1>6, <1>7 DEF PagesInv

LEMMA LoadOlderKeepsPages == PagesInv /\ LoadOlder => PagesInv'
<1> SUFFICES ASSUME PagesInv, LoadOlder PROVE PagesInv'
  OBVIOUS
<1> USE PageBounds
<1>1. /\ cursor # 0 /\ more /\ reading' = {[known |-> Shown, cursor |-> cursor, scans |-> 0]}
      /\ UNCHANGED <<scope, count, upto, first, head, loaded, cursor, more, displayed>>
  BY DEF LoadOlder
<1>2. cursor \in Nat /\ count \in Nat /\ upto \in Nat /\ loaded \subseteq displayed
  BY DEF PagesInv, PageTypes
<1>3. Shown \subseteq displayed
  <2>1. Projection(upto) \subseteq displayed
    BY <1>2 DEF Projection, PagesInv, Contiguous
  <2>2. QED
    BY <1>2, <2>1 DEF Shown
<1>4. PageTypes' /\ NotFarBehind' /\ Contiguous'
  BY <1>1 DEF PagesInv, PageTypes, NotFarBehind, Contiguous, Edge
<1>5. Scans'
  <2>1. SUFFICES ASSUME NEW r \in reading'
                 PROVE  /\ r.cursor \in 1 .. cursor /\ r.scans \in 0 .. MaxScans - 1
                        /\ r.known \subseteq displayed
                        /\ \A i \in Nat : r.cursor <= i /\ i < cursor => i \in displayed
    BY <1>1 DEF Scans
  <2>2. r.cursor = cursor /\ r.scans = 0 /\ r.known = Shown
    BY <1>1, <2>1
  <2>3. QED
    BY <1>1, <1>2, <1>3, <2>2
<1>6. QED
  BY <1>4, <1>5 DEF PagesInv

LEMMA ReadPageKeepsPages == ASSUME NEW r \in reading, PagesInv, ReadPage(r) PROVE PagesInv'
<1> USE PageBounds
<1> DEFINE found == Page(r.cursor) \ r.known
           done == found # {} \/ ~HasMore(r.cursor) \/ r.scans + 1 = MaxScans
           at == NextCursor(r.cursor)
<1>1. /\ reading' = IF done THEN {} ELSE {[r EXCEPT !.cursor = at, !.scans = r.scans + 1]}
      /\ loaded' = loaded \cup found /\ displayed' = displayed \cup found
      /\ cursor' = IF done THEN at ELSE cursor
      /\ more' = IF done THEN HasMore(r.cursor) ELSE more
      /\ UNCHANGED <<scope, count, upto, first, head>>
  BY DEF ReadPage
<1>2. /\ count \in Nat /\ cursor \in 0 .. count /\ first = "done" /\ more \in BOOLEAN
      /\ loaded \subseteq displayed /\ loaded \subseteq 1 .. count /\ upto \in 0 .. count
      /\ head \in 0 .. count
  BY DEF PagesInv, PageTypes
<1>3. /\ r.cursor \in 1 .. cursor /\ r.scans \in 0 .. MaxScans - 1 /\ r.known \subseteq displayed
      /\ \A i \in Nat : r.cursor <= i /\ i < cursor => i \in displayed
  BY DEF PagesInv, Scans
<1>4. /\ HasMore(r.cursor) <=> r.cursor > PageSize + 1
      /\ at = IF r.cursor > PageSize + 1 THEN r.cursor - PageSize ELSE 0
      /\ \A i \in Nat : i \in Page(r.cursor) <=> i >= 1 /\ i < r.cursor /\ i + PageSize >= r.cursor
  <2>1. r.cursor \in 1 .. count + 1
    BY <1>2, <1>3
  <2>2. QED
    BY <1>2, <2>1, PageCuts
<1>5. \A i \in Nat : i >= 1 /\ i >= at /\ i < cursor => i \in displayed'
  <2>1. SUFFICES ASSUME NEW i \in Nat, i >= 1, i >= at, i < cursor PROVE i \in displayed'
    OBVIOUS
  <2>2. CASE i >= r.cursor
    BY <1>1, <1>3, <2>1, <2>2
  <2>3. CASE i < r.cursor
    <3>1. i \in Page(r.cursor)
      BY <1>2, <1>3, <1>4, <2>1, <2>3
    <3>2. QED
      BY <1>1, <1>3, <3>1
  <2>4. QED
    BY <1>2, <1>3, <2>1, <2>2, <2>3
<1>6. at \in Nat /\ at < r.cursor /\ (at # 0 <=> HasMore(r.cursor))
  BY <1>2, <1>3, <1>4
<1>7. found \subseteq 1 .. count
  BY DEF Page, PageEntries
<1>8. HasMore(r.cursor) \in BOOLEAN
  BY DEF HasMore
<1> HIDE DEF found, at
<1>9. PageTypes'
  <2>1. cursor' \in 0 .. count /\ (cursor' # 0 => more') /\ more' \in BOOLEAN
    BY <1>1, <1>2, <1>3, <1>6, <1>8 DEF PagesInv, PageTypes
  <2>2. loaded' \subseteq 1 .. count /\ loaded' \subseteq displayed'
    BY <1>1, <1>2, <1>7
  <2>3. scope \in {"history", "thread"}
    BY DEF PagesInv, PageTypes
  <2>4. QED
    BY <1>1, <1>2, <2>1, <2>2, <2>3 DEF PageTypes
<1>10. NotFarBehind'
  BY <1>1 DEF PagesInv, NotFarBehind, Edge
<1>11. Contiguous'
  <2>1. \A i \in Nat : i >= 1 /\ i <= upto' /\ i + Window > upto' => i \in displayed'
    BY <1>1 DEF PagesInv, Contiguous
  <2>2. ASSUME NEW i \in Nat, i >= 1, i >= cursor', i <= Edge
        PROVE  i \in displayed' \/ (upto = 0 /\ i + PageSize > head)
    <3>1. CASE i >= cursor
      BY <1>1, <1>2, <2>2, <3>1 DEF PagesInv, Contiguous
    <3>2. CASE i < cursor
      <4>1. i >= at
        BY <1>1, <1>2, <1>3, <2>2, <3>2
      <4>2. QED
        BY <1>5, <2>2, <3>2, <4>1
    <3>3. QED
      BY <1>2, <3>1, <3>2
  <2>3. QED
    BY <1>1, <2>1, <2>2 DEF Contiguous, Edge
<1>12. Scans'
  <2>1. SUFFICES ASSUME NEW x \in reading'
                 PROVE  /\ x.cursor \in 1 .. cursor' /\ x.scans \in 0 .. MaxScans - 1
                        /\ x.known \subseteq displayed'
                        /\ \A i \in Nat : x.cursor <= i /\ i < cursor' => i \in displayed'
    BY DEF Scans
  <2>2. ~done /\ x = [r EXCEPT !.cursor = at, !.scans = r.scans + 1] /\ cursor' = cursor
    BY <1>1, <2>1
  <2>3. x.cursor = at /\ x.scans = r.scans + 1 /\ x.known = r.known
    BY <2>2
  <2>4. HasMore(r.cursor) /\ r.scans + 1 # MaxScans
    BY <2>2
  <2>5. QED
    BY <1>1, <1>2, <1>3, <1>5, <1>6, <2>2, <2>3, <2>4
<1>13. QED
  BY <1>9, <1>10, <1>11, <1>12 DEF PagesInv

LEMMA NextPages == PagesInv /\ [PagesNext]_pageVars => PagesInv'
<1> SUFFICES ASSUME PagesInv, [PagesNext]_pageVars PROVE PagesInv'
  OBVIOUS
<1> USE PageBounds
<1>1. CASE UNCHANGED pageVars
  BY <1>1 DEF pageVars, PagesInv, PageTypes, NotFarBehind, Contiguous, Scans, Edge
<1>2. CASE Arrive
  <2>1. loaded \subseteq displayed
    BY DEF PagesInv, PageTypes
  <2>2. QED
    BY <1>2, <2>1, GrowthKeepsPages DEF Arrive
<1>3. CASE AddReply
  <2>1. loaded \subseteq displayed
    BY DEF PagesInv, PageTypes
  <2>2. QED
    BY <1>3, <2>1, GrowthKeepsPages DEF AddReply
<1>4. CASE Project
  BY <1>4, ProjectKeepsPages
<1>5. CASE FirstPage
  BY <1>5, FirstPageKeepsPages
<1>6. CASE FirstFails
  <2>1. PageTypes'
    BY <1>6 DEF FirstFails, PagesInv, PageTypes
  <2>2. NotFarBehind' /\ Contiguous' /\ Scans'
    BY <1>6 DEF FirstFails, PagesInv, NotFarBehind, Contiguous, Scans, Edge
  <2>3. QED
    BY <2>1, <2>2 DEF PagesInv
<1>7. CASE LoadOlder
  BY <1>7, LoadOlderKeepsPages
<1>8. CASE PageFails
  BY <1>8 DEF PageFails, PagesInv, PageTypes, NotFarBehind, Contiguous, Scans, Edge
<1>9. CASE \E r \in reading : ReadPage(r)
  BY <1>9, ReadPageKeepsPages
<1>10. QED
  BY <1>1, <1>2, <1>3, <1>4, <1>5, <1>6, <1>7, <1>8, <1>9 DEF PagesNext

\* Paging loses nothing: from the cursor up to the newest item that was projected
\* the window has shown every item, whatever sizes windows and pages have, as
\* long as a page fits between two projections.
THEOREM PagesReachAll == PagesSpec => []PagesReachEverything
<1>1. PagesInv => PagesReachEverything
  BY DEF PagesInv, PageTypes, Contiguous, PagesReachEverything, Edge
<1>2. QED
  BY <1>1, InitPages, NextPages, PTL DEF PagesSpec

\* What the hooks keep stays in shape: a cursor comes with an older page, and a
\* click scans within its bounds and never past the cursor it began at.
THEOREM PagesStayInShape == PagesSpec => []PagesOK
<1>1. PagesInv => PagesOK
  BY PageBounds DEF PagesInv, PageTypes, Scans, PagesOK
<1>2. QED
  BY <1>1, InitPages, NextPages, PTL DEF PagesSpec

-----------------------------------------------------------------------------
(* Markets of polls. *)

OneOf(S) == \A r, s \in S : r = s

Stages == {"idle", "posting", "minting", "confirming", "keeping", "binding", "done"}
Creations == [at : Stages, poll : PollIds \cup {Null}, ref : MarketIds \cup {Null}]

SlipTypes ==
  /\ flow \in {"web", "phone"} /\ shown \in BOOLEAN /\ raced \in BOOLEAN
  /\ posted \subseteq PollIds /\ (flow = "web" => OneOf(posted))
  /\ bound \in [PollIds -> MarketIds \cup {Null}]
  /\ chain \in [MarketIds -> {"new", "sent", "confirmed"}]
  /\ retained \subseteq Markers /\ OneOf(retained)
  /\ mounted \subseteq Views /\ OneOf(mounted)
  /\ pending \in [Views -> SUBSET Markers] /\ \A v \in Views : OneOf(pending[v])
  /\ creation \in [Views -> Creations]
  /\ recorded \subseteq Markers

\* What a creation does is about a poll of the room, and it writes down and
\* attaches markets that are confirmed.
CreationsProven ==
  \A v \in Views :
    /\ creation[v].at = "posting" => flow = "phone"
    /\ creation[v].at \in BeforeRecord \cup {"binding"} => creation[v].poll \in posted
    /\ creation[v].at \in {"confirming", "keeping", "binding"} => creation[v].ref \in MarketIds
    /\ creation[v].at = "keeping" => chain[creation[v].ref] = "confirmed"
    /\ creation[v].at = "binding" => Marker(creation[v].poll, creation[v].ref) \in recorded

\* What was confirmed, recorded and attached, whatever races there were.
Proven(r) == r.poll \in posted /\ (r.ref # Null => r \in recorded)
Provenance ==
  /\ \A c \in recorded : c.poll \in posted /\ c.ref \in MarketIds /\ chain[c.ref] = "confirmed"
  /\ \A o \in PollIds : bound[o] # Null => Marker(o, bound[o]) \in recorded
  /\ \A r \in retained : Proven(r)
  /\ \A v \in Views : \A r \in pending[v] : Proven(r)
  /\ flow = "web" => \A r \in retained : r.ref # Null
  /\ CreationsProven

\* Unless creations raced, only one runs, and it knows what the record says.
Unmarketed(o) == bound[o] = Null /\ \A r \in retained : r.ref = Null /\ r.poll = o
Informed(v) ==
  LET c == creation[v] IN
  /\ c.at = "posting" => retained = {}
  /\ c.at \in BeforeRecord => Unmarketed(c.poll)
  /\ c.at = "binding" => retained = {Marker(c.poll, c.ref)}
Unraced ==
  ~raced =>
    /\ \A v, w \in Views : Running(v) /\ Running(w) => v = w
    /\ \A v \in Views : Informed(v)
    /\ \A r \in retained : r.ref = Null => bound[r.poll] = Null

\* MarketsAreKept but for what follows from Unraced.
RecordsAreKept ==
  /\ flow = "web" \/ ~raced => \A c \in recorded : Kept(c)
  /\ ~raced => \A c, d \in recorded : c.poll = d.poll => c = d

SlipInv == SlipTypes /\ Provenance /\ Unraced /\ RecordsAreKept

LEMMA InitSlip == SlipInit => SlipInv
<1> SUFFICES ASSUME SlipInit PROVE SlipInv
  OBVIOUS
<1>1. /\ flow \in {"web", "phone"} /\ posted \subseteq PollIds /\ (flow = "web" => OneOf(posted))
      /\ bound = [o \in PollIds |-> Null] /\ chain = [m \in MarketIds |-> "new"]
      /\ retained = {} /\ shown = FALSE /\ mounted = {} /\ pending = [v \in Views |-> {}]
      /\ creation = [v \in Views |-> NoCreation] /\ recorded = {} /\ raced = FALSE
  BY DEF SlipInit, OneOf
<1>2. NoCreation \in Creations /\ NoCreation.at = "idle"
  BY DEF NoCreation, Doing, Creations, Stages
<1>3. SlipTypes
  BY <1>1, <1>2 DEF SlipTypes, OneOf
<1>4. Provenance
  BY <1>1, <1>2 DEF Provenance, CreationsProven, BeforeRecord
<1>5. Unraced
  BY <1>1, <1>2 DEF Unraced, Informed, BeforeRecord, Running
<1>6. RecordsAreKept
  BY <1>1 DEF RecordsAreKept
<1>7. QED
  BY <1>3, <1>4, <1>5, <1>6 DEF SlipInv

LEMMA SlipFacts ==
  ASSUME SlipInv
  PROVE  /\ NoCreation \in Creations /\ NoCreation.at = "idle"
         /\ \A v \in Views : /\ creation[v] \in Creations /\ creation[v].at \in Stages
                             /\ Running(v) <=> creation[v].at \in Stages \ {"idle", "done"}
         /\ \A c \in Markers : c.poll \in PollIds /\ c.ref \in MarketIds \cup {Null}
                               /\ c = Marker(c.poll, c.ref)
         /\ Null \notin PollIds /\ Null \notin MarketIds
BY NullAssumption DEF SlipInv, SlipTypes, NoCreation, Doing, Creations, Stages, Running, Markers, Marker

\* What a view shows or stops showing decides nothing about markets.
LEMMA ViewsKeepSlip == SlipInv /\ (\/ Show \/ \E v \in Views : Mount(v) \/ Unmount(v)) => SlipInv'
<1>1. ASSUME SlipInv, Show PROVE SlipInv'
  BY <1>1 DEF Show, SlipInv, SlipTypes, Provenance, CreationsProven, BeforeRecord, Proven, Unraced,
              Informed, Unmarketed, Running, RecordsAreKept, Kept
<1>2. ASSUME SlipInv, NEW v \in Views, Mount(v) PROVE SlipInv'
  <2>1. /\ mounted' = {v}
        /\ pending' = [pending EXCEPT ![v] = IF flow = "phone" THEN retained ELSE {}]
        /\ UNCHANGED <<flow, posted, bound, chain, retained, shown, creation, recorded, raced>>
    BY <1>2 DEF Mount
  <2>2. SlipTypes'
    BY <1>2, <2>1 DEF SlipInv, SlipTypes, OneOf
  <2>3. Provenance'
    BY <1>2, <2>1 DEF SlipInv, SlipTypes, Provenance, CreationsProven, BeforeRecord, Proven
  <2>4. Unraced' /\ RecordsAreKept'
    BY <1>2, <2>1 DEF SlipInv, Unraced, Informed, BeforeRecord, Unmarketed, Running, RecordsAreKept, Kept
  <2>5. QED
    BY <2>2, <2>3, <2>4 DEF SlipInv
<1>3. ASSUME SlipInv, NEW v \in Views, Unmount(v) PROVE SlipInv'
  <2>1. /\ mounted' = {} /\ pending' = [pending EXCEPT ![v] = {}]
        /\ creation' = [creation EXCEPT ![v] = IF Running(v) THEN @ ELSE NoCreation]
        /\ UNCHANGED <<flow, posted, bound, chain, retained, shown, recorded, raced>>
    BY <1>3 DEF Unmount
  <2>2. /\ creation' \in [Views -> Creations]
        /\ \A w \in Views : creation'[w] = creation[w] \/ creation'[w] = NoCreation
    BY <1>3, <2>1, SlipFacts DEF SlipInv, SlipTypes
  <2>3. SlipTypes'
    BY <1>3, <2>1, <2>2 DEF SlipInv, SlipTypes, OneOf
  <2>4. Provenance'
    BY <1>3, <2>1, <2>2, SlipFacts DEF SlipInv, SlipTypes, Provenance, CreationsProven, BeforeRecord, Proven
  <2>5. Unraced' /\ RecordsAreKept'
    BY <1>3, <2>1, <2>2, SlipFacts DEF SlipInv, Unraced, Informed, BeforeRecord, Unmarketed, Running,
               RecordsAreKept, Kept
  <2>6. QED
    BY <2>3, <2>4, <2>5 DEF SlipInv
<1>4. QED
  BY <1>1, <1>2, <1>3

\* A restart, a failure: creations end and leave everything as it is.
LEMMA EndsKeepSlip ==
  ASSUME SlipInv, creation' \in [Views -> Creations],
         \A w \in Views : creation'[w] = creation[w] \/ creation'[w] = NoCreation,
         mounted' \subseteq mounted, shown' \in BOOLEAN,
         pending' \in [Views -> SUBSET Markers], \A w \in Views : pending'[w] \subseteq pending[w],
         UNCHANGED <<flow, posted, bound, chain, retained, recorded, raced>>
  PROVE  SlipInv'
<1>1. SlipTypes'
  BY DEF SlipInv, SlipTypes, OneOf
<1>2. Provenance'
  BY SlipFacts DEF SlipInv, SlipTypes, Provenance, CreationsProven, BeforeRecord, Proven
<1>3. Unraced' /\ RecordsAreKept'
  BY SlipFacts DEF SlipInv, Unraced, Informed, BeforeRecord, Unmarketed, Running, RecordsAreKept, Kept
<1>4. QED
  BY <1>1, <1>2, <1>3 DEF SlipInv

LEMMA RestartKeepsSlip == SlipInv /\ Restart => SlipInv'
<1> SUFFICES ASSUME SlipInv, Restart PROVE SlipInv'
  OBVIOUS
<1>1. /\ mounted' = {} /\ shown' = FALSE /\ pending' = [v \in Views |-> {}]
      /\ creation' = [v \in Views |-> NoCreation]
      /\ UNCHANGED <<flow, posted, bound, chain, retained, recorded, raced>>
  BY DEF Restart
<1>2. creation' \in [Views -> Creations]
  BY <1>1, SlipFacts
<1>3. QED
  BY <1>1, <1>2, EndsKeepSlip

LEMMA FailKeepsSlip == ASSUME SlipInv, NEW v \in Views, Fail(v) PROVE SlipInv'
<1>1. /\ creation' = [creation EXCEPT ![v] = NoCreation]
      /\ UNCHANGED <<flow, posted, bound, chain, retained, shown, mounted, pending, recorded, raced>>
  BY DEF Fail, Goes
<1>2. /\ creation' \in [Views -> Creations]
      /\ \A w \in Views : creation'[w] = creation[w] \/ creation'[w] = NoCreation
  BY <1>1, SlipFacts DEF SlipInv, SlipTypes
<1>3. shown \in BOOLEAN /\ pending \in [Views -> SUBSET Markers]
  BY DEF SlipInv, SlipTypes
<1>4. QED
  BY <1>1, <1>2, <1>3, EndsKeepSlip

\* A creation begins with a step that what it knows justifies.
LEMMA BeginKeepsSlip ==
  ASSUME SlipInv, NEW v \in Views, NEW step \in Creations, NEW outdated \in BOOLEAN,
         ~Running(v), Begin(v, step, outdated),
         step.at \in {"posting", "minting", "binding"},
         step.at = "posting" => flow = "phone",
         step.at \in {"minting", "binding"} => step.poll \in posted,
         step.at = "binding" =>
           step.ref \in MarketIds /\ Marker(step.poll, step.ref) \in recorded,
         ~raced /\ ~outdated =>
           /\ step.at = "posting" => retained = {}
           /\ step.at = "minting" => Unmarketed(step.poll)
           /\ step.at = "binding" => retained = {Marker(step.poll, step.ref)}
  PROVE  SlipInv'
<1>1. /\ creation' = [creation EXCEPT ![v] = step]
      /\ raced' = (raced \/ outdated \/ \E w \in Views : Running(w))
      /\ UNCHANGED <<flow, posted, bound, chain, retained, shown, mounted, pending, recorded>>
  BY DEF Begin
<1>2. /\ creation \in [Views -> Creations] /\ creation'[v] = step
      /\ \A w \in Views \ {v} : creation'[w] = creation[w]
  BY <1>1 DEF SlipInv, SlipTypes
<1>3. SlipTypes'
  BY <1>1 DEF SlipInv, SlipTypes
<1>4. Provenance'
  <2>1. CreationsProven'
    BY <1>1, <1>2 DEF SlipInv, Provenance, CreationsProven, BeforeRecord
  <2>2. QED
    BY <1>1, <2>1 DEF SlipInv, Provenance, CreationsProven, BeforeRecord, Proven
<1>5. Unraced'
  <2>1. SUFFICES ASSUME ~raced' PROVE Unraced'
    BY DEF Unraced
  <2>2. ~raced /\ ~outdated /\ \A w \in Views : ~Running(w)
    BY <1>1, <2>1
  <2>3. \A w \in Views \ {v} : creation[w].at \in {"idle", "done"}
    BY <2>2 DEF Running
  <2>4. \A w \in Views : Informed(w)'
    BY <1>1, <1>2, <2>2, <2>3 DEF Informed, BeforeRecord, Unmarketed
  <2>5. \A w \in Views \ {v} : ~Running(w)'
    BY <1>2, <2>3 DEF Running
  <2>6. \A r \in retained : r.ref = Null => bound[r.poll] = Null
    BY <2>2 DEF SlipInv, Unraced
  <2>7. QED
    BY <1>1, <2>4, <2>5, <2>6 DEF Unraced
<1>6. RecordsAreKept'
  BY <1>1 DEF SlipInv, RecordsAreKept, Kept
<1>7. QED
  BY <1>3, <1>4, <1>5, <1>6 DEF SlipInv

\* A creation about poll o starts from a record it read.
LEMMA FirstStepFollows ==
  ASSUME SlipInv, NEW o \in posted, NEW known \in SUBSET Markers, OneOf(known),
         \A r \in known : Proven(r) /\ (r.ref # Null => r.poll = o)
  PROVE  LET step == FirstStep(o, known) IN
         /\ step \in Creations /\ step.poll = o
         /\ \/ step.at = "minting" /\ \A r \in known : r.ref = Null
            \/ /\ step.at = "binding" /\ step.ref \in MarketIds /\ known = {Marker(o, step.ref)}
               /\ Marker(o, step.ref) \in recorded
<1>1. o \in PollIds
  BY DEF SlipInv, SlipTypes
<1>2. CASE \E r \in known : r.ref # Null
  <2>1. PICK r \in known : r.ref # Null
    BY <1>2
  <2>2. (CHOOSE x \in known : TRUE) = r /\ known = {r}
    BY <2>1 DEF OneOf
  <2>3. r = Marker(o, r.ref) /\ r.ref \in MarketIds /\ r \in recorded
    BY <2>1, SlipFacts DEF Proven
  <2>4. FirstStep(o, known) = Doing("binding", o, r.ref)
    BY <1>2, <2>2 DEF FirstStep
  <2>5. QED
    BY <1>1, <2>2, <2>3, <2>4 DEF Doing, Creations, Stages
<1>3. CASE ~\E r \in known : r.ref # Null
  BY <1>1, <1>3 DEF FirstStep, Doing, Creations, Stages
<1>4. QED
  BY <1>2, <1>3

LEMMA StartKeepsSlip == ASSUME SlipInv, NEW v \in Views, StartByItself(v) PROVE SlipInv'
<1>1. PICK o \in posted : Begin(v, FirstStep(o, retained), bound[o] # Null /\ retained = {})
  BY DEF StartByItself
<1>2. flow = "web" /\ creation[v] = NoCreation /\ ~Running(v)
  BY SlipFacts DEF StartByItself
<1>3. /\ retained \in SUBSET Markers /\ OneOf(retained)
      /\ \A r \in retained : Proven(r) /\ r.ref # Null /\ r.poll = o
  BY <1>2 DEF SlipInv, SlipTypes, Provenance, CreationsProven, BeforeRecord, Proven, OneOf
<1> DEFINE step == FirstStep(o, retained)
<1>4. /\ step \in Creations /\ step.poll = o
      /\ \/ step.at = "minting" /\ \A r \in retained : r.ref = Null
         \/ /\ step.at = "binding" /\ step.ref \in MarketIds /\ retained = {Marker(o, step.ref)}
            /\ Marker(o, step.ref) \in recorded
  BY <1>3, FirstStepFollows
<1> HIDE DEF step
<1>5. Begin(v, step, bound[o] # Null /\ retained = {})
  BY <1>1 DEF step
<1>6. step.at = "minting" /\ ~(bound[o] # Null /\ retained = {}) => Unmarketed(o)
  BY <1>3, <1>4 DEF Unmarketed
<1>7. QED
  BY <1>2, <1>4, <1>5, <1>6, BeginKeepsSlip

LEMMA PressKeepsSlip == ASSUME SlipInv, NEW v \in Views, Press(v) PROVE SlipInv'
<1>1. flow = "phone" /\ creation[v] = NoCreation /\ ~Running(v)
  BY SlipFacts DEF Press
<1>2. pending[v] \in SUBSET Markers /\ OneOf(pending[v]) /\ \A r \in pending[v] : Proven(r)
  BY DEF SlipInv, SlipTypes, Provenance, CreationsProven, BeforeRecord
<1>3. CASE pending[v] = {} /\ Begin(v, Doing("posting", Null, Null), retained # {})
  <2>1. Doing("posting", Null, Null) \in Creations /\ Doing("posting", Null, Null).at = "posting"
    BY DEF Doing, Creations, Stages
  <2>2. QED
    BY <1>1, <1>3, <2>1, BeginKeepsSlip
<1>4. CASE \E r \in pending[v] : Begin(v, FirstStep(r.poll, {r}), pending[v] # retained)
  <2>1. PICK r \in pending[v] : Begin(v, FirstStep(r.poll, {r}), pending[v] # retained)
    BY <1>4
  <2>2. pending[v] = {r} /\ Proven(r) /\ r \in Markers /\ r.poll \in posted
    BY <1>2 DEF OneOf, Proven
  <2> DEFINE step == FirstStep(r.poll, {r})
  <2>3. /\ step \in Creations /\ step.poll = r.poll
        /\ \/ step.at = "minting" /\ \A x \in {r} : x.ref = Null
           \/ /\ step.at = "binding" /\ step.ref \in MarketIds /\ {r} = {Marker(r.poll, step.ref)}
              /\ Marker(r.poll, step.ref) \in recorded
    BY <2>2, FirstStepFollows DEF OneOf
  <2> HIDE DEF step
  <2>4. Begin(v, step, pending[v] # retained)
    BY <2>1 DEF step
  <2>5. ~raced /\ pending[v] = retained /\ step.at = "minting" => Unmarketed(r.poll)
    BY <2>2, <2>3 DEF SlipInv, Unraced, Unmarketed
  <2>6. QED
    BY <1>1, <2>2, <2>3, <2>4, <2>5, BeginKeepsSlip
<1>5. QED
  BY <1>3, <1>4 DEF Press

\* A step of a creation that runs: the record it stores reaches its own view only.
LEMMA RetainFollows ==
  ASSUME SlipInv, NEW v \in Views, NEW records \in SUBSET Markers, OneOf(records),
         Retain(v, records)
  PROVE  /\ retained' = records
         /\ pending' \in [Views -> SUBSET Markers] /\ \A w \in Views : OneOf(pending'[w])
         /\ \A w \in Views : pending'[w] = pending[w] \/ pending'[w] = records
BY DEF SlipInv, SlipTypes, Retain

\* Without races the other creations are not running, before a step and after it.
LEMMA OthersRest ==
  ASSUME SlipInv, ~raced, ~raced', NEW v \in Views, Running(v), NEW step \in Creations,
         creation' = [creation EXCEPT ![v] = step],
         Informed(v)', \A r \in retained' : r.ref = Null => bound'[r.poll] = Null
  PROVE  Unraced'
<1>1. \A w \in Views \ {v} : creation'[w] = creation[w] /\ creation[w].at \in {"idle", "done"}
  BY DEF SlipInv, SlipTypes, Unraced, Running
<1>2. \A w \in Views : Informed(w)'
  BY <1>1 DEF Informed, BeforeRecord
<1>3. \A w \in Views : Running(w)' => w = v
  BY <1>1 DEF Running
<1>4. QED
  BY <1>2, <1>3 DEF Unraced

\* Provenance of the creations after a step of one of them.
LEMMA StepIsProven ==
  ASSUME SlipInv, NEW v \in Views, NEW step \in Creations,
         creation' = [creation EXCEPT ![v] = step],
         flow' = flow, posted \subseteq posted', recorded \subseteq recorded',
         step.at # "posting",
         \A m \in MarketIds : chain[m] = "confirmed" => chain'[m] = "confirmed",
         step.at \in BeforeRecord \cup {"binding"} => step.poll \in posted',
         step.at \in {"confirming", "keeping", "binding"} => step.ref \in MarketIds,
         step.at = "keeping" => chain'[step.ref] = "confirmed",
         step.at = "binding" => Marker(step.poll, step.ref) \in recorded'
  PROVE  /\ creation' \in [Views -> Creations]
         /\ CreationsProven'
<1>1. creation' \in [Views -> Creations] /\ creation'[v] = step
  BY DEF SlipInv, SlipTypes
<1>2. \A w \in Views \ {v} : creation'[w] = creation[w]
  BY DEF SlipInv, SlipTypes
<1>3. QED
  BY <1>1, <1>2 DEF SlipInv, Provenance, CreationsProven, BeforeRecord

LEMMA PostKeepsSlip == ASSUME SlipInv, NEW v \in Views, PostPoll(v) PROVE SlipInv'
<1>1. PICK o \in PollIds \ posted :
        /\ posted' = posted \cup {o}
        /\ \/ Retain(v, {Marker(o, Null)}) /\ Goes(v, Doing("minting", o, Null))
           \/ Goes(v, NoCreation) /\ UNCHANGED <<retained, pending>>
  BY DEF PostPoll
<1>2. /\ creation[v].at = "posting" /\ flow = "phone" /\ Running(v)
      /\ UNCHANGED <<flow, bound, chain, shown, mounted, recorded, raced>>
  BY DEF PostPoll, SlipInv, Provenance, CreationsProven, BeforeRecord, Running
<1>3. /\ Marker(o, Null) \in Markers /\ Marker(o, Null).poll = o /\ Marker(o, Null).ref = Null
      /\ Doing("minting", o, Null) \in Creations
      /\ Doing("minting", o, Null).at = "minting" /\ Doing("minting", o, Null).poll = o
  BY DEF Marker, Markers, Doing, Creations, Stages
<1>4. bound[o] = Null
  <2>1. bound[o] # Null => Marker(o, bound[o]).poll \in posted
    BY DEF SlipInv, Provenance, CreationsProven, BeforeRecord
  <2>2. QED
    BY <2>1 DEF Marker
<1>5. CASE Retain(v, {Marker(o, Null)}) /\ Goes(v, Doing("minting", o, Null))
  <2>1. /\ retained' = {Marker(o, Null)} /\ creation' = [creation EXCEPT ![v] = Doing("minting", o, Null)]
        /\ pending' \in [Views -> SUBSET Markers] /\ \A w \in Views : OneOf(pending'[w])
        /\ \A w \in Views : pending'[w] = pending[w] \/ pending'[w] = {Marker(o, Null)}
    <3>1. OneOf({Marker(o, Null)})
      BY DEF OneOf
    <3>2. QED
      BY <1>3, <1>5, <3>1, RetainFollows DEF Goes
  <2>2. /\ creation' \in [Views -> Creations]
        /\ CreationsProven'
    BY <1>1, <1>2, <1>3, <2>1, StepIsProven
  <2>3. SlipTypes'
    BY <1>1, <1>2, <1>3, <2>1, <2>2 DEF SlipInv, SlipTypes, OneOf
  <2>4. Provenance'
    BY <1>1, <1>2, <1>3, <2>1, <2>2 DEF SlipInv, Provenance, CreationsProven, BeforeRecord, Proven
  <2>5. Unraced'
    <3>1. CASE raced
      BY <1>2, <3>1 DEF Unraced
    <3>2. CASE ~raced
      <4>1. creation'[v] = Doing("minting", o, Null)
        BY <2>1 DEF SlipInv, SlipTypes
      <4>2. Informed(v)'
        BY <1>2, <1>3, <1>4, <2>1, <4>1 DEF Informed, BeforeRecord, Unmarketed
      <4>3. \A r \in retained' : r.ref = Null => bound'[r.poll] = Null
        BY <1>2, <1>3, <1>4, <2>1
      <4>4. QED
        BY <1>2, <1>3, <2>1, <3>2, <4>2, <4>3, OthersRest
    <3>3. QED
      BY <3>1, <3>2
  <2>6. RecordsAreKept'
    <3>1. ~raced => \A c \in recorded : bound[c.poll] # Null
      BY <1>2 DEF SlipInv, Unraced, Informed, BeforeRecord, RecordsAreKept, Kept
    <3>2. QED
      BY <1>2, <3>1 DEF SlipInv, RecordsAreKept, Kept
  <2>7. QED
    BY <2>3, <2>4, <2>5, <2>6 DEF SlipInv
<1>6. CASE Goes(v, NoCreation) /\ UNCHANGED <<retained, pending>>
  <2>1. creation' = [creation EXCEPT ![v] = NoCreation]
    BY <1>6 DEF Goes
  <2>2. /\ creation' \in [Views -> Creations]
        /\ \A w \in Views : creation'[w] = creation[w] \/ creation'[w] = NoCreation
    BY <2>1, SlipFacts DEF SlipInv, SlipTypes
  <2>3. SlipTypes'
    BY <1>1, <1>2, <1>6, <2>2 DEF SlipInv, SlipTypes
  <2>4. Provenance'
    BY <1>1, <1>2, <1>6, <2>2, SlipFacts DEF SlipInv, Provenance, CreationsProven, BeforeRecord, Proven
  <2>5. Unraced' /\ RecordsAreKept'
    BY <1>2, <1>6, <2>2, SlipFacts DEF SlipInv, Unraced, Informed, BeforeRecord, Unmarketed, Running,
               RecordsAreKept, Kept
  <2>6. QED
    BY <2>3, <2>4, <2>5 DEF SlipInv
<1>7. QED
  BY <1>1, <1>5, <1>6

LEMMA MintKeepsSlip == ASSUME SlipInv, NEW v \in Views, Mint(v) PROVE SlipInv'
<1>1. PICK m \in MarketIds :
        /\ chain[m] = "new" /\ chain' = [chain EXCEPT ![m] = "sent"]
        /\ Goes(v, Doing("confirming", creation[v].poll, m))
  BY DEF Mint
<1>2. /\ creation[v].at = "minting" /\ Running(v) /\ creation[v].poll \in posted
      /\ UNCHANGED <<flow, posted, bound, retained, shown, mounted, pending, recorded, raced>>
  BY DEF Mint, SlipInv, Provenance, CreationsProven, BeforeRecord, Running
<1> DEFINE o == creation[v].poll  step == Doing("confirming", o, m)
<1>3. step \in Creations /\ step.at = "confirming" /\ step.poll = o /\ step.ref = m
  BY <1>2 DEF Doing, Creations, Stages, SlipInv, SlipTypes
<1>4. creation' = [creation EXCEPT ![v] = step]
  BY <1>1 DEF Goes
<1> HIDE DEF step, o
<1>5. /\ creation' \in [Views -> Creations]
      /\ CreationsProven'
  <2>1. \A x \in MarketIds : chain[x] = "confirmed" => chain'[x] = "confirmed"
    BY <1>1 DEF SlipInv, SlipTypes
  <2>2. QED
    BY <1>2, <1>3, <1>4, <2>1, StepIsProven DEF o
<1>6. SlipTypes'
  BY <1>1, <1>2, <1>5 DEF SlipInv, SlipTypes
<1>7. Provenance'
  BY <1>1, <1>2, <1>5 DEF SlipInv, SlipTypes, Provenance, CreationsProven, BeforeRecord, Proven
<1>8. Unraced'
  <2>1. CASE raced
    BY <1>2, <2>1 DEF Unraced
  <2>2. CASE ~raced
    <3>1. creation'[v] = step
      BY <1>4 DEF SlipInv, SlipTypes
    <3>2. Unmarketed(o) /\ \A r \in retained : r.ref = Null => bound[r.poll] = Null
      BY <1>2, <2>2 DEF SlipInv, Unraced, Informed, BeforeRecord, o
    <3>3. Informed(v)'
      BY <1>2, <1>3, <3>1, <3>2 DEF Informed, BeforeRecord, Unmarketed
    <3>4. QED
      BY <1>2, <1>3, <1>4, <2>2, <3>2, <3>3, OthersRest
  <2>3. QED
    BY <2>1, <2>2
<1>9. RecordsAreKept'
  BY <1>2 DEF SlipInv, RecordsAreKept, Kept
<1>10. QED
  BY <1>6, <1>7, <1>8, <1>9 DEF SlipInv

LEMMA LandKeepsSlip == ASSUME SlipInv, NEW m \in MarketIds, Land(m) PROVE SlipInv'
<1>1. /\ chain' = [chain EXCEPT ![m] = "confirmed"]
      /\ UNCHANGED <<flow, posted, bound, retained, shown, mounted, pending, creation, recorded, raced>>
  BY DEF Land
<1>2. SlipTypes' /\ Provenance'
  BY <1>1 DEF SlipInv, SlipTypes, Provenance, CreationsProven, BeforeRecord, Proven
<1>3. Unraced' /\ RecordsAreKept'
  BY <1>1 DEF SlipInv, Unraced, Informed, BeforeRecord, Unmarketed, Running, RecordsAreKept, Kept
<1>4. QED
  BY <1>2, <1>3 DEF SlipInv

LEMMA SeeKeepsSlip == ASSUME SlipInv, NEW v \in Views, SeeConfirmed(v) PROVE SlipInv'
<1> DEFINE o == creation[v].poll  m == creation[v].ref  step == Doing("keeping", o, m)
<1>1. /\ creation[v].at = "confirming" /\ chain[m] = "confirmed" /\ creation' = [creation EXCEPT ![v] = step]
      /\ UNCHANGED <<flow, posted, bound, chain, retained, shown, mounted, pending, recorded, raced>>
  BY DEF SeeConfirmed, StatusConfirmed, Goes
<1>2. Running(v) /\ o \in posted /\ o \in PollIds /\ m \in MarketIds
  BY <1>1 DEF SlipInv, SlipTypes, Provenance, CreationsProven, BeforeRecord, Running
<1>3. step \in Creations /\ step.at = "keeping" /\ step.poll = o /\ step.ref = m
  BY <1>2 DEF Doing, Creations, Stages
<1>4. ~raced => Unmarketed(o) /\ \A r \in retained : r.ref = Null => bound[r.poll] = Null
  BY <1>1 DEF SlipInv, Unraced, Informed, BeforeRecord
<1> HIDE DEF step, o, m
<1>5. creation' \in [Views -> Creations] /\ CreationsProven'
  BY <1>1, <1>2, <1>3, StepIsProven
<1>6. SlipTypes'
  BY <1>1, <1>5 DEF SlipInv, SlipTypes
<1>7. Provenance'
  BY <1>1, <1>5 DEF SlipInv, Provenance, Proven
<1>8. Unraced'
  <2>1. CASE raced
    BY <1>1, <2>1 DEF Unraced
  <2>2. CASE ~raced
    <3>1. creation'[v] = step
      BY <1>1 DEF SlipInv, SlipTypes
    <3>2. Informed(v)'
      BY <1>1, <1>3, <1>4, <2>2, <3>1 DEF Informed, BeforeRecord, Unmarketed
    <3>3. QED
      BY <1>1, <1>2, <1>3, <1>4, <2>2, <3>2, OthersRest
  <2>3. QED
    BY <2>1, <2>2
<1>9. RecordsAreKept'
  BY <1>1 DEF SlipInv, RecordsAreKept, Kept
<1>10. QED
  BY <1>6, <1>7, <1>8, <1>9 DEF SlipInv

LEMMA RecordKeepsSlip == ASSUME SlipInv, NEW v \in Views, KeepReference(v) PROVE SlipInv'
<1> DEFINE o == creation[v].poll  m == creation[v].ref  r == Marker(o, m)
           step == Doing("binding", o, m)
<1>1. /\ creation[v].at = "keeping"
      /\ Retain(v, {r}) /\ creation' = [creation EXCEPT ![v] = step]
      /\ recorded' = recorded \cup {r}
      /\ UNCHANGED <<flow, posted, bound, chain, shown, mounted, raced>>
  BY DEF KeepReference, Goes
<1>2. /\ Running(v) /\ o \in posted /\ o \in PollIds /\ m \in MarketIds /\ m # Null
      /\ chain[m] = "confirmed"
  BY <1>1, NullAssumption DEF SlipInv, SlipTypes, Provenance, CreationsProven, BeforeRecord, Running
<1>3. /\ step \in Creations /\ step.at = "binding" /\ step.poll = o /\ step.ref = m
      /\ r \in Markers /\ r.poll = o /\ r.ref = m
  BY <1>2 DEF Doing, Creations, Stages, Marker, Markers
<1>4. /\ retained' = {r} /\ pending' \in [Views -> SUBSET Markers]
      /\ \A w \in Views : OneOf(pending'[w])
      /\ \A w \in Views : pending'[w] = pending[w] \/ pending'[w] = {r}
  <2>1. OneOf({r}) /\ {r} \in SUBSET Markers
    BY <1>3 DEF OneOf
  <2>2. QED
    BY <1>1, <2>1, RetainFollows
<1>5. Marker(step.poll, step.ref) \in recorded'
  BY <1>1, <1>3
<1>6. ~raced => Unmarketed(o)
  BY <1>1 DEF SlipInv, Unraced, Informed, BeforeRecord
<1> HIDE DEF step, r, o, m
<1>7. /\ creation' \in [Views -> Creations]
      /\ CreationsProven'
  BY <1>1, <1>2, <1>3, <1>5, StepIsProven
<1>8. SlipTypes'
  BY <1>1, <1>3, <1>4, <1>7 DEF SlipInv, SlipTypes, OneOf
<1>9. Provenance'
  BY <1>1, <1>2, <1>3, <1>4, <1>7 DEF SlipInv, Provenance, CreationsProven, BeforeRecord, Proven
<1>10. Unraced'
  <2>1. CASE raced
    BY <1>1, <2>1 DEF Unraced
  <2>2. CASE ~raced
    <3>1. creation'[v] = step
      BY <1>1 DEF SlipInv, SlipTypes
    <3>2. Informed(v)'
      BY <1>3, <1>4, <3>1 DEF Informed, BeforeRecord, r
    <3>3. \A x \in retained' : x.ref = Null => bound'[x.poll] = Null
      BY <1>2, <1>3, <1>4
    <3>4. QED
      BY <1>1, <1>2, <1>3, <2>2, <3>2, <3>3, OthersRest
  <2>3. QED
    BY <2>1, <2>2
<1>11. RecordsAreKept'
  <2>1. ASSUME flow = "web" \/ ~raced, NEW c \in recorded' PROVE Kept(c)'
    <3>1. CASE c.poll = o
      BY <1>2, <1>3, <1>4, <3>1 DEF Kept
    <3>2. CASE c.poll # o /\ flow = "web"
      <4>1. c \in recorded
        BY <1>1, <1>3, <3>2
      <4>2. c.poll \in posted /\ OneOf(posted)
        BY <3>2, <4>1 DEF SlipInv, SlipTypes, Provenance, CreationsProven, BeforeRecord
      <4>3. QED
        BY <1>2, <3>2, <4>2 DEF OneOf
    <3>3. CASE c.poll # o /\ ~raced
      <4>1. c \in recorded
        BY <1>1, <1>3, <3>3
      <4>2. Kept(c)
        BY <3>3, <4>1 DEF SlipInv, RecordsAreKept
      <4>3. QED
        BY <1>1, <1>6, <3>3, <4>2 DEF Kept, Unmarketed
    <3>4. QED
      BY <2>1, <3>1, <3>2, <3>3
  <2>2. ASSUME ~raced, NEW c \in recorded', NEW d \in recorded', c.poll = d.poll PROVE c = d
    <3>1. \A x \in recorded : x.poll # o
      BY <1>6, <2>2 DEF SlipInv, RecordsAreKept, Kept, Unmarketed
    <3>2. \A x, y \in recorded : x.poll = y.poll => x = y
      BY <2>2 DEF SlipInv, RecordsAreKept
    <3>3. QED
      BY <1>1, <1>3, <2>2, <3>1, <3>2
  <2>3. QED
    BY <1>1, <2>1, <2>2 DEF RecordsAreKept
<1>12. QED
  BY <1>8, <1>9, <1>10, <1>11 DEF SlipInv

LEMMA AttachKeepsSlip == ASSUME SlipInv, NEW v \in Views, Attach(v) PROVE SlipInv'
<1> DEFINE o == creation[v].poll  m == creation[v].ref  r == Marker(o, m)
<1>1. /\ creation[v].at = "binding" /\ bound[o] \in {Null, m}
      /\ bound' = [bound EXCEPT ![o] = m]
      /\ UNCHANGED <<flow, posted, chain, shown, mounted, recorded, raced>>
  BY DEF Attach, Accepts
<1>2. PICK step : /\ creation' = [creation EXCEPT ![v] = step]
                  /\ \/ Retain(v, {}) /\ step \in {Doing("done", o, m), NoCreation}
                     \/ step = NoCreation /\ UNCHANGED <<retained, pending>>
  BY DEF Attach, Goes
<1>3. /\ Running(v) /\ o \in posted /\ o \in PollIds /\ m \in MarketIds /\ m # Null
      /\ r \in recorded /\ r.poll = o /\ r.ref = m
  BY <1>1, NullAssumption DEF SlipInv, SlipTypes, Provenance, CreationsProven, BeforeRecord, Running, Marker
<1>4. step \in Creations /\ step.at \in {"idle", "done"}
  BY <1>2, <1>3, SlipFacts DEF Doing, Creations, Stages
<1>5. ~raced => retained = {r}
  BY <1>1 DEF SlipInv, Unraced, Informed, BeforeRecord
<1> HIDE DEF r, o, m
<1>6. /\ retained' = {} \/ retained' = retained
      /\ pending' \in [Views -> SUBSET Markers] /\ \A w \in Views : OneOf(pending'[w])
      /\ \A w \in Views : pending'[w] = pending[w] \/ pending'[w] = {}
  <2>1. CASE Retain(v, {})
    BY <2>1, RetainFollows DEF OneOf
  <2>2. CASE UNCHANGED <<retained, pending>>
    BY <2>2 DEF SlipInv, SlipTypes
  <2>3. QED
    BY <1>2, <2>1, <2>2
<1>7. bound'[o] = m /\ \A p \in PollIds : bound'[p] = bound[p] \/ (p = o /\ bound'[p] = m)
  BY <1>1, <1>3 DEF SlipInv, SlipTypes
<1>8. /\ creation' \in [Views -> Creations]
      /\ CreationsProven'
  BY <1>1, <1>2, <1>4, StepIsProven DEF BeforeRecord
<1>9. SlipTypes'
  <2>1. bound' \in [PollIds -> MarketIds \cup {Null}]
    BY <1>1, <1>3 DEF SlipInv, SlipTypes
  <2>2. QED
    BY <1>1, <1>6, <1>8, <2>1 DEF SlipInv, SlipTypes, OneOf
<1>10. Provenance'
  <2>1. \A p \in PollIds : bound'[p] # Null => Marker(p, bound'[p]) \in recorded'
    BY <1>1, <1>3, <1>7 DEF SlipInv, Provenance, CreationsProven, BeforeRecord, r
  <2>2. QED
    BY <1>1, <1>6, <1>8, <2>1 DEF SlipInv, Provenance, CreationsProven, BeforeRecord, Proven
<1>11. Unraced'
  <2>1. CASE raced
    BY <1>1, <2>1 DEF Unraced
  <2>2. CASE ~raced
    <3>1. creation'[v] = step
      BY <1>2 DEF SlipInv, SlipTypes
    <3>2. Informed(v)'
      BY <1>4, <3>1 DEF Informed, BeforeRecord
    <3>3. \A x \in retained' : x.ref = Null => bound'[x.poll] = Null
      BY <1>3, <1>5, <1>6, <2>2
    <3>4. QED
      BY <1>1, <1>2, <1>3, <1>4, <2>2, <3>2, <3>3, OthersRest
  <2>3. QED
    BY <2>1, <2>2
<1>12. RecordsAreKept'
  <2>1. ASSUME flow = "web" \/ ~raced, NEW c \in recorded PROVE Kept(c)'
    <3>1. c.poll \in PollIds /\ c.poll \in posted
      BY DEF SlipInv, SlipTypes, Provenance, CreationsProven, BeforeRecord
    <3>2. CASE c.poll = o
      BY <1>3, <1>7, <3>2 DEF Kept
    <3>3. CASE c.poll # o
      <4>1. ~raced
        BY <1>3, <2>1, <3>1, <3>3 DEF SlipInv, SlipTypes, OneOf
      <4>2. Kept(c)
        BY <2>1 DEF SlipInv, RecordsAreKept
      <4>3. bound[c.poll] # Null
        BY <1>3, <1>5, <3>3, <4>1, <4>2 DEF Kept
      <4>4. QED
        BY <1>7, <3>1, <3>3, <4>3 DEF Kept
    <3>4. QED
      BY <3>2, <3>3
  <2>2. QED
    BY <1>1, <2>1 DEF SlipInv, RecordsAreKept
<1>13. QED
  BY <1>9, <1>10, <1>11, <1>12 DEF SlipInv

LEMMA NextSlip == SlipInv /\ [SlipNext]_slipVars => SlipInv'
<1> SUFFICES ASSUME SlipInv, [SlipNext]_slipVars PROVE SlipInv'
  OBVIOUS
<1>1. CASE UNCHANGED slipVars
  <2>1. SlipTypes' /\ Provenance'
    BY <1>1 DEF slipVars, SlipInv, SlipTypes, Provenance, CreationsProven, BeforeRecord, Proven
  <2>2. Unraced' /\ RecordsAreKept'
    BY <1>1 DEF slipVars, SlipInv, Unraced, Informed, BeforeRecord, Unmarketed, Running, RecordsAreKept, Kept
  <2>3. QED
    BY <2>1, <2>2 DEF SlipInv
<1>2. CASE SlipNext
  BY <1>2, ViewsKeepSlip, RestartKeepsSlip, LandKeepsSlip, StartKeepsSlip, PressKeepsSlip,
     PostKeepsSlip, MintKeepsSlip, SeeKeepsSlip, RecordKeepsSlip, AttachKeepsSlip, FailKeepsSlip DEF SlipNext
<1>3. QED
  BY <1>1, <1>2

LEMMA SlipIsSound == SlipSpec => []SlipInv
BY InitSlip, NextSlip, PTL DEF SlipSpec

\* A poll's market is one the chain confirmed and its author's app had on record
\* for it.  Once on record it is neither lost by a failed attachment, a lost
\* answer or a restart nor, unless creations raced, doubled, for any number of
\* views, polls and markets.
THEOREM MarketsStay == SlipSpec => []PollsKeepTheirMarket
<1>1. SlipInv => BoundIsConfirmed
  BY DEF SlipInv, SlipTypes, Provenance, BoundIsConfirmed, Marker
<1>2. SlipInv => MarketsAreKept
  <2>1. SUFFICES ASSUME SlipInv, ~raced, NEW c \in recorded, NEW v \in Views,
                        creation[v].poll = c.poll, creation[v].at \in BeforeRecord
                 PROVE  FALSE
    BY DEF SlipInv, RecordsAreKept, MarketsAreKept
  <2>2. Kept(c)
    BY <2>1 DEF SlipInv, RecordsAreKept
  <2>3. Unmarketed(c.poll)
    BY <2>1 DEF SlipInv, Unraced, Informed
  <2>4. QED
    BY <2>2, <2>3 DEF Kept, Unmarketed
<1>3. QED
  BY <1>1, <1>2, SlipIsSound, PTL DEF PollsKeepTheirMarket

\* At most one view is mounted and one record kept, and a creation that waits for
\* the chain or attaches has a market.
THEOREM SlipStaysInShape == SlipSpec => []SlipOK
<1>1. ASSUME NEW S, OneOf(S) PROVE Cardinality(S) <= 1
  <2>1. CASE S = {}
    BY <2>1, FS_EmptySet
  <2>2. CASE S # {}
    <3>1. PICK x : x \in S
      BY <2>2
    <3>2. S = {x}
      BY <1>1, <3>1 DEF OneOf
    <3>3. QED
      BY <3>2, FS_Singleton
  <2>3. QED
    BY <2>1, <2>2
<1>2. SlipInv => SlipOK
  <2>1. SUFFICES ASSUME SlipInv PROVE SlipOK
    OBVIOUS
  <2>2. /\ Cardinality(retained) <= 1 /\ Cardinality(mounted) <= 1
        /\ \A v \in Views : Cardinality(pending[v]) <= 1
    BY <1>1, <2>1 DEF SlipInv, SlipTypes
  <2>3. \A v \in Views : /\ pending[v] \subseteq Markers /\ creation[v].at \in Stages
                         /\ creation[v].at \in {"confirming", "keeping", "binding"} => creation[v].ref \in MarketIds
    BY <2>1, SlipFacts DEF SlipInv, SlipTypes, Provenance, CreationsProven, BeforeRecord
  <2>4. QED
    BY <2>1, <2>2, <2>3 DEF SlipInv, SlipTypes, SlipOK, Stages
<1>3. QED
  BY <1>2, SlipIsSound, PTL
-----------------------------------------------------------------------------
(* What goes on in a room, together (MCRoomTimeline). *)

\* A member's scores keep their types: verdicts are options or void, and
\* answers are records.
LEMMA ScoresStayInShape == ScoresSpec => []ScoresOK
<1>1. ScoresInit => ScoresOK
  BY DEF ScoresInit, ScoresOK
<1>2. ScoresOK /\ [ScoresNext]_scoresVars => ScoresOK'
  BY DEF ScoresOK, ScoresNext, Settle, Resolve, scoresVars
<1>3. QED
  BY <1>1, <1>2, PTL DEF ScoresSpec

\* Each topic runs as it would by itself.
LEMMA TopicsOfRoom == TopicSpec => TimelineSpec /\ SlipSpec /\ ScoresSpec /\ PagesSpec
<1>1. TopicInit => TimelineInit /\ SlipInit /\ ScoresInit /\ PagesInit
  BY DEF TopicInit
<1> DEFINE topicVars == <<topic, vars, timeline, slipVars, scoresVars, pageVars>>
<1>2. [TopicNext]_topicVars => [TimelineNext]_<<vars, timeline>>
  BY DEF TopicNext
<1>3. [TopicNext]_topicVars => [SlipNext]_slipVars
  BY DEF TopicNext
<1>4. [TopicNext]_topicVars => [ScoresNext]_scoresVars
  BY DEF TopicNext
<1>5. [TopicNext]_topicVars => [PagesNext]_pageVars
  BY DEF TopicNext
<1>6. QED
  BY <1>1, <1>2, <1>3, <1>4, <1>5, PTL DEF TopicSpec, TimelineSpec, SlipSpec, ScoresSpec, PagesSpec

\* The state of every topic of a room stays well formed, for any number of
\* members, items, polls, markets and pages.
THEOREM RoomStaysInShape == TopicSpec => []RoomOK
<1>1. TimelineOK /\ SlipOK /\ ScoresOK /\ PagesOK => RoomOK
  BY DEF RoomOK
<1>2. QED
  BY <1>1, TopicsOfRoom, TimelineTypes, SlipStaysInShape, ScoresStayInShape, PagesStayInShape, PTL

-----------------------------------------------------------------------------
(* Sums over finite sets, whatever the order. *)

\* A nonempty set of sets within a finite one has a least one.
LEMMA SmallestSet ==
  ASSUME NEW S, IsFiniteSet(S), NEW F \in SUBSET SUBSET S, F # {}
  PROVE  \E s \in F : \A t \in F : t \subseteq s => t = s
<1>1. FiniteSubsetsOf(S) = SUBSET S
  BY FS_FiniteSubsetsOfFinite
<1>2. IsWellFoundedOn(StrictSubsetOrdering(S), FiniteSubsetsOf(S))
  BY FS_StrictSubsetOrderingWellFounded
<1>3. PICK s \in F : \A t \in F : ~(<<t, s>> \in StrictSubsetOrdering(S))
  BY <1>1, <1>2, WFMin
<1>4. ASSUME NEW t \in F, t \subseteq s PROVE t = s
  BY <1>3, <1>4 DEF StrictSubsetOrdering
<1>5. QED
  BY <1>4

LEMMA LeastNumber ==
  ASSUME NEW T \in SUBSET Nat, T # {}
  PROVE  \E n \in T : \A k \in T : n <= k
<1> DEFINE R == {ss \in Nat \X Nat : ss[1] < ss[2]}
<1>1. IsWellFoundedOn(R, Nat)
  BY NatLessThanWellFounded DEF OpToRel
<1>1a. \A k, m \in Nat : k < m => <<k, m>> \in R
  OBVIOUS
<1> HIDE DEF R
<1>2. PICK n \in T : \A k \in T : ~(<<k, n>> \in R)
  BY <1>1, WFMin
<1>3. SUFFICES ASSUME NEW k \in T PROVE n <= k
  BY <1>2
<1>4. n \in Nat /\ k \in Nat /\ ~(k < n)
  BY <1>1a, <1>2
<1>5. QED
  BY <1>4

Some(s) == CHOOSE x \in s : TRUE
Small(S, n) == {s \in SUBSET S : Cardinality(s) <= n}

\* What the fold of f over the sets in D has to be.
Folds(f, D, g) == g = [s \in D |-> IF s = {} THEN 0 ELSE f[Some(s)] + g[s \ {Some(s)}]]

LEMMA SumIs ==
  ASSUME NEW f
  PROVE  SumFunction(f) = (CHOOSE g : Folds(f, SUBSET DOMAIN f, g))[DOMAIN f]
BY DEF SumFunction, SumFunctionOnSet, FoldFunctionOnSet, MapThenFoldSet, Folds, Some

\* A nonempty finite set and what is left of it.
LEMMA Fewer ==
  ASSUME NEW s, IsFiniteSet(s), NEW x \in s
  PROVE  IsFiniteSet(s \ {x}) /\ Cardinality(s \ {x}) = Cardinality(s) - 1 /\ Cardinality(s) \in Nat \ {0}
<1>1. Cardinality(s) \in Nat /\ Cardinality(s) # 0
  BY FS_CardinalityType, FS_EmptySet
<1>2. QED
  BY <1>1, FS_RemoveElement

LEMMA FoldsWithin ==
  ASSUME NEW f, NEW S, IsFiniteSet(S), NEW n \in Nat
  PROVE  \E g : Folds(f, Small(S, n), g)
<1> DEFINE T == {m \in Nat : ~\E g : Folds(f, Small(S, m), g)}
<1>0. \A s \in SUBSET S : IsFiniteSet(s) /\ Cardinality(s) \in Nat
  BY FS_Subset, FS_CardinalityType
<1>1. SUFFICES ASSUME T # {} PROVE FALSE
  OBVIOUS
<1>2. PICK m \in T : \A k \in T : m <= k
  BY <1>1, LeastNumber
<1>3. m # 0
  <2> DEFINE g == [s \in Small(S, 0) |-> 0]
  <2>1. \A s \in Small(S, 0) : s = {}
    BY <1>0, FS_EmptySet DEF Small
  <2>2. Folds(f, Small(S, 0), g)
    BY <2>1 DEF Folds
  <2>3. QED
    BY <2>2
<1>4. PICK g : Folds(f, Small(S, m - 1), g)
  <2>1. m - 1 \in Nat /\ ~(m <= m - 1)
    BY <1>3
  <2>2. QED
    BY <1>2, <2>1
<1> DEFINE new == [s \in Small(S, m) |-> IF s = {} THEN 0 ELSE f[Some(s)] + g[s \ {Some(s)}]]
<1>5. ASSUME NEW s \in Small(S, m), s # {}
      PROVE  s \ {Some(s)} \in Small(S, m - 1)
  <2>1. Some(s) \in s
    BY <1>5 DEF Some
  <2>2. Cardinality(s \ {Some(s)}) = Cardinality(s) - 1 /\ Cardinality(s) \in Nat
    BY <1>0, <2>1, Fewer DEF Small
  <2>3. QED
    BY <2>2 DEF Small
<1>6. ASSUME NEW s \in Small(S, m - 1) PROVE new[s] = g[s]
  <2>1. s \in Small(S, m)
    BY <1>0 DEF Small
  <2>2. new[s] = IF s = {} THEN 0 ELSE f[Some(s)] + g[s \ {Some(s)}]
    BY <2>1
  <2>3. QED
    BY <1>4, <2>2 DEF Folds
<1>7. new = [s \in Small(S, m) |-> IF s = {} THEN 0 ELSE f[Some(s)] + new[s \ {Some(s)}]]
  <2> HIDE DEF new
  <2>1. \A s \in Small(S, m) : s # {} => new[s \ {Some(s)}] = g[s \ {Some(s)}]
    BY <1>5, <1>6
  <2>2. QED
    BY <2>1 DEF new
<1>8. Folds(f, Small(S, m), new)
  BY <1>7 DEF Folds
<1>9. QED
  BY <1>8

\* The sum of a function on a finite set, part by part.
LEMMA SumFolds ==
  ASSUME NEW f, IsFiniteSet(DOMAIN f)
  PROVE  \E g : Folds(f, SUBSET DOMAIN f, g) /\ SumFunction(f) = g[DOMAIN f]
<1> DEFINE S == DOMAIN f
<1>1. Cardinality(S) \in Nat /\ \A s \in SUBSET S : Cardinality(s) <= Cardinality(S)
  BY FS_CardinalityType, FS_Subset
<1>2. Small(S, Cardinality(S)) = SUBSET S
  BY <1>1 DEF Small
<1>3. \E g : Folds(f, SUBSET S, g)
  <2>1. \E g : Folds(f, Small(S, Cardinality(S)), g)
    BY <1>1, FoldsWithin
  <2>2. QED
    BY <1>2, <2>1
<1>4. QED
  BY <1>3, SumIs

\* The order does not matter: any element can be taken first.
Adds(f, S, g) ==
  /\ g[{}] = 0
  /\ \A s \in SUBSET S : g[s] \in Nat
  /\ \A s \in SUBSET S : \A x \in s : g[s] = f[x] + g[s \ {x}]

LEMMA AnyFirst ==
  ASSUME NEW S, IsFiniteSet(S), NEW f \in [S -> Nat]
  PROVE  \E g : Adds(f, S, g) /\ SumFunction(f) = g[S]
<1>0. PICK g : Folds(f, SUBSET S, g) /\ SumFunction(f) = g[S]
  BY SumFolds
<1>1. \A s \in SUBSET S : g[s] = IF s = {} THEN 0 ELSE f[Some(s)] + g[s \ {Some(s)}]
  BY <1>0 DEF Folds
<1>2. g[{}] = 0
  BY <1>1
<1>3. \A s \in SUBSET S : g[s] \in Nat
  <2> DEFINE F == {s \in SUBSET S : g[s] \notin Nat}
  <2>1. SUFFICES ASSUME F # {} PROVE FALSE
    OBVIOUS
  <2>2. PICK s \in F : \A t \in F : t \subseteq s => t = s
    <3>1. F \in SUBSET SUBSET S
      OBVIOUS
    <3> HIDE DEF F
    <3>2. QED
      BY <2>1, <3>1, SmallestSet
  <2>3. s # {}
    BY <1>2
  <2>4. Some(s) \in s
    BY <2>3 DEF Some
  <2>5. g[s \ {Some(s)}] \in Nat
    BY <2>2, <2>4
  <2>6. f[Some(s)] \in Nat
    BY <2>4
  <2>7. s \in SUBSET S /\ g[s] \notin Nat
    BY <2>2
  <2> HIDE DEF F
  <2>8. g[s] = f[Some(s)] + g[s \ {Some(s)}]
    BY <1>1, <2>3, <2>7
  <2>9. QED
    BY <2>5, <2>6, <2>7, <2>8
<1>4. ASSUME NEW s \in SUBSET S, NEW x \in s PROVE g[s] = f[x] + g[s \ {x}]
  <2> DEFINE F == {t \in SUBSET S : \E y \in t : g[t] # f[y] + g[t \ {y}]}
  <2>1. SUFFICES ASSUME F # {} PROVE FALSE
    BY DEF F
  <2>2. PICK t \in F : \A u \in F : u \subseteq t => u = t
    <3>1. F \in SUBSET SUBSET S
      OBVIOUS
    <3> HIDE DEF F
    <3>2. QED
      BY <2>1, <3>1, SmallestSet
  <2>3. PICK y \in t : g[t] # f[y] + g[t \ {y}]
    BY <2>2
  <2> DEFINE c == Some(t)
  <2>4. c \in t
    BY <2>3 DEF Some
  <2>5. g[t] = f[c] + g[t \ {c}]
    BY <1>1, <2>3
  <2>6. c # y
    BY <2>3, <2>5
  <2>7. g[t \ {c}] = f[y] + g[(t \ {c}) \ {y}]
    <3>1. t \ {c} \notin F
      BY <2>2, <2>4
    <3>2. QED
      BY <2>6, <3>1
  <2>8. g[t \ {y}] = f[c] + g[(t \ {y}) \ {c}]
    <3>1. t \ {y} \notin F
      BY <2>2, <2>3
    <3>2. QED
      BY <2>4, <2>6, <3>1
  <2>9. (t \ {y}) \ {c} = (t \ {c}) \ {y}
    OBVIOUS
  <2>10. f[y] \in Nat /\ f[c] \in Nat /\ g[(t \ {c}) \ {y}] \in Nat
    BY <1>3, <2>4
  <2>11. \A fy, fc, r \in Nat : fc + (fy + r) = fy + (fc + r)
    OBVIOUS
  <2> HIDE DEF c, F
  <2>12. g[t \ {y}] = f[c] + g[(t \ {c}) \ {y}]
    BY <2>8, <2>9
  <2>13. g[t] = f[y] + g[t \ {y}]
    BY <2>5, <2>7, <2>10, <2>11, <2>12
  <2>14. QED
    BY <2>3, <2>13
<1>5. Adds(f, S, g)
  BY <1>2, <1>3, <1>4 DEF Adds
<1>6. QED
  BY <1>0, <1>5

\* A sum can be taken over another set whose elements stand for those of the first.
LEMMA SameSum ==
  ASSUME NEW S, IsFiniteSet(S), NEW T, IsFiniteSet(T), NEW h \in Bijection(S, T),
         NEW f \in [S -> Nat], NEW e \in [T -> Nat], \A x \in S : e[h[x]] = f[x]
  PROVE  SumFunction(f) = SumFunction(e)
<1>1. PICK g : Adds(f, S, g) /\ SumFunction(f) = g[S]
  BY AnyFirst
<1>2. PICK d : Adds(e, T, d) /\ SumFunction(e) = d[T]
  BY AnyFirst
<1> DEFINE img(s) == {h[x] : x \in s}
<1>3. h \in [S -> T] /\ img(S) = T /\ \A x, y \in S : h[x] = h[y] => x = y
  BY DEF Bijection, Injection, Surjection, IsInjective
<1>4. ASSUME NEW s \in SUBSET S PROVE g[s] = d[img(s)]
  <2> DEFINE F == {t \in SUBSET S : g[t] # d[img(t)]}
  <2>1. SUFFICES ASSUME F # {} PROVE FALSE
    BY DEF F
  <2>2. PICK t \in F : \A u \in F : u \subseteq t => u = t
    <3>1. F \in SUBSET SUBSET S
      OBVIOUS
    <3> HIDE DEF F
    <3>2. QED
      BY <2>1, <3>1, SmallestSet
  <2>3. t # {}
    BY <1>1, <1>2 DEF Adds
  <2>4. PICK x \in t : TRUE
    BY <2>3
  <2>5. g[t] = f[x] + g[t \ {x}]
    BY <1>1, <2>4 DEF Adds
  <2>6. img(t) \in SUBSET T /\ h[x] \in img(t)
    BY <1>3
  <2>7. d[img(t)] = e[h[x]] + d[img(t) \ {h[x]}]
    BY <1>2, <2>6 DEF Adds
  <2>8. img(t) \ {h[x]} = img(t \ {x})
    BY <1>3
  <2>9. g[t \ {x}] = d[img(t \ {x})]
    <3>1. t \ {x} \in SUBSET S /\ t \ {x} # t
      BY <2>2, <2>4
    <3>2. t \ {x} \notin F
      BY <2>2, <3>1
    <3>3. QED
      BY <3>1, <3>2
  <2>10. QED
    BY <2>2, <2>5, <2>7, <2>8, <2>9
<1>5. QED
  BY <1>1, <1>2, <1>3, <1>4

-----------------------------------------------------------------------------
(* Sorting. *)

\* When P gives what precedes each element of a finite set in a strict total
\* order, there is one element for each number of predecessors.
LEMMA Places ==
  ASSUME NEW S, IsFiniteSet(S), NEW P \in [S -> SUBSET S],
         \A x \in S : x \notin P[x],
         \A x, y \in S : x \in P[y] => P[x] \subseteq P[y],
         \A x, y \in S : x # y => x \in P[y] \/ y \in P[x]
  PROVE  /\ Cardinality(S) \in Nat
         /\ \A x \in S : Cardinality(P[x]) \in 0 .. Cardinality(S) - 1
         /\ \A x, y \in S : x \in P[y] <=> Cardinality(P[x]) < Cardinality(P[y])
         /\ \A x, y \in S : Cardinality(P[x]) = Cardinality(P[y]) => x = y
         /\ \A i \in 1 .. Cardinality(S) : \E x \in S : Cardinality(P[x]) = i - 1
<1> DEFINE n == Cardinality(S)
           place(x) == Cardinality(P[x])
<1>1. n \in Nat
  BY FS_CardinalityType
<1>2. ASSUME NEW x \in S PROVE IsFiniteSet(P[x]) /\ place(x) \in Nat /\ place(x) < n
  <2>1. P[x] \in SUBSET S /\ P[x] # S
    OBVIOUS
  <2>2. IsFiniteSet(P[x]) /\ Cardinality(P[x]) <= n /\ Cardinality(P[x]) # n
    BY <2>1, FS_Subset
  <2>3. Cardinality(P[x]) \in Nat
    BY <2>2, FS_CardinalityType
  <2> HIDE DEF n
  <2>4. QED
    BY <1>1, <2>2, <2>3
<1>3. ASSUME NEW x \in S, NEW y \in S, x \in P[y] PROVE place(x) < place(y)
  <2>1. P[x] \in SUBSET P[y] /\ P[x] # P[y]
    BY <1>3
  <2>2. Cardinality(P[x]) <= Cardinality(P[y]) /\ Cardinality(P[x]) # Cardinality(P[y])
    BY <1>2, <2>1, FS_Subset
  <2>3. QED
    BY <1>2, <2>2
<1> HIDE DEF n, place
<1>4. \A x, y \in S : place(x) = place(y) => x = y
  BY <1>2, <1>3
<1>5. \A x, y \in S : x \in P[y] <=> place(x) < place(y)
  <2>1. ASSUME NEW x \in S, NEW y \in S, place(x) < place(y), x \notin P[y] PROVE FALSE
    <3>1. x = y \/ y \in P[x]
      BY <2>1
    <3>2. place(x) \in Nat /\ place(y) \in Nat
      BY <1>2
    <3>3. QED
      BY <1>3, <2>1, <3>1, <3>2
  <2>2. QED
    BY <1>3, <2>1
<1>6. ASSUME NEW i \in 1 .. n PROVE \E x \in S : place(x) = i - 1
  <2> DEFINE f == [x \in S |-> place(x)]
             D == 0 .. n - 1
  <2>1. IsFiniteSet(D) /\ Cardinality(D) = n
    BY <1>1, FS_Interval
  <2>2. f \in Injection(S, D)
    <3>1. f \in [S -> D]
      BY <1>1, <1>2
    <3>2. \A x, y \in S : f[x] = f[y] => x = y
      BY <1>4
    <3> HIDE DEF D, f
    <3>3. QED
      BY <3>1, <3>2 DEF Injection, IsInjective
  <2>3. f \in Surjection(S, D)
    <3> HIDE DEF D, f
    <3>1. QED
      BY <2>1, <2>2, FS_Injection DEF n
  <2>4. i - 1 \in D
    BY <1>1
  <2>5. \E x \in S : f[x] = i - 1
    <3> HIDE DEF D, f
    <3>1. QED
      BY <2>3, <2>4 DEF Surjection
  <2>6. QED
    BY <2>5
<1>7. QED
  BY <1>1, <1>2, <1>4, <1>5, <1>6 DEF n, place

-----------------------------------------------------------------------------
(* The order of a board. *)

Rows == [fan : Nat, points : Nat, right : Nat, scored : Nat]

\* The number of scored calls that an accuracy is taken of.
Of(x) == IF x.scored = 0 THEN 1 ELSE x.scored

\* One row before another, given the two cross products of their accuracies.
First(x, y, left, right) ==
  \/ x.points > y.points
  \/ x.points = y.points /\ left > right
  \/ x.points = y.points /\ left = right /\ x.fan < y.fan

LEMMA Multiples ==
  ASSUME NEW a \in Nat, NEW b \in Nat, NEW k \in Nat \ {0}
  PROVE  (a > b <=> a * k > b * k) /\ (a = b <=> a * k = b * k) /\ a * k \in Nat
OBVIOUS

\* Fractions are compared by their cross products.
LEMMA Fractions ==
  ASSUME NEW a \in Nat, NEW b \in Nat, NEW c \in Nat,
         NEW p \in Nat \ {0}, NEW q \in Nat \ {0}, NEW r \in Nat \ {0}
  PROVE  /\ a * q > b * p /\ b * r > c * q => a * r > c * p
         /\ a * q > b * p /\ b * r = c * q => a * r > c * p
         /\ a * q = b * p /\ b * r > c * q => a * r > c * p
         /\ a * q = b * p /\ b * r = c * q => a * r = c * p
<1>1. /\ a * q \in Nat /\ b * p \in Nat /\ b * r \in Nat
      /\ c * q \in Nat /\ a * r \in Nat /\ c * p \in Nat
  OBVIOUS
<1>2. /\ a * q > b * p <=> (a * q) * r > (b * p) * r
      /\ a * q = b * p <=> (a * q) * r = (b * p) * r
  BY <1>1, Multiples
<1>3. /\ b * r > c * q <=> (b * r) * p > (c * q) * p
      /\ b * r = c * q <=> (b * r) * p = (c * q) * p
  BY <1>1, Multiples
<1>4. /\ a * r > c * p <=> (a * r) * q > (c * p) * q
      /\ a * r = c * p <=> (a * r) * q = (c * p) * q
  BY <1>1, Multiples
<1>5. (a * q) * r = (a * r) * q /\ (b * p) * r = (b * r) * p /\ (c * q) * p = (c * p) * q
  OBVIOUS
<1>6. (a * q) * r \in Nat /\ (b * p) * r \in Nat /\ (c * q) * p \in Nat
  BY <1>1
<1>7. QED
  BY <1>2, <1>3, <1>4, <1>5, <1>6

LEMMA BeforeIs ==
  ASSUME NEW x \in Rows, NEW y \in Rows
  PROVE  /\ Of(x) \in Nat \ {0} /\ Of(y) \in Nat \ {0}
         /\ x.right * Of(y) \in Nat /\ y.right * Of(x) \in Nat
         /\ Before(x, y) <=> First(x, y, x.right * Of(y), y.right * Of(x))
<1>1. /\ Of(x) \in Nat \ {0} /\ Of(y) \in Nat \ {0}
      /\ x.right \in Nat /\ y.right \in Nat
  BY DEF Of, Rows
<1>2. x.right * Of(y) \in Nat /\ y.right * Of(x) \in Nat
  BY <1>1
<1>3. QED
  BY <1>1, <1>2 DEF Before, First, Of

\* Rows of different fans are in a strict total order.
LEMMA BeforeOrders ==
  /\ \A x \in Rows : ~Before(x, x)
  /\ \A x, y, z \in Rows : Before(x, y) /\ Before(y, z) => Before(x, z)
  /\ \A x, y \in Rows : x.fan # y.fan => Before(x, y) \/ Before(y, x)
<1>1. \A x \in Rows : x.fan \in Nat /\ x.points \in Nat /\ x.right \in Nat
  BY DEF Rows
<1>2. ASSUME NEW x \in Rows PROVE ~Before(x, x)
  BY <1>1, BeforeIs DEF First
<1>3. ASSUME NEW x \in Rows, NEW y \in Rows, NEW z \in Rows, Before(x, y), Before(y, z)
      PROVE  Before(x, z)
  <2> DEFINE a == x.right  b == y.right  c == z.right
             p == Of(x)  q == Of(y)  r == Of(z)
  <2>1. /\ a \in Nat /\ b \in Nat /\ c \in Nat
        /\ p \in Nat \ {0} /\ q \in Nat \ {0} /\ r \in Nat \ {0}
    BY <1>1, BeforeIs
  <2>2. First(x, y, a * q, b * p) /\ First(y, z, b * r, c * q)
    BY <1>3, BeforeIs
  <2>3. Before(x, z) <=> First(x, z, a * r, c * p)
    BY BeforeIs
  <2> HIDE DEF a, b, c, p, q, r
  <2>4. /\ a * q > b * p /\ b * r > c * q => a * r > c * p
        /\ a * q > b * p /\ b * r = c * q => a * r > c * p
        /\ a * q = b * p /\ b * r > c * q => a * r > c * p
        /\ a * q = b * p /\ b * r = c * q => a * r = c * p
    BY <2>1, Fractions
  <2>5. /\ x.points \in Nat /\ y.points \in Nat /\ z.points \in Nat
        /\ x.fan \in Nat /\ y.fan \in Nat /\ z.fan \in Nat
    BY <1>1
  <2>6. x.fan < y.fan /\ y.fan < z.fan => x.fan < z.fan
    BY <2>5
  <2>7. /\ x.points > y.points /\ y.points >= z.points => x.points > z.points
        /\ x.points >= y.points /\ y.points > z.points => x.points > z.points
        /\ x.points = y.points => x.points >= y.points
        /\ y.points = z.points => y.points >= z.points
        /\ x.points > y.points => x.points >= y.points
    BY <2>5
  <2>8. QED
    BY <2>2, <2>3, <2>4, <2>6, <2>7 DEF First
<1>4. ASSUME NEW x \in Rows, NEW y \in Rows, x.fan # y.fan
      PROVE  Before(x, y) \/ Before(y, x)
  BY <1>1, <1>4, BeforeIs DEF First
<1>5. QED
  BY <1>2, <1>3, <1>4

-----------------------------------------------------------------------------
(* Boards. *)

Ahead(S, x) == {y \in S : Before(y, x)}
OneRowEach(S) == \A x, y \in S : x.fan = y.fan => x = y

LEMMA Boards ==
  ASSUME NEW S \in SUBSET Rows, IsFiniteSet(S), OneRowEach(S)
  PROVE  /\ Cardinality(S) \in Nat
         /\ \A x \in S : Cardinality(Ahead(S, x)) \in 0 .. Cardinality(S) - 1
         /\ \A x, y \in S : Before(x, y) <=> Cardinality(Ahead(S, x)) < Cardinality(Ahead(S, y))
         /\ \A x, y \in S : Cardinality(Ahead(S, x)) = Cardinality(Ahead(S, y)) => x = y
         /\ \A i \in 1 .. Cardinality(S) : \E x \in S : Cardinality(Ahead(S, x)) = i - 1
<1> DEFINE P == [x \in S |-> Ahead(S, x)]
<1>1. P \in [S -> SUBSET S] /\ \A x \in S : P[x] = Ahead(S, x)
  BY DEF Ahead
<1>2. \A x, y \in S : x \in P[y] <=> Before(x, y)
  BY DEF Ahead
<1>3. \A x \in S : x \notin P[x]
  BY <1>2, BeforeOrders
<1>4. \A x, y \in S : x \in P[y] => P[x] \subseteq P[y]
  <2>1. ASSUME NEW x \in S, NEW y \in S, x \in P[y], NEW z \in P[x] PROVE z \in P[y]
    <3>1. z \in S /\ z \in Rows /\ x \in Rows /\ y \in Rows
      BY <1>1
    <3>2. Before(z, x) /\ Before(x, y)
      BY <1>2, <2>1, <3>1
    <3>3. Before(z, y)
      BY <3>1, <3>2, BeforeOrders
    <3>4. QED
      BY <1>2, <3>1, <3>3
  <2>2. QED
    BY <2>1
<1>5. \A x, y \in S : x # y => x \in P[y] \/ y \in P[x]
  <2>1. \A x, y \in S : x # y => Before(x, y) \/ Before(y, x)
    BY BeforeOrders DEF OneRowEach
  <2>2. QED
    BY <1>2, <2>1
<1> HIDE DEF P
<1>6. /\ Cardinality(S) \in Nat
      /\ \A x \in S : Cardinality(P[x]) \in 0 .. Cardinality(S) - 1
      /\ \A x, y \in S : x \in P[y] <=> Cardinality(P[x]) < Cardinality(P[y])
      /\ \A x, y \in S : Cardinality(P[x]) = Cardinality(P[y]) => x = y
      /\ \A i \in 1 .. Cardinality(S) : \E x \in S : Cardinality(P[x]) = i - 1
  BY <1>1, <1>3, <1>4, <1>5, Places
<1>7. QED
  BY <1>1, <1>2, <1>6

LEMMA SortedBoard ==
  ASSUME NEW S \in SUBSET Rows, IsFiniteSet(S), OneRowEach(S)
  PROVE  /\ Sorted(S, Before) = [i \in 1 .. Cardinality(S) |-> Sorted(S, Before)[i]]
         /\ \A i \in 1 .. Cardinality(S) :
              Sorted(S, Before)[i] \in S /\ Cardinality(Ahead(S, Sorted(S, Before)[i])) = i - 1
<1>1. Sorted(S, Before) = [i \in 1 .. Cardinality(S) |-> CHOOSE x \in S : Cardinality(Ahead(S, x)) = i - 1]
  BY DEF Sorted, Ahead
<1>2. \A i \in 1 .. Cardinality(S) : \E x \in S : Cardinality(Ahead(S, x)) = i - 1
  BY Boards
<1>3. QED
  BY <1>1, <1>2

\* Two boards of the same rows, each with the row that has the right number of
\* rows before it in every place, are the same.
LEMMA OneBoard ==
  ASSUME NEW S \in SUBSET Rows, IsFiniteSet(S), OneRowEach(S), NEW s,
         s = [i \in 1 .. Cardinality(S) |-> s[i]],
         \A i \in 1 .. Cardinality(S) : s[i] \in S /\ Cardinality(Ahead(S, s[i])) = i - 1
  PROVE  s = Sorted(S, Before)
<1> DEFINE b == Sorted(S, Before)
<1>1. /\ b = [i \in 1 .. Cardinality(S) |-> b[i]]
      /\ \A i \in 1 .. Cardinality(S) : b[i] \in S /\ Cardinality(Ahead(S, b[i])) = i - 1
  BY SortedBoard
<1> HIDE DEF b
<1>2. \A i \in 1 .. Cardinality(S) : s[i] = b[i]
  <2>1. \A x, y \in S : Cardinality(Ahead(S, x)) = Cardinality(Ahead(S, y)) => x = y
    BY Boards
  <2>2. QED
    BY <1>1, <2>1
<1>3. QED
  BY <1>1, <1>2 DEF b

\* With scored calls on every row, the two orders sort alike.
LEMMA SameOrder ==
  ASSUME NEW S \in SUBSET Rows, IsFiniteSet(S), OneRowEach(S), \A x \in S : x.scored # 0
  PROVE  Sorted(S, SharedBefore) = Sorted(S, Before)
<1> DEFINE s == Sorted(S, SharedBefore)
<1>1. ASSUME NEW x \in S PROVE {y \in S : SharedBefore(y, x)} = Ahead(S, x)
  BY DEF SharedBefore, Before, Ahead
<1>2. s = [i \in 1 .. Cardinality(S) |-> CHOOSE x \in S : Cardinality({y \in S : SharedBefore(y, x)}) = i - 1]
  BY DEF Sorted
<1>3. \A i \in 1 .. Cardinality(S) : \E x \in S : Cardinality({y \in S : SharedBefore(y, x)}) = i - 1
  <2>1. \A i \in 1 .. Cardinality(S) : \E x \in S : Cardinality(Ahead(S, x)) = i - 1
    BY Boards
  <2>2. \A x \in S : Cardinality({y \in S : SharedBefore(y, x)}) = Cardinality(Ahead(S, x))
    BY <1>1
  <2>3. QED
    BY <2>1, <2>2
<1>4. \A i \in 1 .. Cardinality(S) : s[i] \in S /\ Cardinality({y \in S : SharedBefore(y, s[i])}) = i - 1
  <2> HIDE DEF s
  <2>1. QED
    BY <1>2, <1>3
<1>5. s = [i \in 1 .. Cardinality(S) |-> s[i]]
  BY <1>2
<1> HIDE DEF s
<1>6. QED
  BY <1>1, <1>4, <1>5, OneBoard DEF s

\* Without a row, the others keep their order.
LEMMA BoardWithout ==
  ASSUME NEW S \in SUBSET Rows, IsFiniteSet(S), OneRowEach(S), NEW m \in S
  PROVE  RemoveAt(Sorted(S, Before), Cardinality(Ahead(S, m)) + 1) = Sorted(S \ {m}, Before)
<1> DEFINE L == S \ {m}
           n == Cardinality(S)
           b == Sorted(S, Before)
           r == Cardinality(Ahead(S, m)) + 1
           s == RemoveAt(b, r)
<1>1. L \in SUBSET Rows /\ IsFiniteSet(L) /\ OneRowEach(L) /\ Cardinality(L) = n - 1 /\ n \in Nat \ {0}
  BY Fewer DEF OneRowEach
<1>2. r \in 1 .. n
  BY <1>1, Boards
<1>3. b = [i \in 1 .. n |-> b[i]] /\ \A i \in 1 .. n : b[i] \in S /\ Cardinality(Ahead(S, b[i])) = i - 1
  BY SortedBoard
<1>4. b \in Seq(S) /\ Len(b) = n
  <2>1. b \in [1 .. n -> S]
    BY <1>3
  <2> HIDE DEF n, b
  <2>2. QED
    BY <1>1, <2>1
<1>5. ASSUME NEW x \in L
      PROVE  Ahead(L, x) = Ahead(S, x) \ {m} /\ (m \in Ahead(S, x) <=> Before(m, x)) /\ IsFiniteSet(Ahead(S, x))
  <2>1. Ahead(S, x) \in SUBSET S
    BY DEF Ahead
  <2>2. IsFiniteSet(Ahead(S, x))
    BY <2>1, FS_Subset
  <2>3. QED
    BY <2>2 DEF Ahead
<1>6. ASSUME NEW i \in 1 .. n, i # r
      PROVE  /\ b[i] \in L
             /\ Cardinality(Ahead(L, b[i])) = IF i < r THEN i - 1 ELSE i - 2
  <2> DEFINE x == b[i]
  <2>1. x \in S /\ Cardinality(Ahead(S, x)) = i - 1
    BY <1>3
  <2>2. x \in L
    BY <1>6, <2>1
  <2> HIDE DEF x
  <2>3. Before(m, x) <=> r - 1 < i - 1
    <3>1. Before(m, x) <=> Cardinality(Ahead(S, m)) < Cardinality(Ahead(S, x))
      BY <2>1, Boards
    <3>2. Cardinality(Ahead(S, m)) = r - 1
      BY Boards
    <3>3. QED
      BY <2>1, <3>1, <3>2
  <2>4. Cardinality(Ahead(L, x)) = IF m \in Ahead(S, x) THEN Cardinality(Ahead(S, x)) - 1 ELSE Cardinality(Ahead(S, x))
    <3>1. Ahead(L, x) = Ahead(S, x) \ {m} /\ IsFiniteSet(Ahead(S, x))
      BY <1>5, <2>2
    <3>2. Cardinality(Ahead(S, x) \ {m}) = IF m \in Ahead(S, x) THEN Cardinality(Ahead(S, x)) - 1 ELSE Cardinality(Ahead(S, x))
      BY <3>1, FS_RemoveElement
    <3>3. QED
      BY <3>1, <3>2
  <2> HIDE DEF r, n
  <2>5. m \in Ahead(S, x) <=> r < i
    BY <1>1, <1>2, <1>5, <2>2, <2>3
  <2>6. QED
    BY <1>1, <1>2, <1>6, <2>1, <2>2, <2>4, <2>5 DEF x
<1> HIDE DEF L, n, b, r
<1>7. /\ Len(s) = n - 1 /\ s \in Seq(S)
      /\ \A i \in 1 .. n - 1 : s[i] = IF i < r THEN b[i] ELSE b[i + 1]
  <2>1. 1 \in 1 .. n + 1 /\ r - 1 \in 0 .. n /\ r + 1 \in 1 .. n + 1 /\ n \in Int
    BY <1>1, <1>2
  <2> DEFINE left == SubSeq(b, 1, r - 1)
             right == SubSeq(b, r + 1, n)
  <2>2. left \in Seq(S) /\ Len(left) = r - 1 /\ \A i \in 1 .. r - 1 : left[i] = b[i]
    BY <1>2, <1>4, <2>1
  <2>3. right \in Seq(S) /\ Len(right) = n - r /\ \A i \in 1 .. n - r : right[i] = b[r + i]
    BY <1>1, <1>2, <1>4, <2>1
  <2>4. s = left \o right
    BY <1>4 DEF RemoveAt
  <2> HIDE DEF left, right, s
  <2>5. Len(s) = n - 1 /\ s \in Seq(S)
    BY <1>1, <1>2, <2>2, <2>3, <2>4
  <2>6. ASSUME NEW i \in 1 .. n - 1 PROVE s[i] = IF i < r THEN b[i] ELSE b[i + 1]
    <3>1. s[i] = IF i <= r - 1 THEN left[i] ELSE right[i - (r - 1)]
      BY <1>1, <1>2, <2>2, <2>3, <2>4
    <3>2. CASE i < r
      BY <1>2, <2>2, <3>1, <3>2
    <3>3. CASE ~(i < r)
      <4>1. i - (r - 1) \in 1 .. n - r /\ r + (i - (r - 1)) = i + 1 /\ ~(i <= r - 1)
        BY <1>1, <1>2, <3>3
      <4>2. QED
        BY <2>3, <3>1, <3>3, <4>1
    <3>4. QED
      BY <3>2, <3>3
  <2>7. QED
    BY <2>5, <2>6
<1>8. \A i \in 1 .. n - 1 : s[i] \in L /\ Cardinality(Ahead(L, s[i])) = i - 1
  <2> HIDE DEF s
  <2>1. ASSUME NEW i \in 1 .. n - 1, i < r PROVE s[i] \in L /\ Cardinality(Ahead(L, s[i])) = i - 1
    <3>1. i \in 1 .. n /\ i # r /\ s[i] = b[i]
      BY <1>1, <1>2, <1>7, <2>1
    <3>2. QED
      BY <1>6, <2>1, <3>1
  <2>2. ASSUME NEW i \in 1 .. n - 1, ~(i < r) PROVE s[i] \in L /\ Cardinality(Ahead(L, s[i])) = i - 1
    <3>1. i + 1 \in 1 .. n /\ i + 1 # r /\ ~(i + 1 < r) /\ s[i] = b[i + 1] /\ (i + 1) - 2 = i - 1
      BY <1>1, <1>2, <1>7, <2>2
    <3>2. QED
      BY <1>6, <3>1
  <2>3. QED
    BY <2>1, <2>2
<1>9. s = [i \in 1 .. Cardinality(L) |-> s[i]]
  BY <1>1, <1>7
<1>10. s = Sorted(L, Before)
  <2> HIDE DEF s
  <2>1. QED
    BY <1>1, <1>8, <1>9, OneBoard
<1>11. QED
  BY <1>10 DEF L, b, r

-----------------------------------------------------------------------------
(* What an answer counts for. *)

ScoresInv ==
  /\ ScoresOK
  /\ IsFiniteSet(answers)
  /\ \A a, b \in answers : a.fan = b.fan /\ a.question = b.question => a = b

Right(a) == a.choice = verdict[a.question]
Counts(a) == terms[a.question].scored /\ verdict[a.question] \notin {"void", Undecided}
Score(a) ==
  [fan |-> a.fan, question |-> a.question, correct |-> Right(a),
   points |-> IF Right(a) THEN Points(terms[a.question].difficulty) ELSE 0]

LEMMA PointsAreNatural ==
  ASSUME NEW d \in Difficulties
  PROVE  Points(d) \in Nat /\ SharedPoints(d) = Points(d)
<1>1. d \in Nat
  BY DifficultyAssumption
<1>2. ASSUME d # 0 PROVE Nearest(10000, d) \in Int
  BY <1>1, <1>2 DEF Nearest
<1>3. ASSUME NEW x \in Int PROVE Clamped(x) \in Nat
  BY DEF Clamped
<1>4. QED
  BY <1>2, <1>3 DEF Points, SharedPoints

\* An answer has the same outcome, score and receipt state in both derivations.
LEMMA AnswerAgrees ==
  ASSUME ScoresOK, NEW a \in answers
  PROVE  /\ a.fan \in Fans /\ a.fan \in Nat
         /\ AnswerOutcome(a).scored <=> Counts(a)
         /\ Counts(a) => /\ AnswerOutcome(a).points = Score(a).points
                         /\ AnswerOutcome(a).points \in Nat
                         /\ AnswerOutcome(a).correct <=> Right(a)
         /\ SharedScore(a) = IF Counts(a) THEN {Score(a)} ELSE {}
         /\ AnswerOutcome(a).state = SharedReceipt(a)
<1>1. /\ a.fan \in Fans /\ a.fan \in Nat /\ a.question \in Questions
      /\ terms[a.question].scored \in BOOLEAN /\ terms[a.question].difficulty \in Difficulties
  BY FansAssumption DEF ScoresOK, AnswerRecords
<1>2. /\ Points(terms[a.question].difficulty) \in Nat
      /\ SharedPoints(terms[a.question].difficulty) = Points(terms[a.question].difficulty)
  BY <1>1, PointsAreNatural
<1>3. Undecided # "void"
  BY UndecidedAssumption
<1>4. CASE verdict[a.question] = Undecided
  <2>1. AnswerOutcome(a) = Outcome(0, "accepted", FALSE, FALSE)
    BY <1>3, <1>4 DEF AnswerOutcome
  <2>2. QED
    BY <1>1, <1>3, <1>4, <2>1 DEF Outcome, Counts, SharedScore, SharedReceipt
<1>5. CASE verdict[a.question] = "void"
  <2>1. AnswerOutcome(a) = Outcome(0, "void", FALSE, FALSE)
    BY <1>3, <1>5 DEF AnswerOutcome
  <2>2. QED
    BY <1>1, <1>3, <1>5, <2>1 DEF Outcome, Counts, SharedScore, SharedReceipt
<1>6. CASE verdict[a.question] \notin {"void", Undecided} /\ ~terms[a.question].scored
  <2>1. AnswerOutcome(a) = Outcome(0, "proof-pending", terms[a.question].scored, a.choice = verdict[a.question])
    BY <1>6 DEF AnswerOutcome
  <2>2. QED
    BY <1>1, <1>6, <2>1 DEF Outcome, Counts, SharedScore, SharedReceipt
<1>7. CASE Counts(a)
  <2> DEFINE points == IF Right(a) THEN Points(terms[a.question].difficulty) ELSE 0
  <2>1. AnswerOutcome(a) = Outcome(points, "proof-pending", terms[a.question].scored, a.choice = verdict[a.question])
    BY <1>7 DEF AnswerOutcome, Counts, Right
  <2>2. SharedScore(a) = {Score(a)}
    BY <1>2, <1>7 DEF SharedScore, Score, Counts, Right
  <2>3. AnswerOutcome(a).state = SharedReceipt(a)
    BY <1>7, <2>1 DEF Outcome, SharedReceipt, Counts
  <2>4. points \in Nat
    BY <1>2
  <2>5. /\ AnswerOutcome(a).scored = terms[a.question].scored
        /\ AnswerOutcome(a).points = points
        /\ AnswerOutcome(a).correct = (a.choice = verdict[a.question])
    BY <2>1 DEF Outcome
  <2>6. AnswerOutcome(a).scored <=> Counts(a)
    BY <1>7, <2>5 DEF Counts
  <2>7. AnswerOutcome(a).correct <=> Right(a)
    BY <2>5 DEF Right
  <2>8. points = Score(a).points
    BY DEF Score
  <2> HIDE DEF points
  <2>9. QED
    BY <1>1, <1>7, <2>2, <2>3, <2>4, <2>5, <2>6, <2>7, <2>8
<1>8. QED
  BY <1>4, <1>5, <1>6, <1>7 DEF Counts

LEMMA ScoresOfFan ==
  ASSUME ScoresInv, NEW u
  PROVE  /\ Scored(u) = {a \in answers : a.fan = u /\ Counts(a)}
         /\ {s \in SharedScores : s.fan = u} = {Score(a) : a \in Scored(u)}
         /\ IsFiniteSet(Scored(u))
         /\ \A a, b \in Scored(u) : Score(a) = Score(b) => a = b
<1>1. Scored(u) = {a \in answers : a.fan = u /\ Counts(a)}
  BY AnswerAgrees DEF Scored, ScoresInv
<1>2. SharedScores = {Score(a) : a \in {b \in answers : Counts(b)}}
  <2>1. \A a \in answers : SharedScore(a) = IF Counts(a) THEN {Score(a)} ELSE {}
    BY AnswerAgrees DEF ScoresInv
  <2>2. QED
    BY <2>1 DEF SharedScores
<1>3. \A a : Score(a).fan = a.fan /\ Score(a).question = a.question
  BY DEF Score
<1>4. IsFiniteSet(Scored(u))
  BY <1>1, FS_Subset DEF ScoresInv
<1>5. \A a, b \in Scored(u) : Score(a) = Score(b) => a = b
  BY <1>1, <1>3 DEF ScoresInv
<1>6. {s \in SharedScores : s.fan = u} = {Score(a) : a \in Scored(u)}
  BY <1>1, <1>2, <1>3
<1>7. QED
  BY <1>1, <1>4, <1>5, <1>6

\* The scores of a set of a fan's answers, one for each.
LEMMA ScoreEach ==
  ASSUME ScoresInv, NEW u, NEW S \in SUBSET Scored(u)
  PROVE  LET T == {Score(a) : a \in S}
             h == [a \in S |-> Score(a)]
         IN  /\ h \in Bijection(S, T)
             /\ IsFiniteSet(S) /\ IsFiniteSet(T) /\ Cardinality(T) = Cardinality(S)
             /\ Cardinality(S) \in Nat
<1> DEFINE T == {Score(a) : a \in S}
           h == [a \in S |-> Score(a)]
<1>1. \A a, b \in S : h[a] = h[b] => a = b
  BY ScoresOfFan
<1>2. h \in [S -> T] /\ \A t \in T : \E a \in S : h[a] = t
  OBVIOUS
<1>3. IsFiniteSet(S) /\ Cardinality(S) \in Nat
  BY ScoresOfFan, FS_Subset, FS_CardinalityType
<1> HIDE DEF T, h
<1>4. h \in Bijection(S, T)
  BY <1>1, <1>2 DEF Bijection, Injection, Surjection, IsInjective
<1>5. IsFiniteSet(T) /\ Cardinality(T) = Cardinality(S)
  BY <1>3, <1>4, FS_Bijection DEF ExistsBijection
<1>6. QED
  BY <1>3, <1>4, <1>5 DEF T, h

\* A fan has the same row on both boards.
LEMMA SameRow ==
  ASSUME ScoresInv, NEW u \in Nat
  PROVE  /\ BoardRow(u) = SharedRow(u)
         /\ SharedRow(u) \in Rows /\ SharedRow(u).fan = u
         /\ SharedRow(u).scored = 0 <=> Scored(u) = {}
<1> DEFINE S == Scored(u)
           T == {s \in SharedScores : s.fan = u}
           h == [a \in S |-> Score(a)]
           f == [a \in S |-> AnswerOutcome(a).points]
           e == [s \in T |-> s.points]
<1>1. T = {Score(a) : a \in S}
  BY ScoresOfFan
<1>2. /\ h \in Bijection(S, T) /\ IsFiniteSet(S) /\ IsFiniteSet(T)
      /\ Cardinality(T) = Cardinality(S) /\ Cardinality(S) \in Nat
  BY <1>1, ScoreEach
<1>3. \A a \in S : /\ AnswerOutcome(a).points = Score(a).points
                   /\ AnswerOutcome(a).points \in Nat
                   /\ AnswerOutcome(a).correct <=> Right(a)
  BY ScoresOfFan, AnswerAgrees DEF ScoresInv
<1>4. SumFunction(f) = SumFunction(e) /\ SumFunction(e) \in Nat
  <2>1. f \in [S -> Nat] /\ e \in [T -> Nat]
    BY <1>1, <1>3
  <2>2. \A a \in S : e[h[a]] = f[a]
    BY <1>1, <1>3
  <2> HIDE DEF S, T, h, f, e
  <2>3. SumFunction(f) = SumFunction(e)
    BY <1>2, <2>1, <2>2, SameSum
  <2>4. PICK g : Adds(e, T, g) /\ SumFunction(e) = g[T]
    BY <1>2, <2>1, AnyFirst
  <2>5. QED
    BY <2>3, <2>4 DEF Adds
<1>5. /\ Cardinality({s \in T : s.correct}) = Cardinality({a \in S : AnswerOutcome(a).correct})
      /\ Cardinality({s \in T : s.correct}) \in Nat
  <2> DEFINE S1 == {a \in S : AnswerOutcome(a).correct}
             T1 == {s \in T : s.correct}
  <2>1. \A a \in S : Score(a).correct <=> Right(a)
    BY DEF Score
  <2>2. T1 = {Score(a) : a \in S1}
    BY <1>1, <1>3, <2>1
  <2>3. S1 \in SUBSET Scored(u)
    OBVIOUS
  <2> HIDE DEF S1, T1
  <2>4. Cardinality({Score(a) : a \in S1}) = Cardinality(S1) /\ Cardinality(S1) \in Nat
    BY <2>3, ScoreEach
  <2>5. QED
    BY <2>2, <2>4 DEF S1, T1
<1>6. BoardRow(u) = SharedRow(u)
  BY <1>2, <1>4, <1>5 DEF BoardRow, SharedRow
<1>7. SharedRow(u) = Row(u, SumFunction(e), Cardinality({s \in T : s.correct}), Cardinality(T))
  BY DEF SharedRow
<1>8. Cardinality(T) = 0 <=> S = {}
  BY <1>2, FS_EmptySet
<1>9. QED
  BY <1>2, <1>4, <1>5, <1>6, <1>7, <1>8 DEF Row, Rows

-----------------------------------------------------------------------------
(* Both boards. *)

Scorers == {u \in Fans : Scored(u) # {}}
RowsOf(F) == {SharedRow(u) : u \in F}

LEMMA RowsOfFans ==
  ASSUME ScoresInv, NEW F \in SUBSET Fans
  PROVE  /\ RowsOf(F) \in SUBSET Rows /\ IsFiniteSet(RowsOf(F)) /\ OneRowEach(RowsOf(F))
         /\ \A u \in F : SharedRow(u) \in RowsOf(F)
         /\ \A x \in RowsOf(F) : x.fan \in F /\ x = SharedRow(x.fan)
<1>1. \A u \in F : u \in Nat
  BY FansAssumption
<1>2. \A u \in F : SharedRow(u) \in Rows /\ SharedRow(u).fan = u
  BY <1>1, SameRow
<1>3. IsFiniteSet(RowsOf(F))
  <2>1. IsFiniteSet(F)
    BY FansAssumption, FS_Subset
  <2> DEFINE f == [u \in F |-> SharedRow(u)]
  <2>2. f \in [F -> RowsOf(F)] /\ \A x \in RowsOf(F) : \E u \in F : f[u] = x
    BY DEF RowsOf
  <2> HIDE DEF f
  <2>3. f \in Surjection(F, RowsOf(F))
    BY <2>2 DEF Surjection
  <2>4. QED
    BY <2>1, <2>3, FS_Surjection
<1>4. QED
  BY <1>2, <1>3 DEF RowsOf, OneRowEach

LEMMA BoardsOf ==
  ASSUME ScoresInv
  PROVE  /\ Self \in Fans /\ Scorers \in SUBSET Fans
         /\ Board = Sorted(RowsOf(Scorers \cup {Self}), Before)
         /\ Leaderboard = Sorted(RowsOf(Scorers), SharedBefore)
         /\ {s.fan : s \in SharedScores} = Scorers
<1>1. Self \in Fans /\ Scorers \in SUBSET Fans /\ Fans \subseteq Nat
  BY FansAssumption DEF Scorers
<1>2. \A u \in Scorers \cup {Self} : BoardRow(u) = SharedRow(u)
  BY <1>1, SameRow
<1>3. {BoardRow(u) : u \in {f \in Fans : Scored(f) # {}} \cup {Self}} = RowsOf(Scorers \cup {Self})
  BY <1>2 DEF Scorers, RowsOf
<1>4. {s.fan : s \in SharedScores} = Scorers
  <2>1. ASSUME NEW s \in SharedScores PROVE s.fan \in Scorers
    <3>1. PICK a \in answers : s \in SharedScore(a)
      BY DEF SharedScores
    <3>2. a.fan \in Fans /\ Counts(a) /\ s = Score(a)
      BY <3>1, AnswerAgrees DEF ScoresInv
    <3>3. s.fan = a.fan
      BY <3>2 DEF Score
    <3>4. a \in Scored(a.fan)
      BY <3>2, ScoresOfFan
    <3>5. QED
      BY <3>2, <3>3, <3>4 DEF Scorers
  <2>2. ASSUME NEW u \in Scorers PROVE \E s \in SharedScores : s.fan = u
    <3>1. PICK a \in Scored(u) : TRUE
      BY DEF Scorers
    <3>2. Score(a) \in {s \in SharedScores : s.fan = u}
      BY ScoresOfFan
    <3>3. QED
      BY <3>2
  <2>3. QED
    BY <2>1, <2>2
<1>5. {SharedRow(s.fan) : s \in SharedScores} = RowsOf(Scorers)
  BY <1>4 DEF RowsOf
<1>6. QED
  BY <1>1, <1>3, <1>4, <1>5 DEF Board, Leaderboard

\* The current user's place is where her row is.
LEMMA SelfsPlace ==
  ASSUME ScoresInv
  PROVE  LET S == RowsOf(Scorers \cup {Self}) IN
         /\ PlaceOn(Board, Self) = Cardinality(Ahead(S, SharedRow(Self))) + 1
         /\ PlaceOn(Board, Self) \in 1 .. Cardinality(S)
         /\ Cardinality(S) \in Nat
         /\ Len(Board) = Cardinality(S)
<1> DEFINE S == RowsOf(Scorers \cup {Self})
           n == Cardinality(S)
           k == Cardinality(Ahead(S, SharedRow(Self))) + 1
<1>1. S \in SUBSET Rows /\ IsFiniteSet(S) /\ OneRowEach(S) /\ SharedRow(Self) \in S
  BY BoardsOf, RowsOfFans
<1>2. Board = Sorted(S, Before) /\ Self \in Nat
  BY BoardsOf, FansAssumption
<1> HIDE DEF S
<1>3. /\ Board = [i \in 1 .. n |-> Board[i]]
      /\ \A i \in 1 .. n : Board[i] \in S /\ Cardinality(Ahead(S, Board[i])) = i - 1
  BY <1>1, <1>2, SortedBoard
<1>4. n \in Nat /\ k \in 1 .. n
  <2>1. n \in Nat /\ Cardinality(Ahead(S, SharedRow(Self))) \in 0 .. n - 1
    BY <1>1, Boards
  <2>2. QED
    BY <2>1
<1>5. \A x, y \in S : Cardinality(Ahead(S, x)) = Cardinality(Ahead(S, y)) => x = y
  BY <1>1, Boards
<1>6. SharedRow(Self).fan = Self
  BY <1>2, SameRow
<1>7. Board[k] = SharedRow(Self)
  <2>1. Board[k] \in S /\ Cardinality(Ahead(S, Board[k])) = k - 1
    BY <1>3, <1>4
  <2>2. k - 1 = Cardinality(Ahead(S, SharedRow(Self)))
    BY <1>1, Boards
  <2>3. QED
    BY <1>1, <1>5, <2>1, <2>2
<1>8. ASSUME NEW i \in 1 .. n, Board[i].fan = Self PROVE i = k
  <2>1. Board[i] = SharedRow(Self)
    BY <1>1, <1>3, <1>6, <1>8 DEF OneRowEach
  <2>2. i - 1 = k - 1
    BY <1>3, <1>4, <1>7, <2>1
  <2>3. QED
    BY <1>4, <2>2
<1> HIDE DEF k
<1>9. DOMAIN Board = 1 .. n
  BY <1>3
<1>10. PlaceOn(Board, Self) = k
  BY <1>4, <1>6, <1>7, <1>8, <1>9 DEF PlaceOn
<1>11. Board \in Seq(S)
  <2>1. Board \in [1 .. n -> S]
    BY <1>3
  <2> HIDE DEF n
  <2>2. QED
    BY <1>4, <2>1
<1>12. Len(Board) = n
  BY <1>4, <1>9, <1>11
<1>13. QED
  BY <1>4, <1>10, <1>12 DEF S, k

LEMMA BoardIsLeaderboard ==
  ASSUME ScoresInv
  PROVE  Leaderboard = IF Scored(Self) # {} THEN Board ELSE RemoveAt(Board, PlaceOn(Board, Self))
<1> DEFINE S == RowsOf(Scorers \cup {Self})
           L == RowsOf(Scorers)
           m == SharedRow(Self)
<1>1. /\ S \in SUBSET Rows /\ IsFiniteSet(S) /\ OneRowEach(S) /\ m \in S
      /\ L \in SUBSET Rows /\ IsFiniteSet(L) /\ OneRowEach(L)
  BY BoardsOf, RowsOfFans
<1>2. \A x \in L : x.scored # 0
  <2>1. ASSUME NEW x \in L PROVE x.scored # 0
    <3>1. x.fan \in Scorers /\ x = SharedRow(x.fan) /\ x.fan \in Nat
      BY BoardsOf, RowsOfFans, FansAssumption
    <3>2. QED
      BY <3>1, SameRow DEF Scorers
  <2>2. QED
    BY <2>1
<1>3. Leaderboard = Sorted(L, Before) /\ Board = Sorted(S, Before)
  <2> HIDE DEF S, L
  <2>1. Sorted(L, SharedBefore) = Sorted(L, Before)
    BY <1>1, <1>2, SameOrder
  <2>2. QED
    BY <2>1, BoardsOf DEF S, L
<1>4. CASE Scored(Self) # {}
  <2>1. Self \in Scorers
    BY <1>4, BoardsOf DEF Scorers
  <2>2. Scorers \cup {Self} = Scorers
    BY <2>1
  <2>3. QED
    BY <1>3, <1>4, <2>2
<1>5. CASE Scored(Self) = {}
  <2>1. Self \notin Scorers
    BY <1>5 DEF Scorers
  <2>2. L = S \ {m}
    <3>1. \A u \in Scorers \cup {Self} : SharedRow(u).fan = u
      BY BoardsOf, FansAssumption, SameRow
    <3>2. QED
      BY <2>1, <3>1 DEF RowsOf
  <2>3. PlaceOn(Board, Self) = Cardinality(Ahead(S, m)) + 1
    BY SelfsPlace
  <2> HIDE DEF S, L, m
  <2>4. RemoveAt(Sorted(S, Before), Cardinality(Ahead(S, m)) + 1) = Sorted(S \ {m}, Before)
    BY <1>1, BoardWithout
  <2>5. QED
    BY <1>3, <1>5, <2>2, <2>3, <2>4
<1>6. QED
  BY <1>4, <1>5

LEMMA ReportAgrees ==
  ASSUME ScoresInv
  PROVE  ReportRank(Self) = [rank |-> PlaceOn(Board, Self), size |-> Len(Board)]
<1> DEFINE S == RowsOf(Scorers \cup {Self})
           mine == SharedRow(Self)
           ahead(x) ==
             \/ x.points > mine.points
             \/ x.points = mine.points /\ x.right * Of(mine) > mine.right * Of(x)
             \/ x.points = mine.points /\ x.right * Of(mine) = mine.right * Of(x) /\ x.fan < Self
<1>1. S \in SUBSET Rows /\ mine \in Rows /\ mine.fan = Self
  BY BoardsOf, RowsOfFans, SameRow, FansAssumption
<1>2. RowsOf({s.fan : s \in SharedScores} \cup {Self}) = S
  BY BoardsOf
<1>3. ReportRank(Self) = [rank |-> 1 + Cardinality({x \in S : ahead(x)}), size |-> Cardinality(S)]
  BY <1>2 DEF ReportRank, RowsOf, Of
<1>4. \A x \in S : ahead(x) <=> Before(x, mine)
  BY <1>1 DEF Before, Of
<1> HIDE DEF ahead
<1>5. {x \in S : ahead(x)} = Ahead(S, mine)
  BY <1>4 DEF Ahead
<1>6. Cardinality(Ahead(S, mine)) \in Nat
  <2>1. Ahead(S, mine) \in SUBSET S
    BY DEF Ahead
  <2>2. IsFiniteSet(S)
    BY BoardsOf, RowsOfFans
  <2>3. QED
    BY <2>1, <2>2, FS_Subset, FS_CardinalityType
<1> HIDE DEF S, mine
<1>7. PlaceOn(Board, Self) = Cardinality(Ahead(S, mine)) + 1 /\ Len(Board) = Cardinality(S)
  BY SelfsPlace DEF S, mine
<1>8. 1 + Cardinality(Ahead(S, mine)) = Cardinality(Ahead(S, mine)) + 1
  BY <1>6
<1>9. ReportRank(Self) = [rank |-> 1 + Cardinality(Ahead(S, mine)), size |-> Cardinality(S)]
  BY <1>3, <1>5
<1>10. QED
  BY <1>7, <1>8, <1>9

\* The first is at the hundredth percentile.
LEMMA FirstPercentile ==
  ASSUME NEW n \in Nat \ {0}
  PROVE  Percentile([rank |-> 1, size |-> n]) = 100
<1>1. CASE n <= 1
  BY <1>1 DEF Percentile
<1>2. CASE n > 1
  <2> DEFINE k == n - 1
  <2>1. k \in Nat \ {0}
    BY <1>2
  <2>2. Percentile([rank |-> 1, size |-> n]) = (2 * (100 * k) + k) \div (2 * k)
    BY <1>2 DEF Percentile, Nearest
  <2> HIDE DEF k
  <2>3. 2 * (100 * k) + k = (2 * k) * 100 + k /\ k \in 0 .. 2 * k - 1 /\ 2 * k \in Nat \ {0}
    BY <2>1
  <2>4. \A b \in Nat \ {0} : \A r \in 0 .. b - 1 : (b * 100 + r) \div b = 100
    OBVIOUS
  <2>5. QED
    BY <2>2, <2>3, <2>4
<1>3. QED
  BY <1>1, <1>2

LEMMA InvAgrees == ScoresInv => BoardsAgree
<1> SUFFICES ASSUME ScoresInv PROVE BoardsAgree
  OBVIOUS
<1> DEFINE rank == PlaceOn(Board, Self)
<1>1. Leaderboard = IF Scored(Self) # {} THEN Board ELSE RemoveAt(Board, rank)
  BY BoardIsLeaderboard
<1>2. ReportRank(Self) = [rank |-> rank, size |-> Len(Board)]
  BY ReportAgrees
<1>3. rank = 1 => Percentile(ReportRank(Self)) = 100
  <2>1. rank \in 1 .. Len(Board) /\ Len(Board) \in Nat
    BY SelfsPlace
  <2> HIDE DEF rank
  <2>2. QED
    BY <1>2, <2>1, FirstPercentile
<1>4. \A a \in answers : AnswerOutcome(a).state = SharedReceipt(a)
  BY AnswerAgrees DEF ScoresInv
<1>5. QED
  BY <1>1, <1>2, <1>3, <1>4 DEF BoardsAgree

LEMMA ScoresInvInit == ScoresInit => ScoresInv
BY FS_EmptySet DEF ScoresInit, ScoresInv, ScoresOK

LEMMA ScoresInvNext == ScoresInv /\ [ScoresNext]_scoresVars => ScoresInv'
<1> SUFFICES ASSUME ScoresInv, [ScoresNext]_scoresVars PROVE ScoresInv'
  OBVIOUS
<1> USE DEF ScoresInv
<1>1. ASSUME NEW q \in Questions, NEW x \in Answers \cup {"void"}, Settle(q, x) PROVE ScoresInv'
  BY <1>1 DEF Settle, ScoresOK
<1>2. ASSUME NEW a \in AnswerRecords, Resolve(a) PROVE ScoresInv'
  <2>1. IsFiniteSet(answers')
    BY <1>2, FS_AddElement DEF Resolve
  <2>2. ScoresOK'
    BY <1>2 DEF Resolve, ScoresOK
  <2>3. \A b, c \in answers' : b.fan = c.fan /\ b.question = c.question => b = c
    BY <1>2 DEF Resolve
  <2>4. QED
    BY <2>1, <2>2, <2>3
<1>3. CASE UNCHANGED scoresVars
  BY <1>3 DEF scoresVars, ScoresOK
<1>4. QED
  BY <1>1, <1>2, <1>3 DEF ScoresNext

THEOREM BoardsAlwaysAgree == ScoresSpec => []BoardsAgree
<1>1. ScoresSpec => []ScoresInv
  BY ScoresInvInit, ScoresInvNext, PTL DEF ScoresSpec
<1>2. QED
  BY <1>1, InvAgrees, PTL

=============================================================================
