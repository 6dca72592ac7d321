----------------------------- MODULE FixedView -----------------------------
(***************************************************************************)
(* The view of a book with a fixed layout: a spread of one or two pages,   *)
(* chosen from the sides the spine gives its items, and the three page     *)
(* views (each with an iframe) that load them.                             *)
(*                                                                         *)
(* A request decides on a spread at once and is announced, as a change of  *)
(* pagination, when all of its pages are there. Documents load in any      *)
(* order, and the user does not wait for them.                             *)
(***************************************************************************)
EXTENDS Integers, Sequences, FiniteSetsExt

CONSTANTS
    Spines,      \* the spines to look at: sequences of items
    None,        \* undefined
    MaxRequests  \* bound: pages that are asked for

Sides == {"left", "right", "center"}
Orientations == {"landscape", "portrait"}

(* An item: the side it was given, if any, and where it may be in a spread.*)
ASSUME SpinesAssumption ==
    /\ \A s \in Spines :
           /\ s.rtl \in BOOLEAN
           /\ s.items \in Seq([side : Sides \cup {None},
                               rendition : Orientations \cup {"both", "none"}])
    /\ None \notin Sides \cup Int /\ MaxRequests \in Nat

VARIABLES
    spine,       \* the spine of the book
    orientation, \* of the viewport, as the spread knows it
    synthetic,   \* _isSyntheticSpread
    spread,      \* the item on each side
    current,     \* _currentSpineItem of each page view
    html,        \* it has had a document: _$epubHtml
    loading,     \* its iframe loads
    attached,    \* the document it shows was announced when it was loaded
    waiters,     \* the requests that wait for its SPINE_ITEM_OPENED
    asked,       \* requests made, the latest is the asked-th
    announced,   \* the requests that were announced
    hasty        \* a page was asked for before the last one was there

views == <<current, html, loading, attached, waiters>>
vars == <<spine, orientation, synthetic, spread, views, asked, announced, hasty>>

Items == DOMAIN spine.items

(***************************************************************************)
(* The spine: sides alternate, and a spread starts over after a page that  *)
(* stands alone.                                                           *)
(***************************************************************************)
Base == IF spine.rtl THEN "right" ELSE "left"
Other(side) ==
    CASE side = "left" -> "right" [] side = "right" -> "left" [] OTHER -> side

Side ==
    LET side[i \in Items] ==
            IF spine.items[i].side # None THEN spine.items[i].side
            ELSE IF i > 1 /\ (spine.items[i - 1].rendition = "none" \/ side[i - 1] # Base)
            THEN Base
            ELSE Other(Base)
    IN  side

(***************************************************************************)
(* The spread.                                                             *)
(***************************************************************************)
Permitted(i, o) == spine.items[i].rendition \in {"both", o}

Position(i, o, syn) == IF syn /\ Permitted(i, o) THEN Side[i] ELSE "center"

(* Mutant: only left pages know which way the book goes. *)
NeighboursHalfTurned(i) ==
    LET onwards == IF spine.rtl THEN -1 ELSE 1
    IN  {n \in Items : \/ Side[i] = "left" /\ n = i + onwards
                       \/ Side[i] = "right" /\ n = i - 1}

Neighbours(i) ==
    LET onwards == IF spine.rtl THEN -1 ELSE 1
    IN  {n \in Items : \/ Side[i] = "left" /\ n = i + onwards
                       \/ Side[i] = "right" /\ n = i - onwards}

Spread(i, o, syn) ==
    LET pos == Position(i, o, syn)
    IN  [side \in Sides |->
            IF side = pos THEN i
            ELSE IF pos # "center" /\ \E n \in Neighbours(i) : Position(n, o, syn) = side
            THEN CHOOSE n \in Neighbours(i) : TRUE
            ELSE None]

Shown(s) == {s[side] : side \in Sides} \ {None}

Blank == [side \in Sides |-> None]

Init ==
    /\ spine \in Spines
    /\ orientation \in Orientations
    /\ synthetic \in BOOLEAN
    /\ spread = Blank
    /\ current = Blank
    /\ html = [v \in Sides |-> FALSE]
    /\ loading = [v \in Sides |-> FALSE]
    /\ attached = [v \in Sides |-> FALSE]
    /\ waiters = [v \in Sides |-> {}]
    /\ asked = 0 /\ announced = {} /\ hasty = FALSE

(***************************************************************************)
(* The page views.                                                         *)
(***************************************************************************)
Displaying(v) == current[v] # None /\ html[v]

(* The views of spread s that load, that have its item already, and that   *)
(* are taken off the page.                                                 *)
Fresh(s) == {v \in Sides : s[v] # None /\ s[v] # current[v]}
Same(s) == {v \in Sides : s[v] # None /\ s[v] = current[v]}

(* Mutant: pages that do not belong to the spread stay. *)
GoneNowhere(s) == {}

Gone(s) == {v \in Sides : s[v] = None /\ Displaying(v)}

(* Requests that waited for no other views than those in V, once W wait.   *)
Complete(W, V) ==
    {r \in UNION {W[v] : v \in V} : \A v \in Sides \ V : r \notin W[v]}

(* Mutant: a page that is there already does not say that it is open.      *)
WaitUnheard(s) ==
    /\ waiters' = [v \in Sides |->
           IF s[v] # None THEN waiters[v] \cup {asked'} ELSE waiters[v]]
    /\ UNCHANGED announced

(* The request waits for the pages that load. A page that is there already *)
(* says so at once, and everybody who waited for it is told.               *)
Wait(s) ==
    /\ waiters' = [v \in Sides |->
           IF v \in Fresh(s) THEN waiters[v] \cup {asked'}
           ELSE IF v \in Same(s) THEN {} ELSE waiters[v]]
    /\ announced' = announced \cup Complete(waiters, Same(s))
                              \cup (IF Fresh(s) = {} THEN {asked'} ELSE {})

Redraw(s) ==
    /\ spread' = s
    /\ current' = [v \in Sides |->
           IF v \in Fresh(s) THEN s[v] ELSE IF v \in Gone(s) THEN None ELSE current[v]]
    /\ loading' = [v \in Sides |-> v \in Fresh(s) \/ (loading[v] /\ v \notin Gone(s))]
    /\ attached' = [v \in Sides |-> attached[v] /\ v \notin Fresh(s) \cup Gone(s)]
    /\ asked' = asked + 1
    /\ Wait(s)
    /\ UNCHANGED html

Pending == asked > 0 /\ asked \notin announced

Ask(s) ==
    /\ asked < MaxRequests
    /\ Redraw(s)
    /\ hasty' = (hasty \/ Pending)
    /\ UNCHANGED spine

(***************************************************************************)
(* What the reader asks for.                                               *)
(***************************************************************************)
OpenPage(i) ==
    /\ Ask(Spread(i, orientation, synthetic))
    /\ UNCHANGED <<orientation, synthetic>>

OpenPageNext ==
    /\ Shown(spread) # {}
    /\ Max(Shown(spread)) + 1 \in Items
    /\ OpenPage(Max(Shown(spread)) + 1)

OpenPagePrev ==
    /\ Shown(spread) # {}
    /\ Min(Shown(spread)) - 1 \in Items
    /\ OpenPage(Min(Shown(spread)) - 1)

(* The viewport is turned. What is compared is a spread that knows nothing *)
(* of the setting.                                                         *)
OnViewportResize ==
    \E o \in Orientations \ {orientation} :
        /\ orientation' = o
        /\ LET first == Min(Shown(spread))
               turned == IF Shown(spread) = {} THEN Blank ELSE Spread(first, o, TRUE)
           IN  IF Shown(spread) # {} /\ turned # spread
               THEN Ask(Spread(first, o, synthetic))
               ELSE UNCHANGED <<spine, spread, views, asked, announced, hasty>>
        /\ UNCHANGED synthetic

(* New settings: the first page that is displayed is opened again. *)
UpdateSettings ==
    LET order == IF spine.rtl THEN <<"right", "center", "left">>
                              ELSE <<"left", "center", "right">>
        shown == {k \in 1..3 : Displaying(order[k])}
    IN  /\ shown # {}
        /\ synthetic' \in BOOLEAN
        /\ Ask(Spread(current[order[Min(shown)]], orientation, synthetic'))
        /\ UNCHANGED orientation

(* onIFrameLoad, and the page is told of its new document if anyone waits. *)
OnIFrameLoad(v) ==
    /\ loading[v]
    /\ loading' = [loading EXCEPT ![v] = FALSE]
    /\ html' = [html EXCEPT ![v] = TRUE]
    /\ attached' = [attached EXCEPT ![v] = waiters[v] # {}]
    /\ waiters' = [waiters EXCEPT ![v] = {}]
    /\ announced' = announced \cup Complete(waiters, {v})
    /\ UNCHANGED <<spine, orientation, synthetic, spread, current, asked, hasty>>

Next ==
    \/ OpenPageNext \/ OpenPagePrev
    \/ OnViewportResize
    \/ UpdateSettings
    \/ \E i \in Items : OpenPage(i)
    \/ \E v \in Sides : OnIFrameLoad(v)

(* Documents load in the end. *)
Fairness == \A v \in Sides : WF_vars(OnIFrameLoad(v))

Spec == Init /\ [][Next]_vars /\ Fairness
-----------------------------------------------------------------------------
TypeOK ==
    /\ spread \in [Sides -> Items \cup {None}]
    /\ current \in [Sides -> Items \cup {None}]
    /\ {html, loading, attached} \subseteq [Sides -> BOOLEAN]
    /\ waiters \in [Sides -> SUBSET (1..asked)]
    /\ asked \in 0..MaxRequests /\ announced \subseteq 1..asked

(* When the spread that was asked for is announced, its pages are on the   *)
(* screen with all that is attached to their documents, and no others are. *)
(* Only who asks for a page before the last one is there sees otherwise.   *)
SpreadIsShown ==
    ~Pending /\ ~hasty =>
        \A v \in Sides :
            IF spread[v] = None THEN ~Displaying(v) /\ ~loading[v]
            ELSE /\ current[v] = spread[v]
                 /\ Displaying(v) /\ ~loading[v] /\ attached[v]

(* Even then, the latest request is announced in the end.                  *)
LatestIsAnnounced == Pending ~> ~Pending

(* A page that stands in the centre was put beside one that does not: the   *)
(* place that is tested is that of the page that was asked for, not that of *)
(* its neighbour (fixed_page_spread.js:74).                                 *)
Mispaired(s) == s["center"] # None /\ Shown(s) # {s["center"]}

(* Turning a page forward shows the pages that follow the last one shown,   *)
(* unless it shows one in the centre beside another; and turning back from  *)
(* there shows the spread that was left, unless that did so.                *)
PagesTurn ==
    [][OpenPageNext /\ ~Mispaired(spread') =>
        /\ Min(Shown(spread')) = Max(Shown(spread)) + 1
        /\ ~Mispaired(spread) =>
               Spread(Min(Shown(spread')) - 1, orientation, synthetic) = spread]_vars
=============================================================================
