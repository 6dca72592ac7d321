-------------------------- MODULE FixedViewProofs --------------------------
(***************************************************************************)
(* What is announced is what is shown, for every spine, every number of    *)
(* requests and every order in which documents load. Nothing about the     *)
(* layout is used there: the page views do right by any spread. The second *)
(* half is about the layout: where turning the page forward and back leads.*)
(***************************************************************************)
EXTENDS FixedView, TLAPS, WellFoundedInduction

Types ==
    /\ html \in [Sides -> BOOLEAN]
    /\ loading \in [Sides -> BOOLEAN]
    /\ attached \in [Sides -> BOOLEAN]
    /\ waiters \in [Sides -> SUBSET (1..asked)]
    /\ asked \in Nat
    /\ announced \subseteq 1..asked

(* While nobody was hasty, the views agree with the spread, the latest     *)
(* request is pending as long as a view loads, and it is the only one that *)
(* anybody waits for.                                                      *)
ViewsAgree ==
    \A v \in Sides :
        /\ current[v] = spread[v]
        /\ loading[v] => current[v] # None
        /\ current[v] # None => loading[v] \/ (html[v] /\ attached[v])

OneIsAwaited ==
    /\ \A v \in Sides : waiters[v] = IF loading[v] THEN {asked} ELSE {}
    /\ Pending <=> \E v \in Sides : loading[v]

Calm == Types /\ (~hasty => ViewsAgree /\ OneIsAwaited)
-----------------------------------------------------------------------------
LEMMA InitCalm == Init => Calm
  <1>1. Init => Types
    BY DEF Init, Types
  <1>2. Init => ViewsAgree
    BY DEF Init, ViewsAgree, Blank
  <1>3. Init => OneIsAwaited
    BY DEF Init, OneIsAwaited, Pending
  <1> QED
    BY <1>1, <1>2, <1>3 DEF Calm

(* Whatever the spread, the views keep their types. *)
LEMMA AskTypes ==
    ASSUME Types, NEW s, Ask(s)
    PROVE  Types'
  <1> USE DEF Types
  <1>1. asked' = asked + 1 /\ asked' \in Nat /\ asked' \in 1..asked'
    BY DEF Ask, Redraw
  <1>2. 1..asked \subseteq 1..asked'
    BY <1>1
  <1>3. html' \in [Sides -> BOOLEAN]
    BY DEF Ask, Redraw
  <1>4. loading' \in [Sides -> BOOLEAN]
    <2>1. \A v \in Sides : (v \in Fresh(s) \/ (loading[v] /\ v \notin Gone(s))) \in BOOLEAN
      OBVIOUS
    <2> QED
      BY <2>1 DEF Ask, Redraw
  <1>5. attached' \in [Sides -> BOOLEAN]
    BY DEF Ask, Redraw
  <1>6. waiters' \in [Sides -> SUBSET (1..asked')]
    BY <1>1, <1>2 DEF Ask, Redraw, Wait
  <1>7. Complete(waiters, Same(s)) \subseteq 1..asked
    BY DEF Complete, Same
  <1>8. announced' \subseteq 1..asked'
    BY <1>1, <1>2, <1>7 DEF Ask, Redraw, Wait
  <1> QED
    BY <1>1, <1>3, <1>4, <1>5, <1>6, <1>8

(* A request that is made when the last one is there finds no view loading *)
(* and nobody waiting, so the views agree with the new spread.             *)
LEMMA AskCalm ==
    ASSUME Calm, NEW s, Ask(s)
    PROVE  Calm'
  <1>1. Types'
    BY AskTypes DEF Calm
  <1>2. SUFFICES ASSUME ~hasty' PROVE ViewsAgree' /\ OneIsAwaited'
    BY <1>1 DEF Calm
  <1>3. ~hasty /\ ~Pending
    BY <1>2 DEF Ask
  <1>4. Types /\ ViewsAgree /\ OneIsAwaited
    BY <1>3 DEF Calm
  <1>5. \A v \in Sides : ~loading[v] /\ waiters[v] = {}
    BY <1>3, <1>4 DEF OneIsAwaited
  <1>6. asked' = asked + 1 /\ asked' > 0 /\ asked' \notin announced
    BY <1>4 DEF Types, Ask, Redraw
  <1>7. \A v \in Sides : loading'[v] = (v \in Fresh(s))
    BY <1>5 DEF Ask, Redraw
  <1>8. ViewsAgree'
    <2> SUFFICES ASSUME NEW v \in Sides
                 PROVE  /\ current'[v] = spread'[v]
                        /\ loading'[v] => current'[v] # None
                        /\ current'[v] # None =>
                              loading'[v] \/ (html'[v] /\ attached'[v])
      BY DEF ViewsAgree
    <2>1. /\ spread'[v] = s[v] /\ html'[v] = html[v]
          /\ current'[v] = IF v \in Fresh(s) THEN s[v]
                           ELSE IF v \in Gone(s) THEN None ELSE current[v]
      BY DEF Ask, Redraw
    <2>2. attached'[v] = (attached[v] /\ v \notin Fresh(s) \cup Gone(s))
      BY DEF Ask, Redraw
    <2>3. current[v] # None => html[v] /\ attached[v]
      BY <1>4, <1>5 DEF ViewsAgree
    <2>4. CASE v \in Fresh(s)
      BY <1>7, <2>1, <2>4 DEF Fresh
    <2>5. CASE v \in Gone(s)
      BY <1>7, <2>1, <2>5 DEF Gone, Fresh
    <2>6. CASE v \notin Fresh(s) /\ v \notin Gone(s)
      <3>1. current[v] = s[v]
        BY <2>3, <2>6 DEF Fresh, Gone, Displaying
      <3>2. ~loading'[v]
        BY <1>7, <2>6
      <3>3. current'[v] # None => html'[v] /\ attached'[v]
        BY <2>1, <2>2, <2>3, <2>6
      <3> QED
        BY <2>1, <2>6, <3>1, <3>2, <3>3
    <2> QED
      BY <2>4, <2>5, <2>6
  <1>9. OneIsAwaited'
    <2>1. \A v \in Sides : waiters'[v] = IF loading'[v] THEN {asked'} ELSE {}
      BY <1>5, <1>7 DEF Ask, Redraw, Wait
    <2>2. Complete(waiters, Same(s)) = {}
      BY <1>5 DEF Complete, Same
    <2>3. asked' \in announced' <=> Fresh(s) = {}
      BY <1>6, <2>2 DEF Ask, Redraw, Wait
    <2>4. Fresh(s) = {} <=> ~(\E v \in Sides : loading'[v])
      BY <1>7 DEF Fresh
    <2> QED
      BY <1>6, <2>1, <2>3, <2>4 DEF OneIsAwaited, Pending
  <1> QED
    BY <1>8, <1>9

LEMMA LoadTypes ==
    ASSUME Types, NEW v \in Sides, OnIFrameLoad(v)
    PROVE  Types'
  <1> USE DEF Types
  <1>1. asked' = asked
    BY DEF OnIFrameLoad
  <1>2. html' \in [Sides -> BOOLEAN] /\ loading' \in [Sides -> BOOLEAN]
    BY DEF OnIFrameLoad
  <1>3. attached' \in [Sides -> BOOLEAN]
    BY DEF OnIFrameLoad
  <1>4. waiters' \in [Sides -> SUBSET (1..asked')]
    BY <1>1 DEF OnIFrameLoad
  <1>5. Complete(waiters, {v}) \subseteq 1..asked
    BY DEF Complete
  <1>6. announced' \subseteq 1..asked'
    BY <1>1, <1>5 DEF OnIFrameLoad
  <1> QED
    BY <1>1, <1>2, <1>3, <1>4, <1>6

(* A document that loads finds the latest request waiting for it, and it   *)
(* is the last one the request waits for if no other view loads.           *)
LEMMA LoadCalm ==
    ASSUME Calm, NEW v \in Sides, OnIFrameLoad(v)
    PROVE  Calm'
  <1>1. Types'
    BY LoadTypes DEF Calm
  <1>2. SUFFICES ASSUME ~hasty' PROVE ViewsAgree' /\ OneIsAwaited'
    BY <1>1 DEF Calm
  <1>3. ~hasty
    BY <1>2 DEF OnIFrameLoad
  <1>4. Types /\ ViewsAgree /\ OneIsAwaited
    BY <1>3 DEF Calm
  <1>5. loading[v] /\ waiters[v] = {asked} /\ asked' = asked
    BY <1>4 DEF OnIFrameLoad, OneIsAwaited
  <1>6. /\ ~loading'[v] /\ html'[v] /\ attached'[v] /\ waiters'[v] = {}
        /\ \A w \in Sides \ {v} :
               /\ loading'[w] = loading[w] /\ html'[w] = html[w]
               /\ attached'[w] = attached[w] /\ waiters'[w] = waiters[w]
    BY <1>4, <1>5 DEF OnIFrameLoad, Types
  <1>7. ViewsAgree'
    <2> SUFFICES ASSUME NEW w \in Sides
                 PROVE  /\ current'[w] = spread'[w]
                        /\ loading'[w] => current'[w] # None
                        /\ current'[w] # None =>
                              loading'[w] \/ (html'[w] /\ attached'[w])
      BY DEF ViewsAgree
    <2>1. current' = current /\ spread' = spread
      BY DEF OnIFrameLoad
    <2> QED
      BY <1>4, <1>6, <2>1 DEF ViewsAgree
  <1>8. OneIsAwaited'
    <2>1. \A w \in Sides : waiters'[w] = IF loading'[w] THEN {asked'} ELSE {}
      BY <1>4, <1>5, <1>6 DEF OneIsAwaited
    <2>2. Pending /\ asked > 0 /\ asked \notin announced
      BY <1>4, <1>5 DEF OneIsAwaited, Pending
    <2>3. asked \in Complete(waiters, {v})
            <=> \A w \in Sides \ {v} : asked \notin waiters[w]
      BY <1>5 DEF Complete
    <2>4. \A w \in Sides \ {v} : asked \notin waiters[w] <=> ~loading[w]
      BY <1>4 DEF OneIsAwaited
    <2>5. asked' \in announced' <=> \A w \in Sides \ {v} : ~loading[w]
      BY <1>5, <2>2, <2>3, <2>4 DEF OnIFrameLoad
    <2>6. (\E w \in Sides : loading'[w]) <=> \E w \in Sides \ {v} : loading[w]
      BY <1>6
    <2> QED
      BY <1>5, <2>1, <2>2, <2>5, <2>6 DEF OneIsAwaited, Pending
  <1> QED
    BY <1>7, <1>8

LEMMA SameCalm ==
    ASSUME Calm, UNCHANGED <<spread, views, asked, announced, hasty>>
    PROVE  Calm'
  <1>1. Types'
    BY DEF Calm, Types, views
  <1>2. ViewsAgree => ViewsAgree'
    BY DEF ViewsAgree, views
  <1>3. OneIsAwaited => OneIsAwaited'
    BY DEF OneIsAwaited, Pending, views
  <1> QED
    BY <1>1, <1>2, <1>3 DEF Calm

LEMMA StepCalm == Calm /\ [Next]_vars => Calm'
  <1> SUFFICES ASSUME Calm, [Next]_vars PROVE Calm'
    OBVIOUS
  <1>1. CASE OpenPageNext
    BY <1>1, AskCalm DEF OpenPageNext, OpenPage
  <1>2. CASE OpenPagePrev
    BY <1>2, AskCalm DEF OpenPagePrev, OpenPage
  <1>3. CASE OnViewportResize
    <2>1. \/ Ask(Spread(Min(Shown(spread)), orientation', synthetic))
          \/ UNCHANGED <<spread, views, asked, announced, hasty>>
      BY <1>3 DEF OnViewportResize
    <2> QED
      BY <2>1, AskCalm, SameCalm
  <1>4. CASE UpdateSettings
    <2>1. PICK s : Ask(s)
      BY <1>4 DEF UpdateSettings
    <2> QED
      BY <2>1, AskCalm
  <1>5. CASE \E i \in Items : OpenPage(i)
    BY <1>5, AskCalm DEF OpenPage
  <1>6. CASE \E v \in Sides : OnIFrameLoad(v)
    BY <1>6, LoadCalm
  <1>7. CASE UNCHANGED vars
    BY <1>7, SameCalm DEF vars
  <1> QED
    BY <1>1, <1>2, <1>3, <1>4, <1>5, <1>6, <1>7 DEF Next

LEMMA SpecCalm == Spec => []Calm
  BY InitCalm, StepCalm, PTL DEF Spec

(* Whoever waits for a spread before asking for another sees, when it is   *)
(* announced, exactly its pages, each with what is attached to its         *)
(* document: FixedView.openPage and OnePageView.loadSpineItem.             *)
THEOREM SpecSpreadIsShown == Spec => []SpreadIsShown
  <1>1. Calm => SpreadIsShown
    <2> SUFFICES ASSUME Calm, ~Pending, ~hasty, NEW v \in Sides
                 PROVE  IF spread[v] = None THEN ~Displaying(v) /\ ~loading[v]
                        ELSE /\ current[v] = spread[v]
                             /\ Displaying(v) /\ ~loading[v] /\ attached[v]
      BY DEF SpreadIsShown
    <2>1. ~loading[v]
      BY DEF Calm, OneIsAwaited
    <2> QED
      BY <2>1 DEF Calm, ViewsAgree, Displaying
  <1> QED
    BY <1>1, SpecCalm, PTL
-----------------------------------------------------------------------------
(***************************************************************************)
(* The spine. The sides are defined along it, each from the one before;    *)
(* that there are such sides follows from the first item without one.      *)
(***************************************************************************)
SideOf(sides, i) ==
    IF spine.items[i].side # None THEN spine.items[i].side
    ELSE IF i > 1 /\ (spine.items[i - 1].rendition = "none" \/ sides[i - 1] # Base)
    THEN Base
    ELSE Other(Base)

LEMMA LeastOf ==
    ASSUME NEW T \in SUBSET Nat, T # {}
    PROVE  \E n \in T : \A m \in T : n <= m
  <1> DEFINE R == OpToRel(<, Nat)
  <1>1. \A m, n \in Nat : m < n => <<m, n>> \in R
    BY DEF OpToRel
  <1>2. IsWellFoundedOn(R, Nat)
    BY NatLessThanWellFounded
  <1> HIDE DEF R
  <1>3. PICK n \in T : \A m \in T : ~(<<m, n>> \in R)
    BY <1>2, WFMin
  <1>4. \A m \in T : m \in Nat /\ n \in Nat /\ ~(m < n)
    BY <1>1, <1>3
  <1>5. \A m \in T : n <= m
    BY <1>4
  <1> QED
    BY <1>3, <1>5

LEMMA ItemsAreNumbered ==
    ASSUME spine \in Spines
    PROVE  /\ \E n \in Nat : Items = 1..n
           /\ \A i \in Items :
                  spine.items[i].side \in Sides \cup {None}
           /\ spine.rtl \in BOOLEAN
  <1> DEFINE S == [side : Sides \cup {None},
                   rendition : Orientations \cup {"both", "none"}]
  <1>1. spine.items \in Seq(S) /\ spine.rtl \in BOOLEAN
    BY SpinesAssumption
  <1>2. Len(spine.items) \in Nat /\ Items = 1..Len(spine.items)
    BY <1>1 DEF Items
  <1>3. \A i \in Items : spine.items[i] \in S
    <2> HIDE DEF S
    <2> QED
      BY <1>1, <1>2
  <1>4. \A i \in Items : spine.items[i].side \in Sides \cup {None}
    BY <1>3
  <1> QED
    BY <1>1, <1>2, <1>4

LEMMA SidesExist ==
    ASSUME NEW N \in Nat
    PROVE  \E f : f = [i \in 1..N |-> SideOf(f, i)]
  <1> DEFINE Solved(n) == \E f : f = [i \in 1..n |-> SideOf(f, i)]
             T == {n \in Nat : ~Solved(n)}
  <1> SUFFICES ASSUME N \in T PROVE FALSE
    OBVIOUS
  <1>1. PICK n \in T : \A m \in T : n <= m
    BY LeastOf
  <1>2. n \in Nat /\ ~Solved(n)
    BY <1>1
  <1>3. Solved(0)
    <2> DEFINE f == [i \in 1..0 |-> None]
    <2>1. f = [i \in 1..0 |-> SideOf(f, i)]
      OBVIOUS
    <2> QED
      BY <2>1
  <1>4. n # 0
    BY <1>2, <1>3
  <1>5. n - 1 \in Nat /\ n - 1 \notin T
    BY <1>1, <1>2, <1>4
  <1>6. Solved(n - 1)
    BY <1>5
  <1>7. PICK f : f = [i \in 1..(n - 1) |-> SideOf(f, i)]
    BY <1>6
  <1> DEFINE g == [i \in 1..n |-> SideOf(f, i)]
  <1>8. \A i \in 1..n : SideOf(g, i) = SideOf(f, i)
    <2> SUFFICES ASSUME NEW i \in 1..n PROVE SideOf(g, i) = SideOf(f, i)
      OBVIOUS
    <2>1. i > 1 => i - 1 \in 1..(n - 1) /\ i - 1 \in 1..n
      BY <1>2
    <2>2. i > 1 => f[i - 1] = SideOf(f, i - 1)
      BY <1>7, <2>1
    <2>3. i > 1 => g[i - 1] = SideOf(f, i - 1)
      BY <2>1
    <2> HIDE DEF g
    <2>4. i > 1 => g[i - 1] = f[i - 1]
      BY <2>2, <2>3
    <2> QED
      BY <2>4 DEF SideOf
  <1>9. g = [i \in 1..n |-> SideOf(g, i)]
    BY <1>8
  <1>10. Solved(n)
    BY <1>9
  <1> QED
    BY <1>2, <1>10

LEMMA SideIsDefined ==
    ASSUME spine \in Spines
    PROVE  \A i \in Items : Side[i] = SideOf(Side, i)
  <1>1. \E f : f = [i \in Items |-> SideOf(f, i)]
    BY ItemsAreNumbered, SidesExist
  <1>2. Side = CHOOSE f : f = [i \in Items |-> SideOf(f, i)]
    BY DEF Side, SideOf
  <1>3. Side = [i \in Items |-> SideOf(Side, i)]
    BY <1>1, <1>2
  <1> QED
    BY <1>3

(***************************************************************************)
(* The spread. One that is not mispaired shows one item, or one on the     *)
(* side the book starts from and the next one on the other side, and is    *)
(* the spread of each of them.                                             *)
(***************************************************************************)
Pair(i, o, syn) ==
    /\ {i, i + 1} \subseteq Items
    /\ Position(i, o, syn) = Base /\ Position(i + 1, o, syn) = Other(Base)

OnePage(i, place) == [side \in Sides |-> IF side = place THEN i ELSE None]

TwoPages(i) ==
    [side \in Sides |-> IF side = Base THEN i
                        ELSE IF side = Other(Base) THEN i + 1 ELSE None]

LEMMA Extremes ==
    ASSUME NEW i \in Int
    PROVE  /\ Min({i}) = i /\ Max({i}) = i
           /\ Min({i, i + 1}) = i /\ Max({i, i + 1}) = i + 1
  <1>1. Min({i}) = i /\ Max({i}) = i
    BY DEF Min, Max
  <1>2. \A x \in {i, i + 1} : (\A y \in {i, i + 1} : x <= y) <=> x = i
    OBVIOUS
  <1>3. \A x \in {i, i + 1} : (\A y \in {i, i + 1} : x >= y) <=> x = i + 1
    OBVIOUS
  <1>4. Min({i, i + 1}) = i
    BY <1>2 DEF Min
  <1>5. Max({i, i + 1}) = i + 1
    BY <1>3 DEF Max
  <1> QED
    BY <1>1, <1>4, <1>5

LEMMA Shows ==
    ASSUME spine \in Spines, NEW i \in Int
    PROVE  /\ \A place \in Sides : Shown(OnePage(i, place)) = {i}
           /\ Shown(TwoPages(i)) = {i, i + 1}
  <1>1. i # None /\ i + 1 # None
    BY SpinesAssumption
  <1>2. ASSUME NEW place \in Sides PROVE Shown(OnePage(i, place)) = {i}
    BY <1>1, <1>2 DEF Shown, OnePage
  <1>3. Base \in Sides /\ Other(Base) \in Sides /\ Base # Other(Base)
    BY DEF Base, Other, Sides
  <1>4. /\ TwoPages(i)[Base] = i /\ TwoPages(i)[Other(Base)] = i + 1
        /\ \A side \in Sides : TwoPages(i)[side] \in {i, i + 1, None}
    BY <1>3 DEF TwoPages
  <1>5. Shown(TwoPages(i)) = {i, i + 1}
    BY <1>1, <1>3, <1>4 DEF Shown
  <1> QED
    BY <1>2, <1>5

LEMMA ItemsAreIntegers ==
    ASSUME spine \in Spines
    PROVE  \A i \in Items : i \in Int /\ i > 0
  BY ItemsAreNumbered

LEMMA SideFacts ==
    ASSUME spine \in Spines, NEW i \in Items, NEW o, NEW syn
    PROVE  /\ Position(i, o, syn) \in {Base, Other(Base), "center"}
           /\ Position(i, o, syn) # "center" => Side[i] = Position(i, o, syn)
           /\ {Base, Other(Base)} = Sides \ {"center"} /\ Base # Other(Base)
  <1>1. Side[i] = SideOf(Side, i) /\ spine.items[i].side \in Sides \cup {None}
    BY SideIsDefined, ItemsAreNumbered
  <1>2. Side[i] \in Sides
    BY <1>1 DEF SideOf, Base, Other, Sides
  <1> QED
    BY <1>2 DEF Position, Base, Other, Sides

LEMMA NeighboursOf ==
    ASSUME spine \in Spines, NEW i \in Items
    PROVE  /\ Side[i] = Base => Neighbours(i) = Items \cap {i + 1}
           /\ Side[i] = Other(Base) => Neighbours(i) = Items \cap {i - 1}
  <1>1. i \in Int /\ i - (-1) = i + 1 /\ i + (-1) = i - 1
    BY ItemsAreIntegers
  <1>2. CASE spine.rtl
    BY <1>1, <1>2 DEF Neighbours, Base, Other
  <1>3. CASE ~spine.rtl
    BY <1>1, <1>3 DEF Neighbours, Base, Other
  <1> QED
    BY <1>2, <1>3

LEMMA CentredSpread ==
    ASSUME NEW i, NEW o, NEW syn, Position(i, o, syn) = "center"
    PROVE  Spread(i, o, syn) = OnePage(i, "center")
  BY DEF Spread, OnePage

(* A page on a side and the only one next to it.                           *)
LEMMA SpreadBeside ==
    ASSUME NEW i, NEW n, NEW o, NEW syn, Neighbours(i) = {n},
           Position(i, o, syn) # "center"
    PROVE  Spread(i, o, syn) = [side \in Sides |->
               IF side = Position(i, o, syn) THEN i
               ELSE IF side = Position(n, o, syn) THEN n ELSE None]
  <1> DEFINE other == CHOOSE x \in Neighbours(i) : TRUE
             place == Position(i, o, syn)
             beside(side) == \E x \in Neighbours(i) : Position(x, o, syn) = side
  <1>1. other = n /\ \A side : beside(side) <=> side = Position(n, o, syn)
    OBVIOUS
  <1>2. Spread(i, o, syn) = [side \in Sides |->
            IF side = place THEN i
            ELSE IF place # "center" /\ beside(side) THEN other ELSE None]
    BY DEF Spread
  <1> HIDE DEF other, place, beside
  <1>3. place # "center"
    BY DEF place
  <1>4. Spread(i, o, syn) = [side \in Sides |->
            IF side = place THEN i
            ELSE IF side = Position(n, o, syn) THEN n ELSE None]
    BY <1>1, <1>2, <1>3
  <1> QED
    BY <1>4 DEF place

LEMMA SpreadAlone ==
    ASSUME NEW i, NEW o, NEW syn, Neighbours(i) = {}
    PROVE  Spread(i, o, syn) = OnePage(i, Position(i, o, syn))
  BY DEF Spread, OnePage

LEMMA PairSpread ==
    ASSUME spine \in Spines, NEW i \in Items, NEW o, NEW syn, Pair(i, o, syn)
    PROVE  Spread(i, o, syn) = TwoPages(i) /\ Spread(i + 1, o, syn) = TwoPages(i)
  <1>1. /\ i + 1 \in Items /\ (i + 1) - 1 = i
        /\ Position(i, o, syn) = Base /\ Position(i + 1, o, syn) = Other(Base)
    BY ItemsAreIntegers DEF Pair
  <1>2. /\ Side[i] = Base /\ Side[i + 1] = Other(Base) /\ Base # Other(Base)
        /\ Base # "center" /\ Other(Base) # "center"
    BY <1>1, SideFacts
  <1>3. Neighbours(i) = {i + 1} /\ Neighbours(i + 1) = {i}
    BY <1>1, <1>2, NeighboursOf
  <1>4. Spread(i, o, syn) = TwoPages(i)
    BY <1>1, <1>2, <1>3, SpreadBeside DEF TwoPages
  <1>5. Spread(i + 1, o, syn) = [side \in Sides |->
            IF side = Other(Base) THEN i + 1 ELSE IF side = Base THEN i ELSE None]
    BY <1>1, <1>2, <1>3, SpreadBeside
  <1>6. Spread(i + 1, o, syn) = TwoPages(i)
    BY <1>2, <1>5 DEF TwoPages
  <1> QED
    BY <1>4, <1>6

LEMMA LoneSpread ==
    ASSUME spine \in Spines, NEW k \in Items, NEW o, NEW syn,
           ~Pair(k, o, syn), ~Pair(k - 1, o, syn), ~Mispaired(Spread(k, o, syn))
    PROVE  \E place \in Sides : Spread(k, o, syn) = OnePage(k, place)
  <1> DEFINE pos == Position(k, o, syn)
  <1>1. pos \in {Base, Other(Base), "center"} /\ {Base, Other(Base)} = Sides \ {"center"}
    BY SideFacts
  <1>2. pos \in Sides
    BY <1>1 DEF Sides
  <1>3. k \in Int /\ k + 1 # k /\ k - 1 # k /\ (k - 1) + 1 = k
    BY ItemsAreIntegers
  <1>4. CASE pos = "center"
    BY <1>2, <1>4, CentredSpread
  <1>5. CASE pos # "center"
    <2>1. Side[k] = pos
      BY <1>5, SideFacts
    <2>2. Neighbours(k) = {} \/ \E n \in Items : Neighbours(k) = {n}
      BY <1>1, <1>5, <2>1, NeighboursOf
    <2>3. CASE Neighbours(k) = {}
      BY <1>2, <2>3, SpreadAlone
    <2>4. ASSUME NEW n \in Items, Neighbours(k) = {n}
          PROVE  \E place \in Sides : Spread(k, o, syn) = OnePage(k, place)
      <3> DEFINE beside == Position(n, o, syn)
      <3>1. n = IF pos = Base THEN k + 1 ELSE k - 1
        BY <1>1, <1>5, <2>1, <2>4, NeighboursOf
      <3>2. n # k
        BY <1>3, <3>1
      <3>3. Spread(k, o, syn) = [side \in Sides |->
                IF side = pos THEN k ELSE IF side = beside THEN n ELSE None]
        BY <1>5, <2>4, SpreadBeside
      <3>4. beside \in {Base, Other(Base), "center"}
        BY SideFacts
      <3>5. CASE beside = pos
        <4>1. Spread(k, o, syn) = OnePage(k, pos)
          BY <3>3, <3>5 DEF OnePage
        <4> QED
          BY <1>2, <4>1
      <3>6. CASE beside = "center"
        <4>1. /\ Spread(k, o, syn)["center"] = n /\ Spread(k, o, syn)[pos] = k
              /\ "center" \in Sides
          BY <1>2, <1>5, <3>3, <3>6 DEF Sides
        <4>2. k # None /\ n # None
          BY ItemsAreIntegers, SpinesAssumption
        <4>3. k \in Shown(Spread(k, o, syn))
          BY <1>2, <4>1, <4>2 DEF Shown
        <4> QED
          BY <3>2, <4>1, <4>2, <4>3 DEF Mispaired
      <3>7. CASE beside # pos /\ beside # "center"
        <4>1. CASE pos = Base
          BY <3>1, <3>4, <3>7, <4>1 DEF Pair
        <4>2. CASE pos # Base
          BY <1>1, <1>3, <1>5, <3>1, <3>4, <3>7, <4>2 DEF Pair
        <4> QED
          BY <4>1, <4>2
      <3> QED
        BY <3>5, <3>6, <3>7
    <2> QED
      BY <2>2, <2>3, <2>4
  <1> QED
    BY <1>4, <1>5

(* The first of a pair is the last page of no spread.                      *)
LEMMA FirstIsNotLast ==
    ASSUME spine \in Spines, NEW k \in Items, NEW o, NEW syn,
           NEW m \in Items, Pair(m, o, syn), m \in Shown(Spread(k, o, syn)), k <= m
    PROVE  m + 1 \in Shown(Spread(k, o, syn))
  <1>1. /\ k \in Int /\ m \in Int /\ m + 1 \in Int
        /\ Position(m, o, syn) = Base /\ Base # "center"
    BY ItemsAreIntegers, SideFacts DEF Pair
  <1>2. CASE k = m
    <2>1. Spread(k, o, syn) = TwoPages(m)
      BY <1>2, PairSpread
    <2> QED
      BY <1>1, <2>1, Shows
  <1>3. CASE k # m
    <2> DEFINE pos == Position(k, o, syn)
    <2>1. pos # "center"
      <3> SUFFICES ASSUME pos = "center" PROVE FALSE
        OBVIOUS
      <3>1. Shown(Spread(k, o, syn)) = {k}
        BY <1>1, CentredSpread, Shows DEF Sides
      <3> QED
        BY <1>3, <3>1
    <2>2. Side[k] = pos /\ pos \in {Base, Other(Base)}
      BY <2>1, SideFacts
    <2>3. CASE pos = Base
      <3>1. Neighbours(k) = Items \cap {k + 1}
        BY <2>2, <2>3, NeighboursOf
      <3>2. CASE k + 1 \in Items
        <4>1. Neighbours(k) = {k + 1}
          BY <3>1, <3>2
        <4>2. Spread(k, o, syn) = [side \in Sides |->
                  IF side = Base THEN k
                  ELSE IF side = Position(k + 1, o, syn) THEN k + 1 ELSE None]
          <5>1. Position(k, o, syn) = Base
            BY <2>3
          <5>2. Spread(k, o, syn) = [side \in Sides |->
                    IF side = Position(k, o, syn) THEN k
                    ELSE IF side = Position(k + 1, o, syn) THEN k + 1 ELSE None]
            <6>1. PICK n : n = k + 1
              OBVIOUS
            <6>2. Neighbours(k) = {n} /\ Position(k, o, syn) # "center"
              BY <2>1, <4>1, <6>1
            <6>3. Spread(k, o, syn) = [side \in Sides |->
                      IF side = Position(k, o, syn) THEN k
                      ELSE IF side = Position(n, o, syn) THEN n ELSE None]
              BY <6>2, SpreadBeside
            <6> QED
              BY <6>1, <6>3
          <5> QED
            BY <5>1, <5>2, Zenon
        <4>3. m = k + 1
          BY <1>3, <1>1, <4>2, SpinesAssumption DEF Shown
        <4>4. Spread(k, o, syn) = OnePage(k, Base)
          BY <1>1, <4>2, <4>3 DEF OnePage
        <4>5. Shown(Spread(k, o, syn)) = {k}
          BY <1>1, <2>1, <2>3, <4>4, Shows, SideFacts
        <4> QED
          BY <1>3, <4>5
      <3>3. CASE k + 1 \notin Items
        <4>1. Spread(k, o, syn) = OnePage(k, Base)
          BY <2>3, <3>1, <3>3, SpreadAlone
        <4>2. Shown(Spread(k, o, syn)) = {k}
          BY <1>1, <4>1, Shows, SideFacts
        <4> QED
          BY <1>3, <4>2
      <3> QED
        BY <3>2, <3>3
    <2>4. CASE pos = Other(Base)
      <3>1. Neighbours(k) \subseteq {k - 1}
        BY <2>2, <2>4, NeighboursOf
      <3>2. \A j \in Shown(Spread(k, o, syn)) : j = k \/ j = k - 1
        <4> DEFINE other == CHOOSE x \in Neighbours(k) : TRUE
                   beside(side) == \E x \in Neighbours(k) : Position(x, o, syn) = side
        <4>1. \A side : beside(side) => other = k - 1
          BY <3>1
        <4>2. Spread(k, o, syn) = [side \in Sides |->
                  IF side = pos THEN k
                  ELSE IF pos # "center" /\ beside(side) THEN other ELSE None]
          BY DEF Spread
        <4> HIDE DEF other, beside, pos
        <4> QED
          BY <4>1, <4>2 DEF Shown
      <3> QED
        BY <1>1, <1>3, <3>2
    <2> QED
      BY <2>2, <2>3, <2>4
  <1> QED
    BY <1>2, <1>3

(* What a spread that is not mispaired shows, and whose spread it is.      *)
LEMMA SpreadShows ==
    ASSUME spine \in Spines, NEW k \in Items, NEW o, NEW syn,
           ~Mispaired(Spread(k, o, syn))
    PROVE  \E i \in Items :
               /\ \/ Shown(Spread(k, o, syn)) = {i} /\ i = k
                  \/ Shown(Spread(k, o, syn)) = {i, i + 1} /\ Pair(i, o, syn)
               /\ \A j \in Shown(Spread(k, o, syn)) :
                      j \in Items /\ Spread(j, o, syn) = Spread(k, o, syn)
  <1>1. k \in Int /\ (k - 1) + 1 = k
    BY ItemsAreIntegers
  <1>2. ASSUME NEW i \in Items, Pair(i, o, syn), Spread(k, o, syn) = TwoPages(i)
        PROVE  /\ Shown(Spread(k, o, syn)) = {i, i + 1}
               /\ \A j \in Shown(Spread(k, o, syn)) :
                      j \in Items /\ Spread(j, o, syn) = Spread(k, o, syn)
    <2>1. Shown(Spread(k, o, syn)) = {i, i + 1}
      BY <1>2, ItemsAreIntegers, Shows
    <2>2. i + 1 \in Items
      BY <1>2 DEF Pair
    <2>3. Spread(i, o, syn) = TwoPages(i) /\ Spread(i + 1, o, syn) = TwoPages(i)
      BY <1>2, PairSpread
    <2> QED
      BY <1>2, <2>1, <2>2, <2>3
  <1>3. CASE Pair(k, o, syn)
    BY <1>2, <1>3, PairSpread
  <1>4. CASE Pair(k - 1, o, syn)
    <2>1. k - 1 \in Items
      BY <1>4 DEF Pair
    <2>2. Spread((k - 1) + 1, o, syn) = TwoPages(k - 1)
      BY <1>4, <2>1, PairSpread
    <2>3. Spread(k, o, syn) = TwoPages(k - 1)
      BY <1>1, <2>2
    <2> QED
      BY <1>2, <1>4, <2>1, <2>3
  <1>5. CASE ~Pair(k, o, syn) /\ ~Pair(k - 1, o, syn)
    <2>1. PICK place \in Sides : Spread(k, o, syn) = OnePage(k, place)
      BY <1>5, LoneSpread
    <2>2. Shown(Spread(k, o, syn)) = {k}
      BY <1>1, <2>1, Shows
    <2> QED
      BY <2>2
  <1> QED
    BY <1>3, <1>4, <1>5

(* From any spread, the next page begins a spread of its own, and the last *)
(* page of the spread has that spread.                                     *)
LEMMA SpreadsFollow ==
    ASSUME spine \in Spines, NEW o, NEW syn, NEW k \in Items,
           NEW m, m = Max(Shown(Spread(k, o, syn))), m + 1 \in Items,
           m \in Shown(Spread(k, o, syn)), m \in Items,
           \A j \in Shown(Spread(k, o, syn)) : j <= m,
           ~Mispaired(Spread(m + 1, o, syn))
    PROVE  /\ Min(Shown(Spread(m + 1, o, syn))) = m + 1
           /\ ~Mispaired(Spread(k, o, syn)) => Spread(m, o, syn) = Spread(k, o, syn)
  <1>1. k \in Int /\ m \in Int /\ m + 1 \in Int /\ ~(m + 1 <= m)
    BY ItemsAreIntegers
  <1>2. ~Mispaired(Spread(k, o, syn)) => Spread(m, o, syn) = Spread(k, o, syn)
    BY SpreadShows
  <1>3. k \in Shown(Spread(k, o, syn))
    <2>1. Position(k, o, syn) \in Sides
      BY SideFacts DEF Sides
    <2>2. Spread(k, o, syn)[Position(k, o, syn)] = k
      BY <2>1 DEF Spread
    <2>3. k # None
      BY <1>1, SpinesAssumption
    <2> QED
      BY <2>1, <2>2, <2>3 DEF Shown
  <1>4. ~Pair(m, o, syn)
    BY <1>1, <1>3, FirstIsNotLast
  <1>5. PICK i \in Items :
            \/ Shown(Spread(m + 1, o, syn)) = {i} /\ i = m + 1
            \/ /\ Shown(Spread(m + 1, o, syn)) = {i, i + 1} /\ Pair(i, o, syn)
               /\ m + 1 \in {i, i + 1}
    <2>1. m + 1 \in Shown(Spread(m + 1, o, syn))
      <3>1. Position(m + 1, o, syn) \in Sides
        BY SideFacts DEF Sides
      <3>2. Spread(m + 1, o, syn)[Position(m + 1, o, syn)] = m + 1
        BY <3>1 DEF Spread
      <3>3. m + 1 # None
        BY <1>1, SpinesAssumption
      <3> QED
        BY <3>1, <3>2, <3>3 DEF Shown
    <2> QED
      BY <2>1, SpreadShows
  <1>6. i = m + 1
    <2>1. i \in Int /\ (i + 1 = m + 1 => i = m)
      BY <1>1, ItemsAreIntegers
    <2> QED
      BY <1>4, <1>5, <2>1
  <1>7. Min(Shown(Spread(m + 1, o, syn))) = m + 1
    BY <1>1, <1>5, <1>6, Extremes
  <1> QED
    BY <1>2, <1>7
-----------------------------------------------------------------------------
(***************************************************************************)
(* The spread that is shown is always one of the book's, as the viewport   *)
(* and the settings make it: whatever changes them asks for it anew, or    *)
(* leaves one that is a spread under the new ones as well.                 *)
(***************************************************************************)
PageTypes ==
    /\ spine \in Spines
    /\ synthetic \in BOOLEAN
    /\ spread \in [Sides -> Items \cup {None}]
    /\ current \in [Sides -> Items \cup {None}]
    /\ asked \in 0..MaxRequests

OfTheBook ==
    Shown(spread) = {}
        \/ \E k \in Items : spread = Spread(k, orientation, synthetic)

PagesInv == PageTypes /\ OfTheBook

LEMMA SpreadTyped ==
    ASSUME NEW i \in Items, NEW o, NEW syn
    PROVE  Spread(i, o, syn) \in [Sides -> Items \cup {None}]
  <1> DEFINE other == CHOOSE n \in Neighbours(i) : TRUE
  <1>1. Neighbours(i) # {} => other \in Items
    BY DEF Neighbours
  <1>2. Spread(i, o, syn) = [side \in Sides |->
            IF side = Position(i, o, syn) THEN i
            ELSE IF /\ Position(i, o, syn) # "center"
                    /\ \E n \in Neighbours(i) : Position(n, o, syn) = side
            THEN other ELSE None]
    BY DEF Spread
  <1> HIDE DEF other
  <1> QED
    BY <1>1, <1>2

LEMMA FirstShown ==
    ASSUME PageTypes, Shown(spread) # {}
    PROVE  Min(Shown(spread)) \in Items
  <1>1. Shown(spread) \in SUBSET Items /\ Items \subseteq Nat
    BY ItemsAreNumbered DEF PageTypes, Shown
  <1>2. \E n \in Shown(spread) : \A m \in Shown(spread) : n <= m
    BY <1>1, LeastOf
  <1> QED
    BY <1>1, <1>2 DEF Min

LEMMA AskPages ==
    ASSUME PageTypes, NEW s \in [Sides -> Items \cup {None}], Ask(s),
           synthetic' \in BOOLEAN
    PROVE  PageTypes' /\ spread' = s /\ Items' = Items /\ spine' = spine
  <1>1. spine' = spine /\ spread' = s /\ asked' = asked + 1 /\ asked < MaxRequests
    BY DEF Ask, Redraw
  <1>2. Items' = Items
    BY <1>1 DEF Items
  <1>3. current' \in [Sides -> Items \cup {None}]
    <2>1. current' = [v \in Sides |->
              IF v \in Fresh(s) THEN s[v]
              ELSE IF v \in Gone(s) THEN None ELSE current[v]]
      BY DEF Ask, Redraw
    <2> QED
      BY <2>1 DEF PageTypes
  <1>4. asked' \in 0..MaxRequests
    BY <1>1, SpinesAssumption DEF PageTypes
  <1> QED
    BY <1>1, <1>2, <1>3, <1>4 DEF PageTypes

LEMMA SameSpine ==
    ASSUME NEW i, spine' = spine
    PROVE  Spread(i, orientation, synthetic)'
               = Spread(i, orientation', synthetic')
  <1>1. Items' = Items
    BY DEF Items
  <1>2. Side' = Side
    BY <1>1, Zenon DEF Side, Items, Base
  <1>3. Neighbours(i)' = Neighbours(i)
    BY <1>1, <1>2 DEF Neighbours
  <1> QED
    BY <1>1, <1>2, <1>3 DEF Spread, Position, Permitted

LEMMA AskOfTheBook ==
    ASSUME PagesInv, NEW i \in Items, Ask(Spread(i, orientation', synthetic')),
           synthetic' \in BOOLEAN
    PROVE  PagesInv'
  <1> DEFINE s == Spread(i, orientation', synthetic')
  <1>1. s \in [Sides -> Items \cup {None}]
    BY SpreadTyped
  <1>2. PageTypes' /\ spread' = s /\ Items' = Items /\ spine' = spine
    BY <1>1, AskPages DEF PagesInv
  <1>3. Spread(i, orientation, synthetic)' = s
    BY <1>2, SameSpine
  <1>4. OfTheBook'
    BY <1>2, <1>3 DEF OfTheBook
  <1> QED
    BY <1>2, <1>4 DEF PagesInv
(* A turned viewport whose spread stays: with spreads of two pages it is   *)
(* the one the turned viewport has, and without them the viewport is of no *)
(* account.                                                                *)
LEMMA TurnedOfTheBook ==
    ASSUME PagesInv, spine' = spine, spread' = spread, synthetic' = synthetic,
           \/ Shown(spread) = {}
           \/ Spread(Min(Shown(spread)), orientation', TRUE) = spread
    PROVE  OfTheBook'
  <1>1. Items' = Items /\ Shown(spread)' = Shown(spread)
    BY DEF Items, Shown
  <1>2. ASSUME NEW i \in Items, Spread(i, orientation', synthetic) = spread
        PROVE  OfTheBook'
    <2>1. Spread(i, orientation, synthetic)' = spread'
      BY <1>2, SameSpine
    <2> QED
      BY <1>1, <2>1 DEF OfTheBook
  <1>3. CASE Shown(spread) = {}
    BY <1>1, <1>3 DEF OfTheBook
  <1>4. CASE Shown(spread) # {}
    <2>1. Min(Shown(spread)) \in Items
      BY <1>4, FirstShown DEF PagesInv
    <2>2. Spread(Min(Shown(spread)), orientation', TRUE) = spread
      BY <1>4
    <2>3. CASE synthetic = TRUE
      BY <1>2, <2>1, <2>2, <2>3
    <2>4. CASE synthetic = FALSE
      <3>1. PICK k \in Items : spread = Spread(k, orientation, FALSE)
        BY <1>4, <2>4 DEF PagesInv, OfTheBook
      <3>2. /\ Spread(k, orientation, FALSE) = OnePage(k, "center")
            /\ Spread(k, orientation', FALSE) = OnePage(k, "center")
        BY CentredSpread DEF Position
      <3> QED
        BY <1>2, <2>4, <3>1, <3>2
    <2> QED
      BY <2>3, <2>4 DEF PagesInv, PageTypes
  <1> QED
    BY <1>3, <1>4

LEMMA StillOfTheBook ==
    ASSUME PagesInv,
           UNCHANGED <<spine, orientation, synthetic, spread, current, asked>>
    PROVE  PagesInv'
  <1>1. Items' = Items /\ Shown(spread)' = Shown(spread)
    BY DEF Items, Shown
  <1>2. \A i : Spread(i, orientation, synthetic)'
                   = Spread(i, orientation, synthetic)
    BY SameSpine
  <1> QED
    BY <1>1, <1>2 DEF PagesInv, PageTypes, OfTheBook

LEMMA StepPages == PagesInv /\ [Next]_vars => PagesInv'
  <1> SUFFICES ASSUME PagesInv, [Next]_vars PROVE PagesInv'
    OBVIOUS
  <1>1. ASSUME NEW i \in Items, OpenPage(i) PROVE PagesInv'
    <2>1. /\ orientation' = orientation /\ synthetic' = synthetic
          /\ Ask(Spread(i, orientation, synthetic))
      BY <1>1 DEF OpenPage
    <2>2. Ask(Spread(i, orientation', synthetic')) /\ synthetic' \in BOOLEAN
      BY <2>1 DEF PagesInv, PageTypes
    <2> QED
      BY <2>2, AskOfTheBook
  <1>2. CASE OpenPageNext
    BY <1>1, <1>2 DEF OpenPageNext
  <1>3. CASE OpenPagePrev
    BY <1>1, <1>3 DEF OpenPagePrev
  <1>4. CASE OnViewportResize
    <2>1. synthetic' = synthetic
      BY <1>4 DEF OnViewportResize
    <2>2. CASE /\ Shown(spread) # {}
               /\ Ask(Spread(Min(Shown(spread)), orientation', synthetic))
      <3>1. Min(Shown(spread)) \in Items
        BY <2>2, FirstShown DEF PagesInv
      <3>2. /\ Ask(Spread(Min(Shown(spread)), orientation', synthetic'))
            /\ synthetic' \in BOOLEAN
        BY <2>1, <2>2 DEF PagesInv, PageTypes
      <3> QED
        BY <3>1, <3>2, AskOfTheBook
    <2>3. CASE /\ UNCHANGED <<spine, spread, views, asked, announced, hasty>>
               /\ \/ Shown(spread) = {}
                  \/ Spread(Min(Shown(spread)), orientation', TRUE) = spread
      <3>1. OfTheBook'
        BY <2>1, <2>3, TurnedOfTheBook
      <3>2. PageTypes'
        BY <2>1, <2>3 DEF PagesInv, PageTypes, Items, views
      <3> QED
        BY <3>1, <3>2 DEF PagesInv
    <2> QED
      BY <1>4, <2>2, <2>3 DEF OnViewportResize
  <1>5. CASE UpdateSettings
    <2> DEFINE order == IF spine.rtl THEN <<"right", "center", "left">>
                                     ELSE <<"left", "center", "right">>
               shown == {k \in 1..3 : Displaying(order[k])}
    <2>1. /\ shown # {} /\ synthetic' \in BOOLEAN /\ orientation' = orientation
          /\ Ask(Spread(current[order[Min(shown)]], orientation, synthetic'))
      BY <1>5 DEF UpdateSettings
    <2>2. Min(shown) \in shown
      <3>1. shown \in SUBSET Nat
        OBVIOUS
      <3> HIDE DEF shown
      <3> QED
        BY <2>1, <3>1, LeastOf DEF Min
    <2>3. \A k \in 1..3 : order[k] \in Sides
      BY DEF Sides
    <2>4. \A k \in shown : current[order[k]] \in Items
      BY <2>3 DEF Displaying, PagesInv, PageTypes
    <2> HIDE DEF order, shown
    <2>5. current[order[Min(shown)]] \in Items
      BY <2>2, <2>4
    <2>6. Ask(Spread(current[order[Min(shown)]], orientation', synthetic'))
      BY <2>1
    <2> QED
      BY <2>1, <2>5, <2>6, AskOfTheBook
  <1>6. CASE \E i \in Items : OpenPage(i)
    BY <1>1, <1>6
  <1>7. CASE \E v \in Sides : OnIFrameLoad(v)
    <2>1. UNCHANGED <<spine, orientation, synthetic, spread, current, asked>>
      BY <1>7 DEF OnIFrameLoad
    <2> QED
      BY <2>1, StillOfTheBook
  <1>8. CASE UNCHANGED vars
    BY <1>8, StillOfTheBook DEF vars, views
  <1> QED
    BY <1>2, <1>3, <1>4, <1>5, <1>6, <1>7, <1>8 DEF Next

LEMMA InitPages == Init => PagesInv
  <1> SUFFICES ASSUME Init PROVE PagesInv
    OBVIOUS
  <1>1. Shown(spread) = {}
    BY DEF Init, Shown, Blank
  <1>2. asked \in 0..MaxRequests
    BY SpinesAssumption DEF Init
  <1> QED
    BY <1>1, <1>2 DEF Init, Blank, PagesInv, PageTypes, OfTheBook

LEMMA SpecPages == Spec => []PagesInv
  BY InitPages, StepPages, PTL DEF Spec

(* Whatever is asked for, and whenever its documents load, the spread and  *)
(* the views hold items of the book and the requests that wait were made.  *)
THEOREM SpecTypes == Spec => []TypeOK
  <1>1. PagesInv /\ Calm => TypeOK
    BY DEF PagesInv, PageTypes, Calm, Types, TypeOK
  <1> QED
    BY <1>1, SpecPages, SpecCalm, PTL

LEMMA LastShown ==
    ASSUME PageTypes, Shown(spread) # {}
    PROVE  /\ Max(Shown(spread)) \in Shown(spread) /\ Max(Shown(spread)) \in Items
           /\ \A j \in Shown(spread) : j <= Max(Shown(spread))
  <1>1. Shown(spread) \in SUBSET Items /\ Items \subseteq Nat
    BY ItemsAreNumbered DEF PageTypes, Shown
  <1>2. \E n \in Shown(spread) : \A m \in Shown(spread) : m <= n
    <2>1. PICK L \in Nat : Items = 1..L
      BY ItemsAreNumbered DEF PageTypes
    <2> DEFINE S == {L - n : n \in Shown(spread)}
    <2>2. S \in SUBSET Nat /\ S # {}
      BY <1>1, <2>1
    <2>3. PICK l \in S : \A x \in S : l <= x
      BY <2>2, LeastOf
    <2>4. PICK n \in Shown(spread) : l = L - n
      BY <2>3
    <2>5. ASSUME NEW m \in Shown(spread) PROVE m <= n
      <3>1. L - n <= L - m
        BY <2>3, <2>4
      <3> QED
        BY <1>1, <2>1, <3>1
    <2> QED
      BY <2>5
  <1>3. Max(Shown(spread)) \in Shown(spread)
            /\ \A j \in Shown(spread) : Max(Shown(spread)) >= j
    BY <1>1, <1>2 DEF Max
  <1> QED
    BY <1>1, <1>3

(* Turning forward shows the pages that follow and turning back from there *)
(* shows the spread that was left, in every book, as long as no page in    *)
(* the centre is put beside another: Spread.openNext and Spread.openPrev   *)
(* with the neighbours that Spine.nextItem and Spine.prevItem give.        *)
THEOREM SpecPagesTurn == Spec => PagesTurn
  <1> DEFINE Turned == OpenPageNext /\ ~Mispaired(spread') =>
                 /\ Min(Shown(spread')) = Max(Shown(spread)) + 1
                 /\ ~Mispaired(spread) =>
                      Spread(Min(Shown(spread')) - 1, orientation, synthetic)
                          = spread
  <1>1. ASSUME PagesInv, OpenPageNext, ~Mispaired(spread')
        PROVE  /\ Min(Shown(spread')) = Max(Shown(spread)) + 1
               /\ ~Mispaired(spread) =>
                      Spread(Min(Shown(spread')) - 1, orientation, synthetic)
                          = spread
    <2> DEFINE m == Max(Shown(spread))
    <2>1. Shown(spread) # {} /\ m + 1 \in Items
      BY <1>1 DEF OpenPageNext
    <2>2. PICK k \in Items : spread = Spread(k, orientation, synthetic)
      BY <1>1, <2>1 DEF PagesInv, OfTheBook
    <2>3. m = Max(Shown(Spread(k, orientation, synthetic)))
      BY <2>2
    <2>4. spread' = Spread(m + 1, orientation, synthetic)
      BY <1>1 DEF OpenPageNext, OpenPage, Ask, Redraw
    <2>5. /\ m \in Shown(spread) /\ m \in Items
          /\ \A j \in Shown(spread) : j <= m
      BY <1>1, <2>1, LastShown DEF PagesInv
    <2> HIDE DEF m
    <2>6. spine \in Spines
      BY <1>1 DEF PagesInv, PageTypes
    <2>7. /\ Min(Shown(Spread(m + 1, orientation, synthetic))) = m + 1
          /\ ~Mispaired(Spread(k, orientation, synthetic))
                 => Spread(m, orientation, synthetic) = Spread(k, orientation, synthetic)
      BY <1>1, <2>1, <2>2, <2>3, <2>4, <2>5, <2>6, SpreadsFollow
    <2>8. (m + 1) - 1 = m
      BY <2>5, <2>6, ItemsAreIntegers
    <2> QED
      BY <2>2, <2>4, <2>7, <2>8 DEF m
  <1>2. PagesInv /\ [Next]_vars => [Turned]_vars
    BY <1>1
  <1> QED
    BY <1>2, SpecPages, PTL DEF Spec, PagesTurn
=============================================================================
