-------------------------- MODULE MediaOverlayProofs --------------------------
(***************************************************************************)
(* The media overlay player, for every book, whatever the user does and in *)
(* whatever order timers, events and pages come. The first part is about   *)
(* the audio element and the pages, which nothing leads astray; the second *)
(* about what the player has on its way while nobody disturbs it.          *)
(***************************************************************************)
EXTENDS MediaOverlay, TLAPS, WellFoundedInduction

(* What may be asked of the player: a place within a file.                 *)
Requests == {r \in Files \X Nat : r[2] < Length[r[1]]}

Request(p) == <<Book[p].file, Book[p].begin>>

(* The audio element seeks or plays, and stays within its file.            *)
ElementOK ==
    /\ file \in Files \cup {None}
    /\ seek \in Nat \cup {None} /\ position \in Nat
    /\ timer \in BOOLEAN /\ running \in BOOLEAN /\ ended \in BOOLEAN
    /\ waiting \in Seq(Requests)
    /\ seek # None => file # None /\ ~running /\ ~ended /\ seek < Length[file]
    /\ file # None => position <= Length[file]
    /\ running => file # None /\ position < Length[file]
    /\ timer \/ ended => file # None

(* A page that was asked for shows the par it is opened for, one that is   *)
(* asked for without a par is a page of the document that is shown, and    *)
(* only another document loads.                                            *)
PageOK(o, d) ==
    /\ o \in Pages \cup {None}
    /\ o # None =>
           /\ o.to # None => o.own /\ Book[o.to].doc = o.doc
           /\ o.own /\ o.to = None => o.doc = d
           /\ o.loading => o.doc # d

OverlayOK ==
    /\ par \in Pars \cup {None} /\ highlighted \in Pars \cup {None}
    /\ skipEnded \in BOOLEAN /\ wasPlaying \in BOOLEAN
    /\ doc \in Docs /\ PageOK(opening, doc)
    /\ commands \in Nat
    /\ wanted \in BOOLEAN /\ astray \in BOOLEAN /\ heard \in BOOLEAN

OutIsHeard == Out => heard
-----------------------------------------------------------------------------
(* The book.                                                               *)

LEMMA BookFacts ==
    ASSUME NEW p \in Pars
    PROVE  /\ p \in Nat
           /\ Book[p].smil \in Nat /\ Book[p].doc \in Docs /\ Book[p].file \in Files
           /\ Book[p].begin \in Nat /\ Book[p].end \in Nat
           /\ Book[p].begin < Book[p].end
           /\ Book[p].begin < Length[Book[p].file]
           /\ Request(p) \in Requests
           /\ p # None
  <1>1. /\ p \in Nat
        /\ Book[p].smil \in Nat /\ Book[p].doc \in Docs /\ Book[p].file \in Files
        /\ Book[p].begin \in Nat /\ Book[p].end \in Nat
        /\ Book[p].begin < Book[p].end
        /\ Book[p].begin < Length[Book[p].file]
    BY BookAssumption
  <1>2. Request(p) \in Requests
    BY <1>1 DEF Request, Requests
  <1>3. p # None
    BY <1>1, BookAssumption
  <1> QED
    BY <1>1, <1>2, <1>3

LEMMA LengthFacts ==
    ASSUME NEW f \in Files
    PROVE  Length[f] \in Nat /\ 0 < Length[f] /\ f # None
BY BookAssumption

LEMMA NewPage ==
    ASSUME NEW p \in Pars \cup {None}, NEW d \in Docs, NEW own \in BOOLEAN
    PROVE  /\ Page(p, d, own) \in Pages
           /\ Page(p, d, own) # None
           /\ Page(p, d, own).to = p /\ Page(p, d, own).doc = d
           /\ Page(p, d, own).own = own /\ Page(p, d, own).loading = FALSE
  <1>1. Page(p, d, own) \in Pages
    BY DEF Page, Pages
  <1>2. None \notin Pages
    BY BookAssumption
  <1> QED
    BY <1>1, <1>2 DEF Page

LEMMA PageFields ==
    ASSUME NEW o \in Pages
    PROVE  /\ o.to \in Pars \cup {None} /\ o.doc \in Docs
           /\ o.own \in BOOLEAN /\ o.loading \in BOOLEAN
           /\ o # None
  <1>1. None \notin Pages
    BY BookAssumption
  <1> QED
    BY <1>1 DEF Pages

LEMMA LeastOf ==
    ASSUME NEW T \in SUBSET Nat, T # {}
    PROVE  \E n \in T : \A m \in T : n <= m
  <1> DEFINE R == OpToRel(<, Nat)
  <1>1. \A m, n \in Nat : m < n => <<m, n>> \in R
    BY DEF OpToRel
  <1>2. IsWellFoundedOn(R, Nat)
    BY NatLessThanWellFounded
  <1> HIDE DEF R
  <1>3. PICK n \in T : \A m \in T : ~(<<m, n>> \in R)
    BY <1>2, WFMin
  <1>4. \A m \in T : m \in Nat /\ n \in Nat /\ ~(m < n)
    BY <1>1, <1>3
  <1>5. \A m \in T : n <= m
    BY <1>4
  <1> QED
    BY <1>3, <1>5

(* The nearest par of a set there is: the first one when going forward.    *)
LEMMA NearestIn ==
    ASSUME NEW S \in SUBSET Pars, S # {}, NEW forward \in BOOLEAN
    PROVE  /\ Nearest(S, forward) \in S
           /\ forward => \A q \in S : Nearest(S, forward) <= q
  <1> DEFINE N == Len(Book)
  <1>1. N \in Nat /\ Pars = 1..N
    BY BookAssumption
  <1> HIDE DEF N
  <1>2. S \in SUBSET Nat
    BY <1>1
  <1>3. CASE forward
    <2>1. PICK n \in S : \A m \in S : n <= m
      BY <1>2, LeastOf
    <2>2. Min(S) \in S /\ \A m \in S : Min(S) <= m
      BY <2>1 DEF Min
    <2> QED
      BY <2>2, <1>3 DEF Nearest
  <1>4. CASE ~forward
    <2> DEFINE D == {N - m : m \in S}
    <2>0. \A m \in S : N - m \in Nat
      BY <1>1
    <2> PICK s \in S : TRUE
      OBVIOUS
    <2>1. D \in SUBSET Nat /\ N - s \in D
      BY <2>0
    <2>2. PICK k \in D : \A j \in D : k <= j
      BY <2>1, LeastOf
    <2>3. PICK n \in S : k = N - n
      BY <2>2
    <2>4. \A m \in S : N - n <= N - m
      BY <2>2, <2>3
    <2>5. \A m \in S : m <= n
      BY <2>4, <1>1, <1>2
    <2>6. Max(S) \in S
      BY <2>3, <2>5 DEF Max
    <2> QED
      BY <2>6, <1>4 DEF Nearest
  <1> QED
    BY <1>3, <1>4

LEMMA BeyondIn ==
    ASSUME NEW p \in Pars, NEW forward \in BOOLEAN, Beyond(p, forward) # {}
    PROVE  Nearest(Beyond(p, forward), forward) \in Beyond(p, forward)
  <1>1. Beyond(p, forward) \in SUBSET Pars
    BY DEF Beyond
  <1> QED
    BY <1>1, NearestIn

LEMMA OtherSmilIn ==
    ASSUME NEW p \in Pars, NEW forward \in BOOLEAN, OtherSmil(p, forward) # {}
    PROVE  Nearest(OtherSmil(p, forward), forward) \in Pars
  <1>1. OtherSmil(p, forward) \in SUBSET Pars
    BY DEF OtherSmil
  <1> QED
    BY <1>1, NearestIn
-----------------------------------------------------------------------------
(* The element.                                                            *)

LEMMA RequestFacts ==
    ASSUME NEW r \in Requests
    PROVE  /\ r[1] \in Files /\ r[2] \in Nat /\ r[2] < Length[r[1]]
           /\ r = <<r[1], r[2]>>
BY DEF Requests

LEMMA AskElement ==
    ASSUME ElementOK, NEW f, NEW t, <<f, t>> \in Requests,
           NEW playing \in BOOLEAN, playing => file # None,
           PlayFile(f, t, playing), EndedStays \/ ended' = FALSE
    PROVE  ElementOK'
  <1> USE DEF ElementOK
  <1>1. f \in Files /\ t \in Nat /\ t < Length[f]
    BY RequestFacts
  <1>2. f # None /\ Length[f] \in Nat
    BY <1>1, LengthFacts
  <1>3. CASE seek # None
    <2>1. /\ waiting' = Append(waiting, <<f, t>>) /\ timer' = playing
          /\ file' = file /\ seek' = seek /\ position' = position /\ running' = running
      BY <1>3 DEF PlayFile
    <2>2. waiting' \in Seq(Requests)
      BY <2>1
    <2>3. ended' = FALSE
      BY <2>1, <1>3 DEF EndedStays
    <2> QED
      BY <2>1, <2>2, <2>3, <1>3
  <1>4. CASE seek = None
    <2>1. /\ file' = f /\ seek' = t /\ timer' = FALSE /\ running' = FALSE
          /\ position' = IF f = file THEN position ELSE 0
          /\ waiting' = waiting
      BY <1>4 DEF PlayFile
    <2>2. t # None
      BY <1>1, BookAssumption
    <2>3. ended' = FALSE
      BY <2>1, <2>2 DEF EndedStays
    <2>4. position' \in Nat /\ position' <= Length[f]
      BY <2>1, <1>2
    <2> QED
      BY <2>1, <2>2, <2>3, <2>4, <1>1, <1>2
  <1> QED
    BY <1>3, <1>4

LEMMA PauseElement ==
    ASSUME ElementOK, PauseAudio, EndedStays \/ ended' = FALSE
    PROVE  ElementOK'
BY DEF ElementOK, PauseAudio, EndedStays

LEMMA ResetElement ==
    ASSUME ElementOK, ResetAudio, EndedStays \/ ended' = FALSE
    PROVE  ElementOK'
BY DEF ElementOK, ResetAudio, EndedStays

LEMMA ResumeElement ==
    ASSUME ElementOK, ResumeAudio, file # None, EndedStays
    PROVE  ElementOK'
  <1>1. Length[file] \in Nat /\ 0 < Length[file]
    BY LengthFacts DEF ElementOK
  <1>2. position' \in Nat /\ position' < Length[file]
    BY <1>1 DEF ElementOK, ResumeAudio
  <1> QED
    BY <1>1, <1>2 DEF ElementOK, ResumeAudio, EndedStays

LEMMA SameElement ==
    ASSUME ElementOK, UNCHANGED element, EndedStays \/ ended' = FALSE \/ UNCHANGED ended
    PROVE  ElementOK'
  <1>1. UNCHANGED <<file, timer, seek, waiting, position, running>>
    BY DEF element
  <1>2. ended \in BOOLEAN
    BY DEF ElementOK
  <1>3. ended' = FALSE \/ ended' = ended
    <2>1. CASE EndedStays
      <3>1. CASE seek' = None /\ file' # None /\ ended
        BY <2>1, <3>1 DEF EndedStays
      <3>2. CASE ~(seek' = None /\ file' # None /\ ended)
        BY <2>1, <3>2 DEF EndedStays
      <3> QED
        BY <3>1, <3>2
    <2> QED
      BY <2>1
  <1>4. CASE ended' = FALSE
    BY <1>1, <1>4 DEF ElementOK
  <1>5. CASE ended' = ended
    BY <1>1, <1>5 DEF ElementOK
  <1> QED
    BY <1>3, <1>4, <1>5

LEMMA NextSmilElement ==
    ASSUME ElementOK, NEW forward, NextSmil(forward), EndedStays \/ ended' = FALSE
    PROVE  ElementOK'
  <1>1. ResetAudio \/ PauseAudio
    BY DEF NextSmil, Reset, LeaveAudio, Pause
  <1> QED
    BY <1>1, ResetElement, PauseElement

LEMMA MoveElement ==
    ASSUME ElementOK, par \in Pars, NEW at, NEW forward \in BOOLEAN,
           NEW playing \in BOOLEAN, playing => file # None,
           Move(at, forward, playing), EndedStays \/ ended' = FALSE
    PROVE  ElementOK'
  <1>1. CASE Beyond(par, forward) = {}
    BY <1>1, NextSmilElement DEF Move
  <1>2. CASE Beyond(par, forward) # {}
    <2> DEFINE q == Nearest(Beyond(par, forward), forward)
    <2>1. q \in Pars
      BY <1>2, BeyondIn DEF Beyond
    <2> HIDE DEF q
    <2>2. UNCHANGED element \/ PlayFile(Book[q].file, Book[q].begin, playing)
      BY <1>2 DEF Move, PlayCurrentPar, q
    <2>3. <<Book[q].file, Book[q].begin>> \in Requests
      BY <2>1, BookFacts DEF Request
    <2> QED
      BY <2>2, <2>3, SameElement, AskElement
  <1> QED
    BY <1>1, <1>2

LEMMA RefreshElement ==
    ASSUME ElementOK, par \in Pars \cup {None}, NEW d, NEW o, Refresh(d, o), EndedStays
    PROVE  ElementOK'
  <1>1. CASE Reset
    BY <1>1, ResetElement DEF Reset
  <1>2. CASE ~Reset
    <2>1. PICK z \in Pars :
              \/ timer /\ ResumeAudio
              \/ PlayFile(Book[z].file, Book[z].begin, FALSE)
      BY <1>2 DEF Refresh, PlayCurrentPar
    <2>2. <<Book[z].file, Book[z].begin>> \in Requests
      BY BookFacts DEF Request
    <2>3. CASE timer /\ ResumeAudio
      BY <2>3, ResumeElement DEF ElementOK
    <2> QED
      BY <2>1, <2>2, <2>3, AskElement
  <1> QED
    BY <1>1, <1>2

LEMMA PlayOnElement ==
    ASSUME ElementOK, par \in Pars \cup {None}, PlayOn, EndedStays
    PROVE  ElementOK'
  <1>1. CASE par # None /\ file # None
    BY <1>1, ResumeElement DEF PlayOn
  <1>2. CASE ~(par # None /\ file # None)
    BY <1>2, RefreshElement DEF PlayOn
  <1> QED
    BY <1>1, <1>2

LEMMA UserElement ==
    ASSUME ElementOK, par \in Pars \cup {None}, User
    PROVE  ElementOK'
  <1>1. CASE Toggle
    <2>1. EndedStays /\ (PauseAudio \/ PlayOn)
      BY <1>1 DEF Toggle, Pause
    <2> QED
      BY <2>1, PauseElement, PlayOnElement
  <1>2. ASSUME NEW forward \in BOOLEAN, NextOrPrevious(forward)
        PROVE  ElementOK'
    <2>1. EndedStays
      BY <1>2 DEF NextOrPrevious
    <2>2. CASE par # None /\ timer
      BY <1>2, <2>1, <2>2, MoveElement DEF NextOrPrevious
    <2>3. CASE ~(par # None /\ timer)
      BY <1>2, <2>1, <2>3, PlayOnElement DEF NextOrPrevious
    <2> QED
      BY <2>2, <2>3
  <1>3. ASSUME NEW d \in Docs, TurnPage(d)
        PROVE  ElementOK'
    BY <1>3, SameElement DEF TurnPage, audio
  <1> QED
    BY <1>1, <1>2, <1>3 DEF User

LEMMA OwnPageElement ==
    ASSUME ElementOK, OverlayOK, opening # None, NEW d, NEW playing,
           OwnPage(d, playing), EndedStays
    PROVE  ElementOK'
  <1>1. opening.to \in Pars \cup {None}
    BY PageFields DEF OverlayOK, PageOK
  <1> DEFINE p == IF par = None THEN opening.to ELSE par
  <1>2. UNCHANGED element \/ (p # None /\ PlayFile(Book[p].file, Book[p].begin, timer))
    BY DEF OwnPage, PlayCurrentPar
  <1>3. p # None => p \in Pars
    BY <1>1 DEF OverlayOK
  <1> HIDE DEF p
  <1>4. p # None => <<Book[p].file, Book[p].begin>> \in Requests
    BY <1>3, BookFacts DEF Request
  <1>5. timer \in BOOLEAN /\ (timer => file # None)
    BY DEF ElementOK
  <1> QED
    BY <1>2, <1>4, <1>5, SameElement, AskElement

LEMMA PageElement ==
    ASSUME ElementOK, OverlayOK, DocLoadStart \/ PageChanged
    PROVE  ElementOK'
  <1>1. CASE DocLoadStart
    <2>1. EndedStays /\ (PauseAudio \/ UNCHANGED element)
      BY <1>1 DEF DocLoadStart, Pause
    <2> QED
      BY <2>1, PauseElement, SameElement
  <1>2. CASE PageChanged
    <2>1. /\ EndedStays /\ opening # None
          /\ \/ OwnPage(doc', timer \/ wasPlaying)
             \/ Reset
             \/ Refresh(doc', None)
      BY <1>2 DEF PageChanged
    <2>2. ASSUME Reset PROVE ElementOK'
      BY <2>1, <2>2, ResetElement DEF Reset
    <2> QED
      BY <2>1, <2>2, OwnPageElement, RefreshElement DEF OverlayOK
  <1> QED
    BY <1>1, <1>2

LEMMA TickElement ==
    ASSUME ElementOK, par \in Pars \cup {None}, Tick
    PROVE  ElementOK'
  <1>1. EndedStays
    BY DEF Tick
  <1>2. CASE par = None \/ position <= Book[par].end
    BY <1>1, <1>2, SameElement DEF Tick, WithinPar
  <1>3. CASE ~(par = None \/ position <= Book[par].end)
    BY <1>1, <1>3, MoveElement DEF Tick, ElementOK
  <1> QED
    BY <1>2, <1>3

LEMMA HearEndedElement ==
    ASSUME ElementOK, par \in Pars \cup {None}, HearEnded
    PROVE  ElementOK'
  <1>1. ended' = FALSE
    BY DEF HearEnded
  <1>2. CASE seek # None
    BY <1>1, <1>2, SameElement DEF HearEnded
  <1>3. CASE seek = None /\ skipEnded
    BY <1>1, <1>3 DEF HearEnded, ElementOK
  <1>4. CASE seek = None /\ ~skipEnded /\ par = None
    BY <1>1, <1>4, ResetElement DEF HearEnded, Reset
  <1>5. CASE seek = None /\ ~skipEnded /\ par # None
    BY <1>1, <1>5, MoveElement DEF HearEnded
  <1> QED
    BY <1>2, <1>3, <1>4, <1>5

LEMMA AudioElement ==
    ASSUME ElementOK, Elapse \/ Preload \/ SeekDone \/ PlayWaiting
    PROVE  ElementOK'
  <1>0. file # None => Length[file] \in Nat /\ 0 < Length[file]
    BY LengthFacts DEF ElementOK
  <1>1. CASE Elapse
    <2>1. position' \in Nat /\ position' <= Length[file]
      BY <1>0, <1>1 DEF ElementOK, Elapse
    <2>2. running' \in BOOLEAN /\ ended' \in BOOLEAN
      BY <1>1 DEF ElementOK, Elapse
    <2> QED
      BY <2>1, <2>2, <1>1 DEF ElementOK, Elapse
  <1>2. CASE Preload
    BY <1>2 DEF ElementOK, Preload
  <1>3. CASE SeekDone
    <2>1. running' \in BOOLEAN /\ ended' = FALSE
      BY <1>0, <1>3 DEF ElementOK, SeekDone
    <2> QED
      BY <1>0, <2>1, <1>3 DEF ElementOK, SeekDone
  <1>4. CASE PlayWaiting
    <2>1. Head(waiting) \in Requests /\ Tail(waiting) \in Seq(Requests)
      BY <1>4 DEF ElementOK, PlayWaiting
    <2> DEFINE r == Head(waiting)
    <2>2. /\ r \in Requests
          /\ r[1] \in Files /\ r[2] \in Nat /\ r[2] < Length[r[1]]
          /\ r[1] # None /\ r[2] # None /\ Length[r[1]] \in Nat
      BY <2>1, RequestFacts, LengthFacts, BookAssumption
    <2>3. /\ file' = r[1] /\ seek' = r[2] /\ timer' = FALSE /\ running' = FALSE
          /\ position' = IF r[1] = file THEN position ELSE 0
          /\ waiting' = Tail(waiting) /\ EndedStays
      BY <1>4 DEF PlayWaiting
    <2> HIDE DEF r
    <2>4. position' \in Nat /\ position' <= Length[r[1]]
      BY <2>2, <2>3 DEF ElementOK
    <2> QED
      BY <2>1, <2>2, <2>3, <2>4 DEF ElementOK, EndedStays
  <1> QED
    BY <1>1, <1>2, <1>3, <1>4

LEMMA ElementStep ==
    ASSUME ElementOK, OverlayOK, [Next]_vars
    PROVE  ElementOK'
  <1>0. par \in Pars \cup {None}
    BY DEF OverlayOK
  <1>1. CASE UNCHANGED vars
    BY <1>1, SameElement DEF vars, audio
  <1> QED
    BY <1>0, <1>1, UserElement, TickElement, HearEndedElement, PageElement,
       AudioElement DEF Next
-----------------------------------------------------------------------------
(* The overlay and its pages.                                              *)

LEMMA ObserveHeard ==
    ASSUME Observe
    PROVE  heard' \in BOOLEAN /\ (Out' => heard')
BY DEF Observe

LEMMA NewPageOK ==
    ASSUME NEW p \in Pars \cup {None}, NEW e \in Docs, NEW own \in BOOLEAN, NEW d,
           p # None => own /\ Book[p].doc = e,
           own /\ p = None => e = d
    PROVE  PageOK(Page(p, e, own), d)
  <1>1. PICK o : o = Page(p, e, own)
    OBVIOUS
  <1>2. o \in Pages /\ o.to = p /\ o.doc = e /\ o.own = own /\ o.loading = FALSE
    BY <1>1 DEF Page, Pages
  <1>3. PageOK(o, d)
    BY <1>2 DEF PageOK
  <1> QED
    BY <1>1, <1>3

LEMMA HighlightOverlay ==
    ASSUME NEW p \in Pars, NEW d \in Docs, NEW o, PageOK(o, d),
           NEW lit \in Pars \cup {None}, Highlight(p, d, o, lit)
    PROVE  /\ par' \in Pars \cup {None} /\ highlighted' \in Pars \cup {None}
           /\ PageOK(opening', d)
  <1>1. CASE Book[p].doc = d
    <2>1. par' = p /\ highlighted' = p /\ opening' \in {o, Page(None, d, TRUE)}
      BY <1>1 DEF Highlight
    <2>2. PageOK(Page(None, d, TRUE), d)
      BY NewPageOK
    <2> QED
      BY <2>1, <2>2
  <1>2. CASE Book[p].doc # d
    <2>1. /\ par' = None /\ highlighted' = lit
          /\ opening' = Page(p, Book[p].doc, TRUE)
      BY <1>2 DEF Highlight
    <2>2. PageOK(Page(p, Book[p].doc, TRUE), d)
      BY NewPageOK, BookFacts
    <2> QED
      BY <2>1, <2>2
  <1> QED
    BY <1>1, <1>2

LEMMA NoPage ==
    ASSUME NEW d
    PROVE  PageOK(None, d)
BY DEF PageOK

LEMMA NextSmilOverlay ==
    ASSUME OverlayOK, par \in Pars, NEW forward \in BOOLEAN, NextSmil(forward)
    PROVE  /\ par' \in Pars \cup {None} /\ highlighted' \in Pars \cup {None}
           /\ PageOK(opening', doc)
           /\ skipEnded' \in BOOLEAN /\ wanted' \in BOOLEAN
  <1>1. CASE OtherSmil(par, forward) = {}
    BY <1>1 DEF NextSmil, Reset, OverlayOK
  <1>2. CASE OtherSmil(par, forward) # {}
    <2> DEFINE q == Nearest(OtherSmil(par, forward), forward)
    <2>1. q \in Pars
      BY <1>2, OtherSmilIn
    <2> HIDE DEF q
    <2>2. /\ par' = q /\ opening' = Page(q, Book[q].doc, TRUE)
          /\ highlighted' = None /\ skipEnded' = TRUE /\ wanted' = TRUE
      BY <1>2 DEF NextSmil, LeaveAudio, Pause, q
    <2>3. PageOK(opening', doc)
      BY <2>1, <2>2, NewPageOK, BookFacts
    <2> QED
      BY <2>1, <2>2, <2>3
  <1> QED
    BY <1>1, <1>2

LEMMA MoveOverlay ==
    ASSUME OverlayOK, par \in Pars, NEW at, NEW forward \in BOOLEAN,
           NEW playing \in BOOLEAN, Move(at, forward, playing)
    PROVE  /\ par' \in Pars \cup {None} /\ highlighted' \in Pars \cup {None}
           /\ PageOK(opening', doc)
           /\ skipEnded' \in BOOLEAN /\ wanted' \in BOOLEAN
  <1>1. CASE Beyond(par, forward) = {}
    BY <1>1, NextSmilOverlay DEF Move
  <1>2. CASE Beyond(par, forward) # {}
    <2> DEFINE q == Nearest(Beyond(par, forward), forward)
    <2>1. q \in Pars
      BY <1>2, BeyondIn DEF Beyond
    <2> HIDE DEF q
    <2>2. /\ Highlight(q, doc, opening, highlighted)
          /\ skipEnded' = TRUE /\ wanted' = TRUE
      BY <1>2 DEF Move, PlayCurrentPar, q
    <2> QED
      BY <2>1, <2>2, HighlightOverlay DEF OverlayOK
  <1> QED
    BY <1>1, <1>2

LEMMA RefreshOverlay ==
    ASSUME OverlayOK, NEW d \in Docs, NEW o, PageOK(o, d), Refresh(d, o)
    PROVE  /\ par' \in Pars \cup {None} /\ highlighted' \in Pars \cup {None}
           /\ PageOK(opening', d)
           /\ skipEnded' \in BOOLEAN /\ wanted' \in BOOLEAN
  <1>1. CASE \A z \in Pars : Book[z].doc # d
    BY <1>1 DEF Refresh, Reset
  <1>2. CASE ~\A z \in Pars : Book[z].doc # d
    <2>1. PICK z \in Pars, lit \in Pars \cup {None} :
              Highlight(z, d, o, lit) /\ skipEnded' = skipEnded /\ wanted' = TRUE
      BY <1>2 DEF Refresh, PlayCurrentPar, OverlayOK
    <2> QED
      BY <2>1, HighlightOverlay DEF OverlayOK
  <1> QED
    BY <1>1, <1>2

LEMMA PlayOnOverlay ==
    ASSUME OverlayOK, PlayOn
    PROVE  /\ par' \in Pars \cup {None} /\ highlighted' \in Pars \cup {None}
           /\ PageOK(opening', doc)
           /\ skipEnded' \in BOOLEAN /\ wanted' \in BOOLEAN
  <1>1. CASE par # None /\ file # None
    <2>1. /\ Highlight(par, doc, opening, highlighted)
          /\ skipEnded' = skipEnded /\ wanted' = TRUE
      BY <1>1 DEF PlayOn
    <2> QED
      BY <1>1, <2>1, HighlightOverlay DEF OverlayOK
  <1>2. CASE ~(par # None /\ file # None)
    BY <1>2, RefreshOverlay DEF PlayOn, OverlayOK
  <1> QED
    BY <1>1, <1>2

LEMMA CommandOverlay ==
    ASSUME OverlayOK, Command
    PROVE  /\ commands' \in Nat /\ astray' \in BOOLEAN
           /\ wasPlaying' = wasPlaying /\ doc' = doc
BY DEF OverlayOK, Command

LEMMA UserOverlay ==
    ASSUME OverlayOK, User
    PROVE  OverlayOK'
  <1>1. CASE Toggle
    <2>1. Command /\ Observe
      BY <1>1 DEF Toggle
    <2>2. /\ par' \in Pars \cup {None} /\ highlighted' \in Pars \cup {None}
          /\ PageOK(opening', doc)
          /\ skipEnded' \in BOOLEAN /\ wanted' \in BOOLEAN
      <3>1. CASE timer
        BY <1>1, <3>1 DEF Toggle, Pause, OverlayOK
      <3>2. CASE ~timer
        BY <1>1, <3>2, PlayOnOverlay DEF Toggle
      <3> QED
        BY <3>1, <3>2
    <2> QED
      BY <2>1, <2>2, CommandOverlay, ObserveHeard DEF OverlayOK
  <1>2. ASSUME NEW forward \in BOOLEAN, NextOrPrevious(forward)
        PROVE  OverlayOK'
    <2>1. Command /\ Observe
      BY <1>2 DEF NextOrPrevious
    <2>2. /\ par' \in Pars \cup {None} /\ highlighted' \in Pars \cup {None}
          /\ PageOK(opening', doc)
          /\ skipEnded' \in BOOLEAN /\ wanted' \in BOOLEAN
      <3>1. CASE par # None /\ timer
        BY <1>2, <3>1, MoveOverlay DEF NextOrPrevious, OverlayOK
      <3>2. CASE ~(par # None /\ timer)
        BY <1>2, <3>2, PlayOnOverlay DEF NextOrPrevious
      <3> QED
        BY <3>1, <3>2
    <2> QED
      BY <2>1, <2>2, CommandOverlay, ObserveHeard DEF OverlayOK
  <1>3. ASSUME NEW d \in Docs, TurnPage(d)
        PROVE  OverlayOK'
    <2>1. /\ Command /\ Observe /\ opening' = Page(None, d, FALSE)
          /\ UNCHANGED <<par, highlighted, skipEnded, wanted>>
      BY <1>3 DEF TurnPage, iterator
    <2>2. PageOK(opening', doc)
      BY <2>1, NewPage DEF PageOK
    <2> QED
      BY <2>1, <2>2, CommandOverlay, ObserveHeard DEF OverlayOK
  <1> QED
    BY <1>1, <1>2, <1>3 DEF User

LEMMA TickOverlay ==
    ASSUME OverlayOK, Tick
    PROVE  OverlayOK'
  <1>1. /\ UNCHANGED <<wasPlaying, doc, commands, astray>> /\ Observe
    BY DEF Tick
  <1>2. /\ par' \in Pars \cup {None} /\ highlighted' \in Pars \cup {None}
        /\ PageOK(opening', doc)
        /\ skipEnded' \in BOOLEAN /\ wanted' \in BOOLEAN
    <2>1. CASE par = None \/ position <= Book[par].end
      BY <2>1 DEF Tick, WithinPar, iterator, OverlayOK
    <2>2. CASE ~(par = None \/ position <= Book[par].end)
      BY <2>2, MoveOverlay DEF Tick, OverlayOK
    <2> QED
      BY <2>1, <2>2
  <1> QED
    BY <1>1, <1>2, ObserveHeard DEF OverlayOK

LEMMA HearEndedOverlay ==
    ASSUME OverlayOK, HearEnded
    PROVE  OverlayOK'
  <1>1. /\ UNCHANGED <<wasPlaying, doc, commands>> /\ Observe
        /\ astray' \in BOOLEAN
    BY DEF HearEnded, OverlayOK
  <1>2. /\ par' \in Pars \cup {None} /\ highlighted' \in Pars \cup {None}
        /\ PageOK(opening', doc)
        /\ skipEnded' \in BOOLEAN /\ wanted' \in BOOLEAN
    <2>1. CASE seek # None
      BY <2>1 DEF HearEnded, iterator, OverlayOK
    <2>2. CASE seek = None /\ skipEnded
      BY <2>2 DEF HearEnded, iterator, OverlayOK
    <2>3. CASE seek = None /\ ~skipEnded /\ par = None
      BY <2>3 DEF HearEnded, Reset, OverlayOK
    <2>4. CASE seek = None /\ ~skipEnded /\ par # None
      BY <2>4, MoveOverlay DEF HearEnded, OverlayOK
    <2> QED
      BY <2>1, <2>2, <2>3, <2>4
  <1> QED
    BY <1>1, <1>2, ObserveHeard DEF OverlayOK

LEMMA DocLoadStartOverlay ==
    ASSUME OverlayOK, DocLoadStart
    PROVE  OverlayOK'
  <1>1. /\ UNCHANGED <<par, skipEnded, doc, commands, wanted>> /\ Observe
        /\ astray' \in BOOLEAN
        /\ wasPlaying' \in BOOLEAN /\ highlighted' \in Pars \cup {None}
    BY DEF DocLoadStart, OverlayOK, Pause, iterator
  <1>2. /\ opening \in Pages /\ opening.doc # doc
        /\ opening' = [opening EXCEPT !.loading = TRUE]
    BY DEF DocLoadStart, OverlayOK, PageOK
  <1>3. /\ opening' \in Pages
        /\ opening'.to = opening.to /\ opening'.doc = opening.doc
        /\ opening'.own = opening.own
    BY <1>2 DEF Pages
  <1>4. PageOK(opening', doc)
    BY <1>2, <1>3, PageFields DEF OverlayOK, PageOK
  <1> QED
    BY <1>1, <1>4, ObserveHeard DEF OverlayOK

LEMMA OwnPageOverlay ==
    ASSUME OverlayOK, opening # None, NEW d \in Docs, NEW playing, OwnPage(d, playing)
    PROVE  /\ par' \in Pars \cup {None} /\ highlighted' \in Pars \cup {None}
           /\ PageOK(opening', d)
  <1>1. opening.to \in Pars \cup {None}
    BY PageFields DEF OverlayOK, PageOK
  <1> DEFINE p == IF par = None THEN opening.to ELSE par
  <1>2. CASE opening' = None /\ UNCHANGED iterator
    BY <1>2, NoPage DEF iterator, OverlayOK
  <1>3. CASE ~(opening' = None /\ UNCHANGED iterator)
    <2>1. p # None /\ Highlight(p, d, None, highlighted)
      BY <1>3 DEF OwnPage, PlayCurrentPar
    <2>2. p \in Pars
      BY <1>1, <2>1 DEF OverlayOK
    <2> HIDE DEF p
    <2> QED
      BY <2>1, <2>2, NoPage, HighlightOverlay DEF OverlayOK
  <1> QED
    BY <1>2, <1>3

LEMMA PageChangedOverlay ==
    ASSUME OverlayOK, PageChanged
    PROVE  OverlayOK'
  <1>1. /\ opening # None /\ doc' = opening.doc /\ wasPlaying' = FALSE
        /\ commands' = commands /\ Observe /\ astray' \in BOOLEAN
    BY DEF PageChanged, OverlayOK
  <1>2. doc' \in Docs
    BY <1>1, PageFields DEF OverlayOK, PageOK
  <1>3. /\ par' \in Pars \cup {None} /\ highlighted' \in Pars \cup {None}
        /\ PageOK(opening', doc')
        /\ skipEnded' \in BOOLEAN /\ wanted' \in BOOLEAN
    <2>1. CASE opening.own
      <3>1. OwnPage(doc', timer \/ wasPlaying) /\ UNCHANGED <<skipEnded, wanted>>
        BY <2>1 DEF PageChanged
      <3> QED
        BY <1>1, <1>2, <3>1, OwnPageOverlay DEF OverlayOK
    <2>2. CASE ~opening.own /\ Reset /\ opening' = None /\ wanted' = FALSE
      BY <2>2, NoPage DEF Reset
    <2>3. CASE ~opening.own /\ Refresh(doc', None)
      BY <1>2, <2>3, NoPage, RefreshOverlay
    <2> QED
      BY <2>1, <2>2, <2>3 DEF PageChanged
  <1> QED
    BY <1>1, <1>2, <1>3, ObserveHeard DEF OverlayOK

LEMMA AudioOverlay ==
    ASSUME OverlayOK, Elapse \/ Preload \/ SeekDone \/ PlayWaiting
    PROVE  OverlayOK'
  <1>1. /\ Observe
        /\ UNCHANGED <<overlay, doc, opening, commands, wanted, astray>>
    BY DEF Elapse, Preload, SeekDone, PlayWaiting
  <1> QED
    BY <1>1, ObserveHeard DEF OverlayOK, overlay, iterator

LEMMA OverlayStep ==
    ASSUME OverlayOK, [Next]_vars
    PROVE  OverlayOK'
  <1>1. CASE UNCHANGED vars
    BY <1>1 DEF vars, overlay, iterator, OverlayOK
  <1> QED
    BY <1>1, UserOverlay, TickOverlay, HearEndedOverlay, DocLoadStartOverlay,
       PageChangedOverlay, AudioOverlay DEF Next
-----------------------------------------------------------------------------
(* What the player has on its way. It asks for the par that is highlighted *)
(* or for the one whose page is to show it; when a page is opened for the  *)
(* par it has already reached, the audio stands still until then.          *)

Target == IF par # None THEN par
          ELSE IF opening # None THEN opening.to ELSE None

Leaving == par # None /\ opening # None /\ opening.to # None

LoadingStops ==
    wasPlaying => /\ opening # None /\ opening.loading
                  /\ par # None => ~timer /\ seek = None /\ waiting = << >>

LeavingStops ==
    Leaving => /\ opening.to = par
               /\ ~timer /\ ~running /\ seek = None /\ waiting = << >>
               /\ ~wasPlaying
               /\ ended => skipEnded

UsersPageFirst == opening # None /\ ~opening.own => waiting = << >>

AsksForTarget ==
    Target # None =>
        /\ seek # None => file = Book[Target].file /\ seek = Book[Target].begin
        /\ waiting \in Seq({Request(Target)})

WaitingIsEarly ==
    waiting # << >> /\ Target # None =>
        /\ ~ended
        /\ par # None /\ seek = None => position <= Book[par].end

ReadsPar == par # None /\ ~Leaving /\ seek = None => file = Book[par].file

EndIsHeard ==
    ended /\ par # None /\ ~Leaving =>
        heard /\ Book[par].end + 1 >= Length[file]

RunsOut == running /\ ~timer /\ par # None => Book[par].end + 1 >= Length[file]

OnCourse ==
    /\ LoadingStops /\ LeavingStops /\ UsersPageFirst
    /\ AsksForTarget /\ WaitingIsEarly /\ ReadsPar /\ EndIsHeard /\ RunsOut

(* A step after which q is shown, or a page is opened to show it.          *)
Shown(q) ==
    \/ par' = q /\ (opening' # None => opening'.to = None)
    \/ par' = None /\ opening' # None /\ opening'.to = q

LEMMA ShownTarget ==
    ASSUME NEW q \in Pars, Shown(q)
    PROVE  Target' = q /\ ~Leaving' /\ par' \in {q, None}
  <1>1. q # None
    BY BookFacts
  <1> QED
    BY <1>1 DEF Shown, Target, Leaving

LEMMA HighlightShows ==
    ASSUME NEW q \in Pars, NEW d \in Docs, NEW o, o # None => o.to = None, NEW lit,
           Highlight(q, d, o, lit)
    PROVE  /\ Shown(q)
           /\ opening' = o \/ (opening' # None /\ opening'.own)
           /\ Book[q].doc = d => par' = q
  <1>1. CASE Book[q].doc = d
    <2>1. PICK r : r = Page(None, d, TRUE)
      OBVIOUS
    <2>2. r \in Pages /\ r.to = None /\ r.own = TRUE
      BY <2>1 DEF Page, Pages
    <2>3. par' = q /\ opening' \in {o, r}
      BY <1>1, <2>1 DEF Highlight
    <2> QED
      BY <2>2, <2>3, PageFields DEF Shown
  <1>2. CASE Book[q].doc # d
    <2>1. PICK r : r = Page(q, Book[q].doc, TRUE)
      OBVIOUS
    <2>2. Book[q].doc \in Docs
      BY BookFacts
    <2>3. r \in Pages /\ r.to = q /\ r.own = TRUE
      BY <2>1, <2>2 DEF Page, Pages
    <2>4. par' = None /\ opening' = r
      BY <1>2, <2>1 DEF Highlight
    <2> QED
      BY <2>3, <2>4, <1>2, PageFields DEF Shown
  <1> QED
    BY <1>1, <1>2

(* Three ways a step can end: with q asked for, with nothing to read, and  *)
(* with a page opened for the par that was reached.                        *)
LEMMA AskedOutcome ==
    ASSUME NEW q \in Pars, Shown(q), seek' # None,
           file' = Book[q].file, seek' = Book[q].begin, waiting' \in Seq({Request(q)}),
           ~running', ~ended', ~wasPlaying', UsersPageFirst'
    PROVE  OnCourse'
  <1>1. Target' = q /\ ~Leaving' /\ par' \in {q, None} /\ q # None
    BY ShownTarget, BookFacts
  <1>2. LoadingStops'
    BY DEF LoadingStops
  <1>3. LeavingStops'
    BY <1>1 DEF LeavingStops
  <1>4. AsksForTarget'
    BY <1>1 DEF AsksForTarget
  <1>5. WaitingIsEarly'
    BY DEF WaitingIsEarly
  <1>6. ReadsPar' /\ EndIsHeard' /\ RunsOut'
    BY DEF ReadsPar, EndIsHeard, RunsOut
  <1> QED
    BY <1>2, <1>3, <1>4, <1>5, <1>6 DEF OnCourse

LEMMA IdleOutcome ==
    ASSUME par' = None, opening' # None => opening'.to = None,
           ~wasPlaying', UsersPageFirst'
    PROVE  OnCourse'
  <1>1. Target' = None /\ ~Leaving'
    BY DEF Target, Leaving
  <1>2. LoadingStops' /\ LeavingStops'
    BY <1>1 DEF LoadingStops, LeavingStops
  <1>3. AsksForTarget' /\ WaitingIsEarly'
    BY <1>1 DEF AsksForTarget, WaitingIsEarly
  <1>4. ReadsPar' /\ EndIsHeard' /\ RunsOut'
    BY DEF ReadsPar, EndIsHeard, RunsOut
  <1> QED
    BY <1>2, <1>3, <1>4 DEF OnCourse

LEMMA LeftOutcome ==
    ASSUME NEW q \in Pars, par' = q, opening' # None, opening'.to = q, opening'.own,
           ~timer', ~running', seek' = None, waiting' = << >>, ~wasPlaying',
           ended' => skipEnded'
    PROVE  OnCourse'
  <1>1. q # None
    BY BookFacts
  <1>2. Target' = q /\ Leaving'
    BY <1>1 DEF Target, Leaving
  <1>3. LoadingStops' /\ LeavingStops' /\ UsersPageFirst'
    BY DEF LoadingStops, LeavingStops, UsersPageFirst
  <1>4. AsksForTarget' /\ WaitingIsEarly'
    BY DEF AsksForTarget, WaitingIsEarly
  <1>5. ReadsPar' /\ EndIsHeard' /\ RunsOut'
    BY <1>2 DEF ReadsPar, EndIsHeard, RunsOut
  <1> QED
    BY <1>3, <1>4, <1>5 DEF OnCourse

(* A request that is made for q.                                           *)
LEMMA PlayAsks ==
    ASSUME ElementOK, NEW q \in Pars, NEW playing,
           PlayFile(Book[q].file, Book[q].begin, playing),
           EndedStays \/ ended' = FALSE,
           seek # None => file = Book[q].file /\ seek = Book[q].begin,
           waiting \in Seq({Request(q)})
    PROVE  /\ seek' # None /\ file' = Book[q].file /\ seek' = Book[q].begin
           /\ waiting' \in Seq({Request(q)})
           /\ seek = None => waiting' = waiting
           /\ ~running' /\ ~ended'
  <1>1. Book[q].begin # None
    BY BookFacts, BookAssumption
  <1>2. CASE seek # None
    <2>1. /\ waiting' = Append(waiting, Request(q))
          /\ file' = file /\ seek' = seek /\ running' = running
      BY <1>2 DEF PlayFile, Request
    <2>2. waiting' \in Seq({Request(q)})
      BY <2>1
    <2> QED
      BY <1>2, <2>1, <2>2 DEF ElementOK, EndedStays
  <1>3. CASE seek = None
    <2>1. /\ file' = Book[q].file /\ seek' = Book[q].begin /\ running' = FALSE
          /\ waiting' = waiting
      BY <1>3 DEF PlayFile
    <2> QED
      BY <1>1, <2>1 DEF EndedStays
  <1> QED
    BY <1>2, <1>3
-----------------------------------------------------------------------------
(* The overlay moves to another par.                                       *)

(* Where reading goes on behind a par that was skipped, it goes on with a  *)
(* par that ends later than the one that was read.                         *)
SkipsInOrder ==
    \A p, q \in Pars :
        /\ p < q - 1 /\ q - 1 \in Pars
        /\ Book[p].smil = Book[q].smil /\ Book[p].file = Book[q].file
        /\ Skipped(q - 1) /\ ~Skipped(q)
        /\ Book[q].begin <= Book[q - 1].end + 1
        /\ Book[q - 1].end + 1 <= Book[q].end
        => Book[p].end < Book[q].end

(* The first par ahead that is not skipped follows the current one or one  *)
(* that is skipped.                                                        *)
LEMMA BehindSkipped ==
    ASSUME NEW p \in Pars, Beyond(p, TRUE) # {},
           NEW q, q = Nearest(Beyond(p, TRUE), TRUE)
    PROVE  /\ q \in Pars /\ p < q /\ Book[q].smil = Book[p].smil /\ ~Skipped(q)
           /\ q - 1 # p => /\ p < q - 1 /\ q - 1 \in Pars /\ Skipped(q - 1)
                           /\ Book[q - 1].smil = Book[q].smil
  <1>1. Beyond(p, TRUE) \in SUBSET Pars
    BY DEF Beyond
  <1>2. q \in Beyond(p, TRUE) /\ \A m \in Beyond(p, TRUE) : q <= m
    BY <1>1, NearestIn
  <1>3. q \in Pars /\ p < q /\ Book[q].smil = Book[p].smil /\ ~Skipped(q)
    BY <1>2 DEF Beyond
  <1>4. ASSUME q - 1 # p
        PROVE  /\ p < q - 1 /\ q - 1 \in Pars /\ Skipped(q - 1)
               /\ Book[q - 1].smil = Book[q].smil
    <2>0. PICK n \in Nat : Pars = 1..n
      BY BookAssumption
    <2>1. \A i, j \in 1..n :
              i < j /\ j - 1 # i =>
                  i < j - 1 /\ j - 1 \in 1..n /\ i <= j - 1 /\ j - 1 <= j /\ ~(j <= j - 1)
      OBVIOUS
    <2>2. /\ p < q - 1 /\ q - 1 \in Pars
          /\ p <= q - 1 /\ q - 1 <= q /\ ~(q <= q - 1)
      BY <1>3, <1>4, <2>0, <2>1
    <2>3. /\ Book[p].smil <= Book[q - 1].smil /\ Book[q - 1].smil <= Book[q].smil
          /\ Book[p].smil \in Nat /\ Book[q - 1].smil \in Nat
      BY <1>3, <2>2, BookAssumption
    <2>4. \A a, b \in Nat : a <= b /\ b <= a => a = b
      OBVIOUS
    <2>5. Book[q - 1].smil = Book[p].smil
      BY <1>3, <2>3, <2>4
    <2>6. q - 1 \notin Beyond(p, TRUE)
      BY <1>2, <2>2
    <2>7. Skipped(q - 1)
      BY <2>2, <2>5, <2>6 DEF Beyond
    <2> QED
      BY <1>3, <2>2, <2>5, <2>7
  <1> QED
    BY <1>3, <1>4

(* The state in which the overlay moves on.                                *)
Ready ==
    /\ ElementOK /\ OverlayOK /\ OnCourse
    /\ par \in Pars /\ ~Leaving /\ seek = None /\ waiting = << >> /\ ~wasPlaying'

LEMMA NextSmilOutcome ==
    ASSUME Ready, NEW forward \in BOOLEAN, NextSmil(forward),
           EndedStays \/ ended' = FALSE
    PROVE  OnCourse'
  <1>0. par # None /\ (opening # None => opening.to = None)
    BY BookFacts DEF Ready, Leaving
  <1>1. CASE OtherSmil(par, forward) = {}
    <2>1. par' = None /\ opening' = opening /\ waiting' = << >>
      BY <1>1 DEF NextSmil, Reset, ResetAudio, Ready
    <2> QED
      BY <1>0, <2>1, IdleOutcome DEF Ready, UsersPageFirst
  <1>2. CASE OtherSmil(par, forward) # {}
    <2> DEFINE q == Nearest(OtherSmil(par, forward), forward)
    <2>1. q \in Pars
      BY <1>2, OtherSmilIn DEF Ready
    <2> HIDE DEF q
    <2>2. PICK r : r = Page(q, Book[q].doc, TRUE)
      OBVIOUS
    <2>3. Book[q].doc \in Docs
      BY <2>1, BookFacts
    <2>4. r \in Pages /\ r.to = q /\ r.own = TRUE
      BY <2>1, <2>2, <2>3 DEF Page, Pages
    <2>5. /\ par' = q /\ opening' = r /\ skipEnded' = TRUE
          /\ timer' = FALSE /\ running' = FALSE /\ seek' = None /\ waiting' = << >>
      BY <1>2, <2>2 DEF NextSmil, LeaveAudio, Pause, PauseAudio, q, Ready
    <2>6. opening' # None
      BY <2>4, <2>5, PageFields
    <2> QED
      BY <2>1, <2>4, <2>5, <2>6, LeftOutcome DEF Ready
  <1> QED
    BY <1>1, <1>2

(* What is asked for and how it is shown.                                  *)
LEMMA PlayOutcome ==
    ASSUME Ready, NEW q \in Pars, NEW playing,
           PlayFile(Book[q].file, Book[q].begin, playing),
           Highlight(q, doc, opening, highlighted),
           EndedStays \/ ended' = FALSE
    PROVE  OnCourse'
  <1>0. opening # None => opening.to = None
    BY BookFacts DEF Ready, Leaving
  <1>1. Shown(q)
    BY <1>0, HighlightShows DEF Ready, OverlayOK
  <1>2. waiting \in Seq({Request(q)})
    BY DEF Ready
  <1>3. /\ seek' # None /\ file' = Book[q].file /\ seek' = Book[q].begin
        /\ waiting' \in Seq({Request(q)}) /\ waiting' = << >>
        /\ ~running' /\ ~ended'
    BY <1>2, PlayAsks DEF Ready
  <1>4. UsersPageFirst'
    BY <1>3 DEF UsersPageFirst
  <1> QED
    BY <1>1, <1>3, <1>4, AskedOutcome DEF Ready

(* Reading goes on into the next par.                                      *)
LEMMA ReadOnOutcome ==
    ASSUME Ready, SkipsInOrder, timer, position > Book[par].end,
           NEW q, Beyond(par, TRUE) # {}, q = Nearest(Beyond(par, TRUE), TRUE),
           ReadOn(q, Reported(q, position)),
           Highlight(q, doc, opening, highlighted), UNCHANGED element,
           EndedStays, Observe
    PROVE  OnCourse'
  <1>0. opening # None => opening.to = None
    BY BookFacts DEF Ready, Leaving
  <1>1. /\ q \in Pars /\ par \in Pars /\ ~Skipped(q) /\ Book[q].smil = Book[par].smil
        /\ q - 1 # par => par < q - 1 /\ q - 1 \in Pars /\ Skipped(q - 1)
    BY BehindSkipped DEF Ready
  <1>2. Shown(q)
    BY <1>0, <1>1, HighlightShows DEF Ready, OverlayOK
  <1>3. Target' = q /\ ~Leaving' /\ par' \in {q, None} /\ q # None
    BY <1>1, <1>2, ShownTarget, BookFacts
  <1>4. /\ file' = file /\ timer' = timer /\ seek' = None /\ waiting' = << >>
        /\ position' = position /\ running' = running
    BY DEF element, Ready
  <1>5. Book[q].file = file /\ Book[par].file = file /\ file # None
    BY <1>1, BookFacts DEF ReadOn, Ready, ElementOK, OnCourse, ReadsPar
  <1>6. LoadingStops' /\ LeavingStops' /\ UsersPageFirst'
    BY <1>3, <1>4 DEF Ready, LoadingStops, LeavingStops, UsersPageFirst
  <1>7. AsksForTarget' /\ WaitingIsEarly'
    BY <1>4 DEF AsksForTarget, WaitingIsEarly
  <1>8. ReadsPar' /\ RunsOut'
    BY <1>3, <1>4, <1>5 DEF ReadsPar, RunsOut
  <1>9. EndIsHeard'
    <2> SUFFICES ASSUME ended', par' # None
                 PROVE  heard' /\ Book[par'].end + 1 >= Length[file']
      BY DEF EndIsHeard
    <2>1. ended
      BY DEF EndedStays
    <2>2. /\ Book[par].end \in Nat /\ Book[q].end \in Nat
          /\ position \in Nat /\ Length[file] \in Nat /\ position <= Length[file]
      BY <1>1, <1>5, BookFacts, LengthFacts DEF Ready, ElementOK
    <2>3. Book[par].end + 1 >= Length[file]
      BY <2>1, BookFacts DEF Ready, OnCourse, EndIsHeard
    <2>4. position = Length[file]
      BY <2>2, <2>3
    <2>5. Out'
      BY <1>3, <1>4, <1>5, <2>4 DEF Out
    <2>6. Book[q].end + 1 >= Length[file]
      <3>0. \A a, b, c \in Nat : a <= b /\ (a = c \/ a + 1 >= c) => b + 1 >= c
        OBVIOUS
      <3>1. CASE q - 1 = par
        <4>1. position <= Book[q].end
          BY <3>1 DEF ReadOn, Reported
        <4> QED
          BY <3>0, <4>1, <2>2, <2>4
      <3>2. CASE q - 1 # par
        <4>1. /\ Book[q].begin <= Book[q - 1].end + 1
              /\ Book[q - 1].end + 1 <= Book[q].end
          BY <3>2 DEF ReadOn, Reported
        <4>2. Book[par].end < Book[q].end
          BY <1>1, <1>5, <3>2, <4>1 DEF SkipsInOrder
        <4>3. \A a, b \in Nat : a < b => a <= b
          OBVIOUS
        <4>4. Book[par].end <= Book[q].end
          BY <4>2, <4>3, <2>2
        <4> QED
          BY <3>0, <4>4, <2>2, <2>3
      <3> QED
        BY <3>1, <3>2
    <2> QED
      BY <2>5, <2>6, <1>3, <1>4, ObserveHeard
  <1> QED
    BY <1>6, <1>7, <1>8, <1>9 DEF OnCourse

LEMMA MoveOutcome ==
    ASSUME Ready, SkipsInOrder, NEW at, NEW forward \in BOOLEAN, NEW playing \in BOOLEAN,
           playing => /\ forward /\ at = position /\ timer
                      /\ position > Book[par].end /\ EndedStays,
           Move(at, forward, playing), EndedStays \/ ended' = FALSE, Observe
    PROVE  OnCourse'
  <1>1. CASE Beyond(par, forward) = {}
    BY <1>1, NextSmilOutcome DEF Move
  <1>2. CASE Beyond(par, forward) # {}
    <2> DEFINE q == Nearest(Beyond(par, forward), forward)
    <2>1. q \in Pars
      BY <1>2, BeyondIn DEF Beyond, Ready
    <2> HIDE DEF q
    <2>2. Highlight(q, doc, opening, highlighted)
      BY <1>2 DEF Move, PlayCurrentPar, q
    <2>3. CASE PlayFile(Book[q].file, Book[q].begin, playing)
      BY <2>1, <2>2, <2>3, PlayOutcome
    <2>4. CASE /\ forward /\ playing /\ ReadOn(q, Reported(q, at)) /\ UNCHANGED element
      <3>1. forward = TRUE
        BY <2>4
      <3>2. q = Nearest(Beyond(par, TRUE), TRUE) /\ Beyond(par, TRUE) # {}
        BY <3>1, <1>2 DEF q
      <3> QED
        BY <2>2, <2>4, <3>2, ReadOnOutcome
    <2> QED
      BY <1>2, <2>3, <2>4 DEF Move, PlayCurrentPar, q
  <1> QED
    BY <1>1, <1>2
-----------------------------------------------------------------------------
(* The steps, while the player is not led astray.                          *)

LEMMA RefreshOutcome ==
    ASSUME ElementOK, OverlayOK, OnCourse, seek = None, waiting = << >>,
           NEW d \in Docs, Refresh(d, None), EndedStays, Observe, ~wasPlaying'
    PROVE  OnCourse'
  <1>1. CASE \A z \in Pars : Book[z].doc # d
    <2>1. par' = None /\ opening' = None
      BY <1>1 DEF Refresh, Reset
    <2> QED
      BY <2>1, IdleOutcome DEF UsersPageFirst
  <1>2. CASE ~\A z \in Pars : Book[z].doc # d
    <2>1. PICK z \in Pars, lit \in Pars \cup {None} :
              /\ Book[z].doc = d
              /\ \/ timer /\ z = par /\ ResumeAudio
                 \/ PlayFile(Book[z].file, Book[z].begin, FALSE)
              /\ Highlight(z, d, None, lit)
              /\ UNCHANGED skipEnded
      BY <1>2 DEF Refresh, PlayCurrentPar, OverlayOK
    <2>2. Shown(z) /\ par' = z /\ (opening' = None \/ opening'.own)
      BY <2>1, HighlightShows
    <2>3. Target' = z /\ ~Leaving' /\ z # None
      BY <2>2, ShownTarget, BookFacts
    <2>4. UsersPageFirst'
      BY <2>2 DEF UsersPageFirst
    <2>5. CASE PlayFile(Book[z].file, Book[z].begin, FALSE)
      <3>1. waiting \in Seq({Request(z)})
        OBVIOUS
      <3>2. /\ seek' # None /\ file' = Book[z].file /\ seek' = Book[z].begin
            /\ waiting' \in Seq({Request(z)}) /\ ~running' /\ ~ended'
        BY <2>5, <3>1, PlayAsks
      <3> QED
        BY <2>2, <2>4, <3>2, AskedOutcome
    <2>6. CASE timer /\ z = par /\ ResumeAudio
      <3>1. /\ timer' = TRUE /\ seek' = None /\ waiting' = << >> /\ file' = file
        BY <2>6 DEF ResumeAudio
      <3>2. ~Leaving
        BY <2>6 DEF OnCourse, LeavingStops
      <3>3. LoadingStops' /\ LeavingStops'
        BY <2>3 DEF LoadingStops, LeavingStops
      <3>4. AsksForTarget' /\ WaitingIsEarly'
        BY <3>1 DEF AsksForTarget, WaitingIsEarly
      <3>5. ReadsPar' /\ RunsOut'
        BY <2>2, <2>3, <2>6, <3>1, <3>2 DEF OnCourse, ReadsPar, RunsOut
      <3>6. EndIsHeard'
        <4> SUFFICES ASSUME ended'
                     PROVE  heard' /\ Book[par'].end + 1 >= Length[file']
          BY DEF EndIsHeard
        <4>1. ended
          BY DEF EndedStays
        <4>2. heard /\ Book[par].end + 1 >= Length[file]
          BY <2>3, <2>6, <3>2, <4>1 DEF OnCourse, EndIsHeard
        <4>3. heard'
          BY <2>2, <2>6, <4>2 DEF Observe
        <4> QED
          BY <2>2, <2>6, <3>1, <4>2, <4>3
      <3> QED
        BY <2>4, <3>3, <3>4, <3>5, <3>6 DEF OnCourse
    <2> QED
      BY <2>1, <2>5, <2>6
  <1> QED
    BY <1>1, <1>2

(* When nothing is on its way.                                             *)
LEMMA SettledFacts ==
    ASSUME OnCourse, Settled
    PROVE  /\ seek = None /\ waiting = << >> /\ opening = None /\ ~ended
           /\ ~wasPlaying /\ ~Leaving
BY DEF Settled, OnCourse, LoadingStops, Leaving

LEMMA PlayOnOutcome ==
    ASSUME ElementOK, OverlayOK, OnCourse, Settled,
           PlayOn, EndedStays, Observe, ~wasPlaying'
    PROVE  OnCourse'
  <1>0. /\ seek = None /\ waiting = << >> /\ opening = None /\ ~ended /\ ~Leaving
    BY SettledFacts
  <1>1. CASE par # None /\ file # None
    <2>1. /\ ResumeAudio /\ Highlight(par, doc, None, highlighted)
          /\ par \in Pars
      BY <1>0, <1>1 DEF PlayOn, OverlayOK
    <2>2. Shown(par) /\ (opening' = None \/ opening'.own)
      BY <2>1, HighlightShows DEF OverlayOK
    <2>3. ~Leaving' /\ par' \in {par, None}
      BY <2>1, <2>2, ShownTarget
    <2>4. timer' = TRUE /\ seek' = None /\ waiting' = << >> /\ file' = file /\ ~ended'
      BY <1>0, <2>1 DEF ResumeAudio, EndedStays
    <2>5. LoadingStops' /\ LeavingStops' /\ UsersPageFirst'
      BY <2>3, <2>4 DEF LoadingStops, LeavingStops, UsersPageFirst
    <2>6. AsksForTarget' /\ WaitingIsEarly'
      BY <2>4 DEF AsksForTarget, WaitingIsEarly
    <2>7. ReadsPar' /\ RunsOut' /\ EndIsHeard'
      BY <1>0, <1>1, <2>3, <2>4 DEF OnCourse, ReadsPar, RunsOut, EndIsHeard
    <2> QED
      BY <2>5, <2>6, <2>7 DEF OnCourse
  <1>2. CASE ~(par # None /\ file # None)
    <2>1. Refresh(doc, None) /\ doc \in Docs
      BY <1>0, <1>2 DEF PlayOn, OverlayOK
    <2> QED
      BY <1>0, <2>1, RefreshOutcome
  <1> QED
    BY <1>1, <1>2

LEMMA UserOutcome ==
    ASSUME ElementOK, OverlayOK, OnCourse, SkipsInOrder, Settled, User
    PROVE  OnCourse'
  <1>0. /\ seek = None /\ waiting = << >> /\ opening = None /\ ~ended
        /\ ~wasPlaying /\ ~Leaving
    BY SettledFacts
  <1>1. CASE Toggle
    <2>0. ~wasPlaying' /\ EndedStays /\ Observe
      BY <1>0, <1>1 DEF Toggle, Command
    <2>1. CASE timer
      <3>1. /\ par' = par /\ opening' = None /\ timer' = FALSE /\ running' = FALSE
            /\ file' = file /\ seek' = None /\ waiting' = << >> /\ ~ended'
        BY <1>0, <1>1, <2>0, <2>1 DEF Toggle, Pause, PauseAudio, EndedStays
      <3>2. ~Leaving'
        BY <3>1 DEF Leaving
      <3>3. LoadingStops' /\ LeavingStops' /\ UsersPageFirst'
        BY <2>0, <3>1, <3>2 DEF LoadingStops, LeavingStops, UsersPageFirst
      <3>4. AsksForTarget' /\ WaitingIsEarly'
        BY <3>1 DEF AsksForTarget, WaitingIsEarly
      <3>5. ReadsPar' /\ RunsOut' /\ EndIsHeard'
        BY <1>0, <3>1, <3>2 DEF OnCourse, ReadsPar, RunsOut, EndIsHeard
      <3> QED
        BY <3>3, <3>4, <3>5 DEF OnCourse
    <2>2. CASE ~timer
      BY <1>1, <2>0, <2>2, PlayOnOutcome DEF Toggle
    <2> QED
      BY <2>1, <2>2
  <1>2. ASSUME NEW forward \in BOOLEAN, NextOrPrevious(forward)
        PROVE  OnCourse'
    <2>0. ~wasPlaying' /\ EndedStays /\ Observe
      BY <1>0, <1>2 DEF NextOrPrevious, Command
    <2>1. CASE par # None /\ timer
      <3>1. Ready
        BY <1>0, <2>0, <2>1 DEF Ready, OverlayOK
      <3>2. Move(Book[par].end + 1, forward, FALSE)
        BY <1>2, <2>1 DEF NextOrPrevious
      <3> QED
        BY <2>0, <3>1, <3>2, MoveOutcome
    <2>2. CASE ~(par # None /\ timer)
      BY <1>2, <2>0, <2>2, PlayOnOutcome DEF NextOrPrevious
    <2> QED
      BY <2>1, <2>2
  <1>3. ASSUME NEW d \in Docs, TurnPage(d)
        PROVE  OnCourse'
    <2>1. PICK r : r = Page(None, d, FALSE)
      OBVIOUS
    <2>2. r \in Pages /\ r.to = None
      BY <2>1 DEF Page, Pages
    <2>3. /\ par' = par /\ opening' = r /\ ~wasPlaying' /\ UNCHANGED audio
      BY <1>0, <1>3, <2>1 DEF TurnPage, Command, iterator
    <2>4. /\ file' = file /\ timer' = timer /\ seek' = None /\ waiting' = << >>
          /\ running' = running /\ ~ended'
      BY <1>0, <2>3 DEF audio, element
    <2>5. ~Leaving'
      BY <2>2, <2>3 DEF Leaving
    <2>6. LoadingStops' /\ LeavingStops' /\ UsersPageFirst'
      BY <2>3, <2>4, <2>5 DEF LoadingStops, LeavingStops, UsersPageFirst
    <2>7. AsksForTarget' /\ WaitingIsEarly'
      BY <2>4 DEF AsksForTarget, WaitingIsEarly
    <2>8. ReadsPar' /\ RunsOut' /\ EndIsHeard'
      BY <1>0, <2>3, <2>4, <2>5 DEF OnCourse, ReadsPar, RunsOut, EndIsHeard
    <2> QED
      BY <2>6, <2>7, <2>8 DEF OnCourse
  <1> QED
    BY <1>1, <1>2, <1>3 DEF User

(* A page that loads, other than the user's, was asked for with no par in  *)
(* hand or for the one that was reached.                                   *)
LEMMA OwnPageLoads ==
    ASSUME OverlayOK, opening # None, opening.own, opening.doc # doc, par # None
    PROVE  Leaving
BY DEF OverlayOK, PageOK, Leaving

LEMMA TickReady ==
    ASSUME ElementOK, OverlayOK, OnCourse, Tick, ~(par = None \/ position <= Book[par].end)
    PROVE  Ready /\ position > Book[par].end
  <1>1. /\ timer /\ seek = None /\ wasPlaying' = wasPlaying
    BY DEF Tick
  <1>2. ~Leaving
    BY <1>1 DEF OnCourse, LeavingStops
  <1>3. par \in Pars /\ par # None
    BY DEF OverlayOK
  <1>4. Book[par].end \in Nat /\ position \in Nat /\ position > Book[par].end
    BY <1>3, BookFacts DEF ElementOK
  <1>5. waiting = << >>
    <2>1. Target # None
      BY <1>3 DEF Target
    <2> QED
      BY <1>1, <1>3, <2>1 DEF OnCourse, WaitingIsEarly
  <1>6. ~wasPlaying'
    BY <1>1, <1>3 DEF OnCourse, LoadingStops
  <1> QED
    BY <1>1, <1>2, <1>3, <1>4, <1>5, <1>6 DEF Ready

LEMMA TickOutcome ==
    ASSUME ElementOK, OverlayOK, OnCourse, SkipsInOrder, Tick
    PROVE  OnCourse'
  <1>0. /\ timer /\ seek = None /\ EndedStays /\ Observe
        /\ wasPlaying' = wasPlaying
    BY DEF Tick
  <1>1. ~Leaving
    BY <1>0 DEF OnCourse, LeavingStops
  <1>2. CASE par = None \/ position <= Book[par].end
    <2>1. /\ UNCHANGED <<par, opening>> /\ UNCHANGED element /\ skipEnded' = FALSE
      BY <1>2 DEF Tick, WithinPar, iterator
    <2>2. UNCHANGED <<file, timer, seek, waiting, position, running>>
      BY <2>1 DEF element
    <2>3. (ended' => ended) /\ ~Leaving' /\ Target' = Target
      BY <1>1, <2>1 DEF EndedStays, Leaving, Target, Tick
    <2>4. LoadingStops' /\ LeavingStops' /\ UsersPageFirst'
      BY <1>0, <2>1, <2>2, <2>3
      DEF OnCourse, LoadingStops, LeavingStops, UsersPageFirst
    <2>5. AsksForTarget' /\ WaitingIsEarly'
      BY <2>1, <2>2, <2>3 DEF OnCourse, AsksForTarget, WaitingIsEarly
    <2>6. ReadsPar' /\ RunsOut'
      BY <1>1, <2>1, <2>2, <2>3 DEF OnCourse, ReadsPar, RunsOut
    <2>7. EndIsHeard'
      <3>1. par' # None /\ ended' => heard /\ Book[par].end + 1 >= Length[file]
        BY <1>1, <2>1, <2>3 DEF OnCourse, EndIsHeard
      <3>2. heard => heard'
        BY <1>0, <2>1 DEF Observe
      <3> QED
        BY <2>1, <2>2, <3>1, <3>2 DEF EndIsHeard
    <2> QED
      BY <2>4, <2>5, <2>6, <2>7 DEF OnCourse
  <1>3. CASE ~(par = None \/ position <= Book[par].end)
    <2>1. Move(position, TRUE, TRUE)
      BY <1>3 DEF Tick
    <2> QED
      BY <1>0, <1>3, <2>1, TickReady, MoveOutcome
  <1> QED
    BY <1>2, <1>3
LEMMA HearEndedReady ==
    ASSUME ElementOK, OverlayOK, OnCourse, HearEnded, ~astray', ~skipEnded, par # None
    PROVE  Ready
  <1>1. /\ ended /\ seek = None /\ wasPlaying' = wasPlaying
        /\ opening # None => opening.own
    BY DEF HearEnded, ElementOK
  <1>2. par \in Pars
    BY DEF OverlayOK
  <1>3. ~Leaving
    BY <1>1 DEF OnCourse, LeavingStops
  <1>4. waiting = << >>
    <2>1. Target # None
      BY DEF Target
    <2> QED
      BY <1>1, <2>1 DEF OnCourse, WaitingIsEarly
  <1>5. ~wasPlaying'
    <2> SUFFICES ASSUME wasPlaying PROVE FALSE
      BY <1>1
    <2>1. opening # None /\ opening.own /\ opening.doc # doc
      BY <1>1 DEF OnCourse, LoadingStops, OverlayOK, PageOK
    <2> QED
      BY <2>1, <1>3, OwnPageLoads
  <1> QED
    BY <1>1, <1>2, <1>3, <1>4, <1>5 DEF Ready

LEMMA HearEndedOutcome ==
    ASSUME ElementOK, OverlayOK, OnCourse, SkipsInOrder, HearEnded, ~astray'
    PROVE  OnCourse'
  <1>0. /\ ended /\ ~ended' /\ ended' = FALSE /\ seek = None /\ Observe
        /\ wasPlaying' = wasPlaying
        /\ opening # None => opening.own
    BY DEF HearEnded, ElementOK
  <1>1. CASE skipEnded
    <2>1. /\ timer' = FALSE
          /\ UNCHANGED <<par, file, seek, waiting, position, running, opening>>
      BY <1>0, <1>1 DEF HearEnded, iterator
    <2>2. (Leaving' <=> Leaving) /\ Target' = Target
      BY <2>1 DEF Leaving, Target
    <2>3. LoadingStops' /\ LeavingStops' /\ UsersPageFirst'
      BY <1>0, <2>1, <2>2
      DEF OnCourse, LoadingStops, LeavingStops, UsersPageFirst
    <2>4. AsksForTarget' /\ WaitingIsEarly'
      BY <1>0, <2>1, <2>2 DEF OnCourse, AsksForTarget, WaitingIsEarly
    <2>5. ReadsPar' /\ EndIsHeard'
      BY <1>0, <2>1, <2>2 DEF OnCourse, ReadsPar, EndIsHeard
    <2>6. RunsOut'
      BY <1>0, <2>1 DEF OnCourse, RunsOut, EndIsHeard, LeavingStops
    <2> QED
      BY <2>3, <2>4, <2>5, <2>6 DEF OnCourse
  <1>2. CASE ~skipEnded /\ par = None
    <2>1. /\ par' = None /\ UNCHANGED <<waiting, opening>>
          /\ timer' = FALSE /\ seek' = None /\ running' = FALSE
      BY <1>0, <1>2 DEF HearEnded, Reset, ResetAudio
    <2>2. ~Leaving' /\ Target' = Target
      BY <1>2, <2>1 DEF Leaving, Target
    <2>3. LoadingStops' /\ LeavingStops' /\ UsersPageFirst'
      BY <1>0, <2>1, <2>2
      DEF OnCourse, LoadingStops, LeavingStops, UsersPageFirst
    <2>4. AsksForTarget' /\ WaitingIsEarly'
      BY <1>0, <2>1, <2>2 DEF OnCourse, AsksForTarget, WaitingIsEarly
    <2>5. ReadsPar' /\ EndIsHeard' /\ RunsOut'
      BY <2>1 DEF ReadsPar, EndIsHeard, RunsOut
    <2> QED
      BY <2>3, <2>4, <2>5 DEF OnCourse
  <1>3. CASE ~skipEnded /\ par # None
    <2>1. Move(Book[par].end + 1, TRUE, FALSE)
      BY <1>0, <1>3 DEF HearEnded
    <2> QED
      BY <1>0, <1>3, <2>1, HearEndedReady, MoveOutcome
  <1> QED
    BY <1>1, <1>2, <1>3

LEMMA DocLoadStartOutcome ==
    ASSUME ElementOK, OverlayOK, OnCourse, DocLoadStart, ~astray'
    PROVE  OnCourse'
  <1>0. /\ opening # None /\ opening.doc # doc /\ ~opening.loading
        /\ opening' = [opening EXCEPT !.loading = TRUE]
        /\ EndedStays /\ Observe /\ UNCHANGED <<par, skipEnded>>
        /\ ~opening.own => seek = None
    BY DEF DocLoadStart, Pause, iterator
  <1>1. opening \in Pages
    BY <1>0 DEF OverlayOK, PageOK
  <1>2. /\ opening' \in Pages /\ opening'.to = opening.to /\ opening'.own = opening.own
        /\ opening'.loading = TRUE
    BY <1>0, <1>1 DEF Pages
  <1>3. opening' # None
    BY <1>2, PageFields
  <1>4. (Leaving' <=> Leaving) /\ Target' = Target
    BY <1>0, <1>2, <1>3 DEF Leaving, Target
  <1>5. ended' => ended
    BY <1>0 DEF EndedStays
  <1>6. ended /\ par # None /\ ~Leaving => heard'
    BY <1>0 DEF Observe, OnCourse, EndIsHeard
  <1>7. CASE timer
    <2>1. /\ timer' = FALSE /\ running' = FALSE /\ wasPlaying' = TRUE
          /\ UNCHANGED <<file, seek, waiting, position>>
      BY <1>7 DEF DocLoadStart, Pause, PauseAudio
    <2>2. ~Leaving
      BY <1>7 DEF OnCourse, LeavingStops
    <2>3. par # None => ~opening.own
      BY <1>0, <2>2, OwnPageLoads
    <2>4. par # None => seek' = None /\ waiting' = << >>
      BY <1>0, <2>1, <2>3 DEF OnCourse, UsersPageFirst
    <2>5. LoadingStops' /\ LeavingStops' /\ UsersPageFirst'
      BY <1>2, <1>3, <1>4, <1>0, <2>1, <2>2, <2>4
      DEF OnCourse, LoadingStops, LeavingStops, UsersPageFirst
    <2>6. AsksForTarget' /\ WaitingIsEarly'
      BY <1>0, <1>4, <1>5, <2>1 DEF OnCourse, AsksForTarget, WaitingIsEarly
    <2>7. ReadsPar' /\ EndIsHeard' /\ RunsOut'
      BY <1>0, <1>4, <1>5, <1>6, <2>1 DEF OnCourse, ReadsPar, EndIsHeard, RunsOut
    <2> QED
      BY <2>5, <2>6, <2>7 DEF OnCourse
  <1>8. CASE ~timer
    <2>1. UNCHANGED <<timer, running, wasPlaying, file, seek, waiting, position>>
      BY <1>8 DEF DocLoadStart, element
    <2>2. LoadingStops'
      BY <1>0, <1>3, <1>2, <2>1 DEF OnCourse, LoadingStops
    <2>3. LeavingStops'
      BY <1>0, <1>2, <1>4, <1>5, <2>1 DEF OnCourse, LeavingStops
    <2>4. UsersPageFirst'
      BY <1>0, <1>2, <2>1 DEF OnCourse, UsersPageFirst
    <2>5. AsksForTarget' /\ WaitingIsEarly'
      BY <1>0, <1>4, <1>5, <2>1 DEF OnCourse, AsksForTarget, WaitingIsEarly
    <2>6. ReadsPar' /\ EndIsHeard' /\ RunsOut'
      BY <1>0, <1>4, <1>5, <1>6, <2>1 DEF OnCourse, ReadsPar, EndIsHeard, RunsOut
    <2> QED
      BY <2>2, <2>3, <2>4, <2>5, <2>6 DEF OnCourse
  <1> QED
    BY <1>7, <1>8

LEMMA OwnPageOutcome ==
    ASSUME ElementOK, OverlayOK, OnCourse, opening # None, opening.own,
           NEW d \in Docs, OwnPage(d, timer \/ wasPlaying),
           EndedStays, Observe, ~wasPlaying', UNCHANGED skipEnded
    PROVE  OnCourse'
  <1>0. opening.to \in Pars \cup {None}
    BY PageFields DEF OverlayOK, PageOK
  <1> DEFINE p == IF par = None THEN opening.to ELSE par
  <1>1. CASE p = None \/ (opening.to # None /\ opening.to # p)
    <2>1. opening' = None /\ par' = par
      BY <1>1 DEF OwnPage, iterator
    <2>2. par = None
      <3> SUFFICES ASSUME par # None PROVE FALSE
        OBVIOUS
      <3> QED
        BY <1>1 DEF OnCourse, LeavingStops, Leaving
    <2> QED
      BY <2>1, <2>2, IdleOutcome DEF UsersPageFirst
  <1>2. CASE /\ ~(p = None \/ (opening.to # None /\ opening.to # p))
             /\ par # None /\ (timer \/ wasPlaying)
    <2>1. /\ opening' = None /\ par' = par /\ UNCHANGED element
      BY <1>2 DEF OwnPage, iterator
    <2>2. UNCHANGED <<file, timer, seek, waiting, position, running>>
      BY <2>1 DEF element
    <2>3. ~Leaving /\ ~Leaving' /\ Target' = Target
      BY <1>2, <2>1 DEF OnCourse, LeavingStops, Leaving, Target
    <2>4. LoadingStops' /\ LeavingStops' /\ UsersPageFirst'
      BY <2>1, <2>3 DEF LoadingStops, LeavingStops, UsersPageFirst
    <2>5. ended' => ended
      BY DEF EndedStays
    <2>6. AsksForTarget' /\ WaitingIsEarly'
      BY <2>1, <2>2, <2>3, <2>5 DEF OnCourse, AsksForTarget, WaitingIsEarly
    <2>7. heard => heard'
      BY <2>1 DEF Observe
    <2>8. ReadsPar' /\ RunsOut'
      BY <2>1, <2>2, <2>3 DEF OnCourse, ReadsPar, RunsOut
    <2>9. EndIsHeard'
      BY <2>1, <2>2, <2>3, <2>5, <2>7 DEF OnCourse, EndIsHeard
    <2> QED
      BY <2>4, <2>6, <2>8, <2>9 DEF OnCourse
  <1>3. CASE /\ ~(p = None \/ (opening.to # None /\ opening.to # p))
             /\ ~(par # None /\ (timer \/ wasPlaying))
    <2>1. /\ PlayFile(Book[p].file, Book[p].begin, timer)
          /\ Highlight(p, d, None, highlighted)
      BY <1>3 DEF OwnPage, PlayCurrentPar
    <2>2. p \in Pars /\ Target = p /\ p # None
      BY <1>0, <1>3 DEF OverlayOK, Target
    <2> HIDE DEF p
    <2>3. /\ seek # None => file = Book[p].file /\ seek = Book[p].begin
          /\ waiting \in Seq({Request(p)})
      BY <2>2 DEF OnCourse, AsksForTarget
    <2>4. /\ seek' # None /\ file' = Book[p].file /\ seek' = Book[p].begin
          /\ waiting' \in Seq({Request(p)}) /\ ~running' /\ ~ended'
      BY <2>1, <2>2, <2>3, PlayAsks
    <2>5. Shown(p) /\ (opening' = None \/ opening'.own)
      BY <2>1, <2>2, HighlightShows
    <2>6. UsersPageFirst'
      BY <2>5 DEF UsersPageFirst
    <2> QED
      BY <2>2, <2>4, <2>5, <2>6, AskedOutcome
  <1> QED
    BY <1>1, <1>2, <1>3

LEMMA PageChangedOutcome ==
    ASSUME ElementOK, OverlayOK, OnCourse, PageChanged, ~astray'
    PROVE  OnCourse'
  <1>0. /\ opening # None /\ doc' = opening.doc /\ ~wasPlaying'
        /\ EndedStays /\ Observe
        /\ ~opening.own => seek = None
    BY DEF PageChanged
  <1>1. doc' \in Docs
    BY <1>0, PageFields DEF OverlayOK, PageOK
  <1>2. CASE opening.own
    <2>1. OwnPage(doc', timer \/ wasPlaying) /\ UNCHANGED skipEnded
      BY <1>2 DEF PageChanged
    <2> QED
      BY <1>0, <1>1, <1>2, <2>1, OwnPageOutcome
  <1>3. CASE ~opening.own /\ Reset /\ opening' = None
    <2>1. par' = None
      BY <1>3 DEF Reset
    <2> QED
      BY <1>0, <1>3, <2>1, IdleOutcome DEF UsersPageFirst
  <1>4. CASE ~opening.own /\ Refresh(doc', None)
    <2>1. waiting = << >>
      BY <1>0, <1>4 DEF OnCourse, UsersPageFirst
    <2> QED
      BY <1>0, <1>1, <1>4, <2>1, RefreshOutcome
  <1> QED
    BY <1>2, <1>3, <1>4 DEF PageChanged

LEMMA ElapseOutcome ==
    ASSUME ElementOK, OverlayOK, OnCourse, Prompt, Elapse
    PROVE  OnCourse'
  <1>0. /\ running /\ seek = None /\ waiting = << >> /\ file # None
        /\ position' = position + 1 /\ Observe
        /\ timer /\ par # None => ~(position > Book[par].end)
        /\ running' = (position' < Length[file])
        /\ ended' = (ended \/ position' = Length[file])
        /\ UNCHANGED <<par, wasPlaying, file, timer, seek, waiting, opening>>
    BY DEF Elapse, Due, ElementOK, overlay, iterator
  <1>1. ~Leaving /\ ~Leaving' /\ Target' = Target
    BY <1>0 DEF OnCourse, LeavingStops, Leaving, Target
  <1>2. LoadingStops' /\ LeavingStops' /\ UsersPageFirst'
    BY <1>0, <1>1 DEF OnCourse, LoadingStops, LeavingStops, UsersPageFirst
  <1>3. AsksForTarget' /\ WaitingIsEarly'
    BY <1>0, <1>1 DEF OnCourse, AsksForTarget, WaitingIsEarly
  <1>4. ReadsPar' /\ RunsOut'
    BY <1>0, <1>1 DEF OnCourse, ReadsPar, RunsOut
  <1>5. EndIsHeard'
    <2> SUFFICES ASSUME ended', par # None
                 PROVE  heard' /\ Book[par].end + 1 >= Length[file]
      BY <1>0 DEF EndIsHeard
    <2>1. CASE ended
      <3>1. heard /\ Book[par].end + 1 >= Length[file]
        BY <2>1, <1>1 DEF OnCourse, EndIsHeard
      <3> QED
        BY <1>0, <3>1 DEF Observe
    <2>2. CASE position' = Length[file]
      <3>1. Out'
        BY <1>0, <1>1, <2>2 DEF Out, OnCourse, ReadsPar
      <3>2. par \in Pars
        BY DEF OverlayOK
      <3>3. Book[par].end \in Nat /\ position \in Nat
        BY <3>2, BookFacts DEF ElementOK
      <3>4. \A i, j \in Nat : ~(i > j) => j + 1 >= i + 1
        OBVIOUS
      <3>5. Book[par].end + 1 >= Length[file]
        <4>1. CASE timer
          BY <1>0, <2>2, <3>3, <3>4, <4>1
        <4>2. CASE ~timer
          BY <1>0, <4>2 DEF OnCourse, RunsOut
        <4> QED
          BY <4>1, <4>2
      <3> QED
        BY <1>0, <3>1, <3>5, ObserveHeard
    <2> QED
      BY <1>0, <2>1, <2>2
  <1> QED
    BY <1>2, <1>3, <1>4, <1>5 DEF OnCourse

LEMMA PreloadOutcome ==
    ASSUME ElementOK, OnCourse, Preload
    PROVE  OnCourse'
  <1>0. /\ seek # None /\ seek' # None /\ ~running' /\ ~ended'
        /\ UNCHANGED <<par, wasPlaying, file, seek, waiting, opening>>
    BY DEF Preload, ElementOK, overlay, iterator
  <1>1. ~Leaving /\ ~Leaving' /\ Target' = Target
    BY <1>0 DEF OnCourse, LeavingStops, Leaving, Target
  <1>2. LoadingStops' /\ LeavingStops' /\ UsersPageFirst'
    BY <1>0, <1>1 DEF OnCourse, LoadingStops, LeavingStops, UsersPageFirst
  <1>3. AsksForTarget' /\ WaitingIsEarly'
    BY <1>0, <1>1 DEF OnCourse, AsksForTarget, WaitingIsEarly
  <1>4. ReadsPar' /\ EndIsHeard' /\ RunsOut'
    BY <1>0 DEF ReadsPar, EndIsHeard, RunsOut
  <1> QED
    BY <1>2, <1>3, <1>4 DEF OnCourse

LEMMA SeekDoneOutcome ==
    ASSUME ElementOK, OverlayOK, OnCourse, SeekDone
    PROVE  OnCourse'
  <1>0. /\ seek # None /\ seek' = None /\ position' = seek /\ timer' = TRUE
        /\ seek \in Nat /\ file # None /\ ~ended /\ seek < Length[file]
        /\ ended' = (ended \/ seek = Length[file])
        /\ UNCHANGED <<par, wasPlaying, file, waiting, opening>>
    BY DEF SeekDone, ElementOK, overlay, iterator
  <1>1. ~ended'
    BY <1>0, LengthFacts DEF ElementOK
  <1>2. ~Leaving /\ ~Leaving' /\ Target' = Target
    BY <1>0 DEF OnCourse, LeavingStops, Leaving, Target
  <1>3. LoadingStops' /\ LeavingStops' /\ UsersPageFirst'
    BY <1>0, <1>2 DEF OnCourse, LoadingStops, LeavingStops, UsersPageFirst
  <1>4. par # None => /\ file = Book[par].file /\ seek = Book[par].begin
                      /\ Book[par].begin <= Book[par].end
    BY <1>0, BookFacts DEF OnCourse, AsksForTarget, Target, OverlayOK
  <1>5. AsksForTarget' /\ WaitingIsEarly'
    BY <1>0, <1>1, <1>2, <1>4 DEF OnCourse, AsksForTarget, WaitingIsEarly
  <1>6. ReadsPar' /\ EndIsHeard' /\ RunsOut'
    BY <1>0, <1>1, <1>4 DEF ReadsPar, EndIsHeard, RunsOut
  <1> QED
    BY <1>3, <1>5, <1>6 DEF OnCourse

LEMMA PlayWaitingOutcome ==
    ASSUME ElementOK, OverlayOK, OnCourse, PlayWaiting
    PROVE  OnCourse'
  <1>0. /\ waiting # << >> /\ seek = None /\ waiting \in Seq(Requests)
        /\ file' = Head(waiting)[1] /\ seek' = Head(waiting)[2]
        /\ timer' = FALSE /\ running' = FALSE /\ waiting' = Tail(waiting)
        /\ UNCHANGED <<par, wasPlaying, opening>> /\ EndedStays
    BY DEF PlayWaiting, ElementOK, overlay, iterator
  <1>1. ~Leaving /\ ~Leaving' /\ Target' = Target
    BY <1>0 DEF OnCourse, LeavingStops, Leaving, Target
  <1>2. Head(waiting) \in Requests
    BY <1>0
  <1>3. seek' # None /\ ~ended'
    BY <1>0, <1>2, RequestFacts, BookAssumption DEF EndedStays
  <1>4. LoadingStops' /\ LeavingStops' /\ UsersPageFirst'
    BY <1>0, <1>1 DEF OnCourse, LoadingStops, LeavingStops, UsersPageFirst
  <1>5. AsksForTarget'
    <2> SUFFICES ASSUME Target # None
                 PROVE  /\ file' = Book[Target].file /\ seek' = Book[Target].begin
                        /\ waiting' \in Seq({Request(Target)})
      BY <1>1 DEF AsksForTarget
    <2>1. waiting \in Seq({Request(Target)})
      BY DEF OnCourse, AsksForTarget
    <2>2. Head(waiting) \in {Request(Target)} /\ Tail(waiting) \in Seq({Request(Target)})
      BY <1>0, <2>1
    <2>3. Head(waiting)[1] = Book[Target].file /\ Head(waiting)[2] = Book[Target].begin
      BY <2>2 DEF Request
    <2> QED
      BY <1>0, <2>2, <2>3
  <1>6. WaitingIsEarly'
    BY <1>3 DEF WaitingIsEarly
  <1>7. ReadsPar' /\ EndIsHeard' /\ RunsOut'
    BY <1>0, <1>3 DEF ReadsPar, EndIsHeard, RunsOut
  <1> QED
    BY <1>4, <1>5, <1>6, <1>7 DEF OnCourse
-----------------------------------------------------------------------------
(* Every step. *)

PlayerInv ==
    /\ ElementOK /\ OverlayOK /\ OutIsHeard
    /\ ~astray => OnCourse

LEMMA PlayerStarts == Init => PlayerInv
  <1> SUFFICES ASSUME Init PROVE PlayerInv
    OBVIOUS
  <1>1. ElementOK
    <2>1. waiting \in Seq(Requests)
      BY DEF Init
    <2> QED
      BY <2>1 DEF Init, ElementOK
  <1>2. OverlayOK
    BY NoPage DEF Init, OverlayOK
  <1>3. OutIsHeard
    BY DEF Init, OutIsHeard, Out
  <1>4. Target = None /\ ~Leaving
    BY DEF Init, Target, Leaving
  <1>5. LoadingStops /\ LeavingStops /\ UsersPageFirst
    BY <1>4 DEF Init, LoadingStops, LeavingStops, UsersPageFirst
  <1>6. AsksForTarget /\ WaitingIsEarly /\ ReadsPar /\ EndIsHeard /\ RunsOut
    BY <1>4 DEF Init, AsksForTarget, WaitingIsEarly, ReadsPar, EndIsHeard, RunsOut
  <1> QED
    BY <1>1, <1>2, <1>3, <1>5, <1>6 DEF PlayerInv, OnCourse

LEMMA NextObserves == Next => Observe
BY DEF Next, User, Toggle, NextOrPrevious, TurnPage, Tick, HearEnded,
       DocLoadStart, PageChanged, Elapse, Preload, SeekDone, PlayWaiting

LEMMA AstrayForGood ==
    ASSUME Next, ~astray'
    PROVE  ~astray /\ (User => Settled)
  <1>1. ASSUME User PROVE ~astray /\ Settled
    BY <1>1 DEF User, Toggle, NextOrPrevious, TurnPage, Command
  <1>2. ASSUME ~User PROVE ~astray
    BY <1>2 DEF Next, Tick, HearEnded, DocLoadStart, PageChanged, Elapse,
                Preload, SeekDone, PlayWaiting
  <1> QED
    BY <1>1, <1>2

LEMMA PlayerStep ==
    ASSUME SkipsInOrder, Prompt, PlayerInv, [Next]_vars
    PROVE  PlayerInv'
  <1>1. ElementOK' /\ OverlayOK'
    BY ElementStep, OverlayStep DEF PlayerInv
  <1>2. CASE UNCHANGED vars
    <2>1. /\ UNCHANGED <<par, skipEnded, wasPlaying, file, timer, seek, waiting,
                         position, running, ended, opening, astray, heard>>
      BY <1>2 DEF vars, overlay, iterator, audio, element
    <2>2. (Out' <=> Out) /\ (Leaving' <=> Leaving) /\ Target' = Target
      BY <2>1 DEF Out, Leaving, Target
    <2>3. OutIsHeard'
      BY <2>1, <2>2 DEF PlayerInv, OutIsHeard
    <2>4. ASSUME ~astray' PROVE OnCourse'
      <3>1. OnCourse
        BY <2>1, <2>4 DEF PlayerInv
      <3>2. LoadingStops' /\ LeavingStops' /\ UsersPageFirst'
        BY <2>1, <2>2, <3>1 DEF OnCourse, LoadingStops, LeavingStops, UsersPageFirst
      <3>3. AsksForTarget' /\ WaitingIsEarly'
        BY <2>1, <2>2, <3>1 DEF OnCourse, AsksForTarget, WaitingIsEarly
      <3>4. ReadsPar' /\ EndIsHeard' /\ RunsOut'
        BY <2>1, <2>2, <3>1 DEF OnCourse, ReadsPar, EndIsHeard, RunsOut
      <3> QED
        BY <3>2, <3>3, <3>4 DEF OnCourse
    <2> QED
      BY <1>1, <2>3, <2>4 DEF PlayerInv
  <1>3. CASE Next
    <2>1. OutIsHeard'
      BY <1>3, NextObserves, ObserveHeard DEF OutIsHeard
    <2>2. ASSUME ~astray' PROVE OnCourse'
      <3>1. ElementOK /\ OverlayOK /\ OnCourse /\ (User => Settled)
        BY <1>3, <2>2, AstrayForGood DEF PlayerInv
      <3> QED
        BY <1>3, <2>2, <3>1, UserOutcome, TickOutcome, HearEndedOutcome,
           DocLoadStartOutcome, PageChangedOutcome, ElapseOutcome,
           PreloadOutcome, SeekDoneOutcome, PlayWaitingOutcome DEF Next
    <2> QED
      BY <1>1, <2>1, <2>2 DEF PlayerInv
  <1> QED
    BY <1>2, <1>3

(* The types of the player's state, whatever the book and the timers.      *)
THEOREM OverlayTypes == Spec => []TypeOK
  <1> DEFINE I == ElementOK /\ OverlayOK
  <1>1. Init => I
    BY PlayerStarts DEF PlayerInv
  <1>2. I /\ [Next]_vars => I'
    BY ElementStep, OverlayStep
  <1>3. I => TypeOK
    <2> SUFFICES ASSUME I PROVE TypeOK
      OBVIOUS
    <2>1. waiting \in Seq(Files \X Nat)
      BY DEF ElementOK, Requests
    <2>2. opening \in Pages \cup {None} /\ doc \in Docs /\ commands \in Nat
      BY DEF OverlayOK, PageOK
    <2>3. {par, highlighted} \subseteq Pars \cup {None}
      BY DEF OverlayOK
    <2>4. {skipEnded, wasPlaying, wanted, astray, heard} \subseteq BOOLEAN
      BY DEF OverlayOK
    <2>5. {timer, running, ended} \subseteq BOOLEAN
      BY DEF ElementOK
    <2>6. {skipEnded, wasPlaying, timer, running, ended, wanted, astray,
           heard} \subseteq BOOLEAN
      BY <2>4, <2>5
    <2>7. /\ file \in Files \cup {None}
          /\ position \in Nat /\ seek \in Nat \cup {None}
      BY DEF ElementOK
    <2> QED
      BY <2>1, <2>2, <2>3, <2>6, <2>7 DEF TypeOK
  <1> QED
    BY <1>1, <1>2, <1>3, PTL DEF Spec

(* A step of its own takes the player past a par only when it was read to  *)
(* its end.                                                                *)
LEMMA MovesOnlyWhenHeard ==
    ASSUME PlayerInv, ~astray, Tick \/ HearEnded, par # None, par' # par
    PROVE  heard
  <1>0. OnCourse /\ ElementOK /\ OverlayOK /\ par \in Pars
    BY DEF PlayerInv, OverlayOK
  <1>1. CASE Tick
    <2>1. timer /\ seek = None
      BY <1>1 DEF Tick
    <2>2. ~Leaving
      BY <1>0, <2>1 DEF OnCourse, LeavingStops
    <2>3. ~(position <= Book[par].end)
      BY <1>1 DEF Tick, WithinPar, iterator
    <2>4. position >= Book[par].end
      <3>1. position \in Nat /\ Book[par].end \in Nat
        BY <1>0, BookFacts DEF ElementOK
      <3> QED
        BY <2>3, <3>1
    <2>5. Out
      BY <1>0, <2>1, <2>2, <2>4 DEF Out, OnCourse, ReadsPar
    <2> QED
      BY <2>5 DEF PlayerInv, OutIsHeard
  <1>2. CASE HearEnded
    <2>1. ended /\ ~skipEnded
      BY <1>2 DEF HearEnded, iterator
    <2>2. ~Leaving
      BY <1>0, <2>1 DEF OnCourse, LeavingStops
    <2> QED
      BY <1>0, <2>1, <2>2 DEF OnCourse, EndIsHeard
  <1> QED
    BY <1>1, <1>2

(* The overlay does not pass a par that was not read to its end: not when  *)
(* a tick and the end of the file come together, not when the end belongs  *)
(* to a file that was left, and not when a page is still to be opened.     *)
THEOREM OnlyTheHeard ==
    ASSUME Prompt, SkipsInOrder
    PROVE  Spec => OnlyTheHeardIsPassed
  <1>1. Init => PlayerInv
    BY PlayerStarts
  <1>2. PlayerInv /\ [Next]_vars => PlayerInv'
    BY PlayerStep
  <1>3. PlayerInv /\ [Next]_vars
            => [(Tick \/ HearEnded) /\ par # None /\ par' # par /\ ~astray
                    => heard]_vars
    BY MovesOnlyWhenHeard
  <1> QED
    BY <1>1, <1>2, <1>3, PTL DEF Spec, OnlyTheHeardIsPassed
-----------------------------------------------------------------------------
(* What is read is what is shown. It takes a book in which no clip lies     *)
(* wholly at the end of a file whose end a clip before it already reaches,  *)
(* for the end of the file is reported once.                                *)
OneEndPerFile ==
    \A p, q \in Pars :
        /\ p < q /\ Book[p].smil = Book[q].smil
        /\ Book[p].file = Book[q].file
        /\ ~Skipped(q)
        => ~(/\ Book[p].end + 1 >= Length[Book[q].file]
             /\ Book[q].end >= Length[Book[q].file])

(* Between the par that is left and the one that is reached all are skipped. *)
LEMMA SkippedFrom ==
    ASSUME NEW p \in Pars, Beyond(p, TRUE) # {},
           NEW q, q = Nearest(Beyond(p, TRUE), TRUE), q - 1 # p
    PROVE  p \in SkippedTo(q)
  <1>1. q \in Pars /\ p < q /\ p < q - 1 /\ Book[q].smil = Book[p].smil
    BY BehindSkipped
  <1>2. Beyond(p, TRUE) \in SUBSET Pars
    BY DEF Beyond
  <1>3. \A m \in Beyond(p, TRUE) : q <= m
    BY <1>2, NearestIn
  <1>4. ASSUME NEW r \in (p + 1)..(q - 1)
        PROVE  Skipped(r)
    <2>0. PICK n \in Nat : Pars = 1..n
      BY BookAssumption
    <2> DEFINE between(i, j, k) == k \in 1..n /\ i <= k /\ k <= j /\ k > i /\ ~(j <= k)
    <2>00. \A i, j \in 1..n : \A k \in (i + 1)..(j - 1) : between(i, j, k)
      OBVIOUS
    <2>01. between(p, q, r)
      BY <1>1, <2>0, <2>00
    <2>1. r \in Pars /\ p <= r /\ r <= q /\ r > p /\ ~(q <= r)
      BY <2>0, <2>01
    <2>2. /\ Book[p].smil <= Book[r].smil /\ Book[r].smil <= Book[q].smil
          /\ Book[p].smil \in Nat /\ Book[r].smil \in Nat
      BY <1>1, <2>1, BookAssumption
    <2>3. \A a, b \in Nat : a <= b /\ b <= a => a = b
      OBVIOUS
    <2>4. Book[r].smil = Book[p].smil
      BY <1>1, <2>2, <2>3
    <2>5. r \notin Beyond(p, TRUE)
      BY <1>3, <2>1
    <2> QED
      BY <2>1, <2>4, <2>5 DEF Beyond
  <1> QED
    BY <1>1, <1>4 DEF SkippedTo

(* While the element does not seek, the audio is within its file, behind   *)
(* the begin of the par; the end of a file is skipped only when the file   *)
(* was left; and nothing is read without the timer.                        *)
WithinClip ==
    par # None /\ ~Leaving /\ seek = None /\ ~ended =>
        Reached(par) /\ position < Length[file]

EndIsTaken == ended /\ skipEnded /\ par # None => Leaving

TimerGoesAlong == running /\ par # None => timer

InStep == WithinClip /\ EndIsTaken /\ TimerGoesAlong

LEMMA NothingRead ==
    ASSUME \/ par' = None
           \/ seek' # None /\ ~ended' /\ ~running'
           \/ Leaving' /\ ~running'
    PROVE  InStep'
BY DEF InStep, WithinClip, Reached, EndIsTaken, TimerGoesAlong

LEMMA NextSmilInStep ==
    ASSUME par \in Pars, NEW forward \in BOOLEAN, NextSmil(forward)
    PROVE  InStep'
  <1>1. CASE OtherSmil(par, forward) = {}
    <2>1. par' = None
      BY <1>1 DEF NextSmil, Reset
    <2> QED
      BY <2>1, NothingRead
  <1>2. CASE OtherSmil(par, forward) # {}
    <2> DEFINE q == Nearest(OtherSmil(par, forward), forward)
    <2>1. q \in Pars
      BY <1>2, OtherSmilIn
    <2> HIDE DEF q
    <2>2. PICK r : r = Page(q, Book[q].doc, TRUE)
      OBVIOUS
    <2>3. Book[q].doc \in Docs /\ q # None
      BY <2>1, BookFacts
    <2>4. r \in Pages /\ r.to = q
      BY <2>1, <2>2, <2>3 DEF Page, Pages
    <2>5. par' = q /\ opening' = r /\ ~running'
      BY <1>2, <2>2 DEF NextSmil, LeaveAudio, Pause, PauseAudio, q
    <2>6. Leaving'
      BY <2>3, <2>4, <2>5, PageFields DEF Leaving
    <2> QED
      BY <2>5, <2>6, NothingRead
  <1> QED
    BY <1>1, <1>2

LEMMA PlayInStep ==
    ASSUME ElementOK, NEW q \in Pars, NEW playing,
           PlayFile(Book[q].file, Book[q].begin, playing),
           EndedStays \/ ended' = FALSE
    PROVE  InStep'
  <1>1. Book[q].begin # None
    BY BookFacts, BookAssumption
  <1>2. seek' # None /\ ~running'
    BY <1>1 DEF PlayFile, ElementOK
  <1>3. ~ended'
    BY <1>2 DEF EndedStays
  <1> QED
    BY <1>2, <1>3, NothingRead

LEMMA ReadOnInStep ==
    ASSUME Ready, InStep, SkipsInOrder, OneEndPerFile,
           timer, position > Book[par].end,
           NEW q, Beyond(par, TRUE) # {}, q = Nearest(Beyond(par, TRUE), TRUE),
           ReadOn(q, Reported(q, position)),
           Highlight(q, doc, opening, highlighted), UNCHANGED element, EndedStays
    PROVE  InStep'
  <1>0. opening # None => opening.to = None
    BY BookFacts DEF Ready, Leaving
  <1>1. /\ q \in Pars /\ par \in Pars /\ ~Skipped(q) /\ Book[q].smil = Book[par].smil
        /\ q - 1 # par => par < q - 1 /\ q - 1 \in Pars /\ Skipped(q - 1)
    BY BehindSkipped DEF Ready
  <1>2. Shown(q)
    BY <1>0, <1>1, HighlightShows DEF Ready, OverlayOK
  <1>3. ~Leaving' /\ par' \in {q, None} /\ q # None /\ par # None
    BY <1>1, <1>2, ShownTarget, BookFacts
  <1>4. /\ file' = file /\ timer' = timer /\ seek' = None
        /\ position' = position /\ running' = running
    BY DEF element, Ready
  <1>5. Book[q].file = file /\ Book[par].file = file /\ file # None
    BY <1>1, BookFacts DEF ReadOn, Ready, ElementOK, OnCourse, ReadsPar
  <1>6. /\ Book[par].end \in Nat /\ Book[q].end \in Nat /\ Book[q].begin \in Nat
        /\ position \in Nat /\ Length[file] \in Nat /\ position <= Length[file]
    BY <1>1, <1>5, BookFacts, LengthFacts DEF Ready, ElementOK
  <1>7. \/ Book[q].begin <= position
        \/ /\ par \in SkippedTo(q) /\ Book[par].file = file
           /\ position > Book[par].end
    <2>1. CASE q - 1 = par
      BY <2>1 DEF ReadOn, Reported
    <2>2. CASE q - 1 # par
      BY <1>1, <1>5, <2>2, SkippedFrom
    <2> QED
      BY <2>1, <2>2
  <1>8. Book[q].end > Book[par].end
    <2>1. CASE q - 1 = par
      <3>1. position <= Book[q].end
        BY <2>1 DEF ReadOn, Reported
      <3>2. \A i, j, k \in Nat : k > i /\ k <= j => j > i
        OBVIOUS
      <3> QED
        BY <3>1, <3>2, <1>6
    <2>2. CASE q - 1 # par
      <3>1. /\ Book[q].begin <= Book[q - 1].end + 1
            /\ Book[q - 1].end + 1 <= Book[q].end
        BY <2>2 DEF ReadOn, Reported
      <3>2. Book[par].end < Book[q].end
        BY <1>1, <1>5, <2>2, <3>1 DEF SkipsInOrder
      <3>3. \A i, j \in Nat : i < j => j > i
        OBVIOUS
      <3> QED
        BY <3>2, <3>3, <1>6
    <2> QED
      BY <2>1, <2>2
  <1>9. ~ended
    <2> SUFFICES ASSUME ended PROVE FALSE
      OBVIOUS
    <2>1. Book[par].end + 1 >= Length[file]
      BY <1>3 DEF Ready, OnCourse, EndIsHeard
    <2>2. \A i, j, m \in Nat : i + 1 >= m /\ j > i => j >= m
      OBVIOUS
    <2>3. Book[q].end >= Length[file]
      BY <1>6, <1>8, <2>1, <2>2
    <2>4. par < q
      BY BehindSkipped DEF Ready
    <2> QED
      BY <1>1, <1>5, <2>1, <2>3, <2>4 DEF OneEndPerFile
  <1>10. ~ended' /\ position < Length[file]
    BY <1>3, <1>9 DEF EndedStays, Ready, InStep, WithinClip
  <1>11. WithinClip'
    BY <1>3, <1>4, <1>7, <1>10 DEF WithinClip, Reached
  <1> QED
    BY <1>4, <1>10, <1>11 DEF InStep, EndIsTaken, TimerGoesAlong

LEMMA MoveInStep ==
    ASSUME Ready, InStep, SkipsInOrder, OneEndPerFile,
           NEW at, NEW forward \in BOOLEAN, NEW playing \in BOOLEAN,
           playing => /\ forward /\ at = position /\ timer
                      /\ position > Book[par].end /\ EndedStays,
           Move(at, forward, playing), EndedStays \/ ended' = FALSE
    PROVE  InStep'
  <1>1. CASE Beyond(par, forward) = {}
    BY <1>1, NextSmilInStep DEF Move, Ready
  <1>2. CASE Beyond(par, forward) # {}
    <2> DEFINE q == Nearest(Beyond(par, forward), forward)
    <2>1. q \in Pars
      BY <1>2, BeyondIn DEF Beyond, Ready
    <2> HIDE DEF q
    <2>2. Highlight(q, doc, opening, highlighted)
      BY <1>2 DEF Move, PlayCurrentPar, q
    <2>3. CASE PlayFile(Book[q].file, Book[q].begin, playing)
      BY <2>1, <2>3, PlayInStep DEF Ready
    <2>4. CASE /\ forward /\ playing /\ ReadOn(q, Reported(q, at)) /\ UNCHANGED element
      <3>1. forward = TRUE
        BY <2>4
      <3>2. q = Nearest(Beyond(par, TRUE), TRUE) /\ Beyond(par, TRUE) # {}
        BY <3>1, <1>2 DEF q
      <3> QED
        BY <2>2, <2>4, <3>2, ReadOnInStep
    <2> QED
      BY <1>2, <2>3, <2>4 DEF Move, PlayCurrentPar, q
  <1> QED
    BY <1>1, <1>2

LEMMA RefreshInStep ==
    ASSUME ElementOK, OverlayOK, OnCourse, InStep, par \in Pars \cup {None},
           seek = None, NEW d \in Docs, Refresh(d, None), EndedStays
    PROVE  InStep'
  <1>1. CASE \A z \in Pars : Book[z].doc # d
    BY <1>1, NothingRead DEF Refresh, Reset
  <1>2. CASE ~\A z \in Pars : Book[z].doc # d
    <2>1. PICK z \in Pars, lit \in Pars \cup {None} :
              /\ Book[z].doc = d
              /\ \/ timer /\ z = par /\ ResumeAudio
                 \/ PlayFile(Book[z].file, Book[z].begin, FALSE)
              /\ Highlight(z, d, None, lit)
              /\ UNCHANGED skipEnded
      BY <1>2 DEF Refresh, PlayCurrentPar, OverlayOK
    <2>2. CASE PlayFile(Book[z].file, Book[z].begin, FALSE)
      BY <2>2, PlayInStep
    <2>3. CASE timer /\ z = par /\ ResumeAudio
      <3>1. Shown(z) /\ par' = par /\ par # None
        BY <2>1, <2>3, HighlightShows, BookFacts
      <3>2. ~Leaving /\ ~Leaving'
        BY <2>3, <3>1, ShownTarget DEF OnCourse, LeavingStops
      <3>3. /\ timer' /\ file' = file /\ ended' = (ended /\ file # None)
            /\ position' = IF position = Length[file] THEN 0 ELSE position
        BY <2>3 DEF ResumeAudio, EndedStays
      <3>4. file # None
        BY <2>3 DEF ElementOK
      <3>5. ~(ended /\ skipEnded)
        BY <3>1, <3>2 DEF InStep, EndIsTaken
      <3>6. Length[file] \in Nat /\ position \in Nat
        BY <3>4, LengthFacts DEF ElementOK
      <3>7. ~ended => /\ Reached(par) /\ position < Length[file]
                      /\ position' = position
        BY <3>1, <3>2, <3>3, <3>6 DEF InStep, WithinClip, Reached
      <3>8. WithinClip'
        BY <3>1, <3>3, <3>4, <3>7 DEF WithinClip, Reached
      <3>9. EndIsTaken'
        BY <2>1, <3>3, <3>5 DEF EndIsTaken
      <3> QED
        BY <3>3, <3>8, <3>9 DEF InStep, TimerGoesAlong
    <2> QED
      BY <2>1, <2>2, <2>3
  <1> QED
    BY <1>1, <1>2

LEMMA PlayOnInStep ==
    ASSUME ElementOK, OverlayOK, OnCourse, InStep, Settled, PlayOn, EndedStays
    PROVE  InStep'
  <1>0. seek = None /\ opening = None /\ ~ended /\ ~Leaving
    BY SettledFacts
  <1>1. CASE par # None /\ file # None
    <2>1. /\ ResumeAudio /\ Highlight(par, doc, None, highlighted)
          /\ par \in Pars
      BY <1>0, <1>1 DEF PlayOn, OverlayOK
    <2>2. ~Leaving' /\ par' \in {par, None}
      BY <2>1, HighlightShows, ShownTarget DEF OverlayOK
    <2>3. /\ timer' /\ file' = file /\ ~ended'
          /\ position' = IF position = Length[file] THEN 0 ELSE position
      BY <1>0, <2>1 DEF ResumeAudio, EndedStays
    <2>4. Length[file] \in Nat /\ position \in Nat
      BY <1>1, LengthFacts DEF ElementOK
    <2>5. /\ Reached(par) /\ position < Length[file]
          /\ position' = position
      BY <1>0, <1>1, <2>3, <2>4 DEF InStep, WithinClip, Reached
    <2>6. WithinClip'
      BY <2>2, <2>3, <2>5 DEF WithinClip, Reached
    <2> QED
      BY <2>3, <2>6 DEF InStep, EndIsTaken, TimerGoesAlong
  <1>2. CASE ~(par # None /\ file # None)
    <2>1. Refresh(doc, None) /\ doc \in Docs /\ par \in Pars \cup {None}
      BY <1>0, <1>2 DEF PlayOn, OverlayOK
    <2> QED
      BY <1>0, <2>1, RefreshInStep
  <1> QED
    BY <1>1, <1>2

LEMMA UserInStep ==
    ASSUME ElementOK, OverlayOK, OnCourse, InStep, SkipsInOrder, OneEndPerFile,
           Settled, User
    PROVE  InStep'
  <1>0. /\ seek = None /\ waiting = << >> /\ opening = None /\ ~ended
        /\ ~wasPlaying /\ ~Leaving
    BY SettledFacts
  <1>1. CASE Toggle
    <2>0. EndedStays
      BY <1>1 DEF Toggle
    <2>1. CASE timer
      <3>1. /\ par' = par /\ running' = FALSE /\ ~ended'
            /\ file' = file /\ seek' = None /\ position' = position
        BY <1>0, <1>1, <2>0, <2>1 DEF Toggle, Pause, PauseAudio, EndedStays
      <3> QED
        BY <1>0, <3>1 DEF InStep, WithinClip, Reached, EndIsTaken, TimerGoesAlong
    <2>2. CASE ~timer
      BY <1>1, <2>0, <2>2, PlayOnInStep DEF Toggle
    <2> QED
      BY <2>1, <2>2
  <1>2. ASSUME NEW forward \in BOOLEAN, NextOrPrevious(forward)
        PROVE  InStep'
    <2>0. ~wasPlaying' /\ EndedStays
      BY <1>0, <1>2 DEF NextOrPrevious, Command
    <2>1. CASE par # None /\ timer
      <3>1. Ready
        BY <1>0, <2>0, <2>1 DEF Ready, OverlayOK
      <3>2. Move(Book[par].end + 1, forward, FALSE)
        BY <1>2, <2>1 DEF NextOrPrevious
      <3> QED
        BY <2>0, <3>1, <3>2, MoveInStep
    <2>2. CASE ~(par # None /\ timer)
      BY <1>2, <2>0, <2>2, PlayOnInStep DEF NextOrPrevious
    <2> QED
      BY <2>1, <2>2
  <1>3. ASSUME NEW d \in Docs, TurnPage(d)
        PROVE  InStep'
    <2>1. UNCHANGED <<par, file, timer, seek, position, running, ended>>
      BY <1>3 DEF TurnPage, iterator, audio, element
    <2> QED
      BY <1>0, <2>1 DEF InStep, WithinClip, Reached, EndIsTaken, TimerGoesAlong
  <1> QED
    BY <1>1, <1>2, <1>3 DEF User

LEMMA TickInStep ==
    ASSUME ElementOK, OverlayOK, OnCourse, InStep, SkipsInOrder, OneEndPerFile, Tick
    PROVE  InStep'
  <1>0. timer /\ seek = None /\ EndedStays /\ Observe
    BY DEF Tick
  <1>1. CASE par = None \/ position <= Book[par].end
    <2>1. /\ UNCHANGED <<par, opening, file, timer, seek, position, running>>
          /\ skipEnded' = FALSE
      BY <1>1 DEF Tick, WithinPar, iterator, element
    <2>2. (Leaving' <=> Leaving) /\ ended' = (ended /\ file # None)
      BY <1>0, <2>1 DEF Leaving, EndedStays
    <2>3. file # None
      BY <1>0 DEF ElementOK
    <2> QED
      BY <2>1, <2>2, <2>3 DEF InStep, WithinClip, Reached, EndIsTaken, TimerGoesAlong
  <1>2. CASE ~(par = None \/ position <= Book[par].end)
    <2>1. Move(position, TRUE, TRUE)
      BY <1>2 DEF Tick
    <2> QED
      BY <1>0, <1>2, <2>1, TickReady, MoveInStep
  <1> QED
    BY <1>1, <1>2

LEMMA HearEndedInStep ==
    ASSUME ElementOK, OverlayOK, OnCourse, InStep, SkipsInOrder, OneEndPerFile,
           HearEnded, ~astray'
    PROVE  InStep'
  <1>0. ended /\ ended' = FALSE /\ seek = None
    BY DEF HearEnded, ElementOK
  <1>1. CASE skipEnded
    <2>1. UNCHANGED <<par, opening, running>>
      BY <1>0, <1>1 DEF HearEnded, iterator
    <2>2. par # None => Leaving /\ ~running
      BY <1>0, <1>1 DEF InStep, EndIsTaken, OnCourse, LeavingStops
    <2>3. par' # None => Leaving' /\ ~running'
      BY <2>1, <2>2 DEF Leaving
    <2> QED
      BY <2>3, NothingRead
  <1>2. CASE ~skipEnded /\ par = None
    BY <1>0, <1>2, NothingRead DEF HearEnded, Reset
  <1>3. CASE ~skipEnded /\ par # None
    <2>1. Move(Book[par].end + 1, TRUE, FALSE)
      BY <1>0, <1>3 DEF HearEnded
    <2> QED
      BY <1>0, <1>3, <2>1, HearEndedReady, MoveInStep
  <1> QED
    BY <1>1, <1>2, <1>3

LEMMA DocLoadStartInStep ==
    ASSUME ElementOK, OverlayOK, OnCourse, InStep, DocLoadStart
    PROVE  InStep'
  <1>0. /\ opening # None /\ opening' = [opening EXCEPT !.loading = TRUE]
        /\ EndedStays /\ UNCHANGED <<par, skipEnded, file, seek, position>>
        /\ UNCHANGED <<timer, running>> \/ ~running'
    BY DEF DocLoadStart, Pause, PauseAudio, iterator, element
  <1>1. opening \in Pages
    BY <1>0 DEF OverlayOK, PageOK
  <1>2. opening' \in Pages /\ opening'.to = opening.to
    BY <1>0, <1>1 DEF Pages
  <1>3. Leaving' <=> Leaving
    BY <1>0, <1>2, PageFields DEF Leaving
  <1>4. ended' = ended
    BY <1>0 DEF EndedStays, ElementOK
  <1>5. WithinClip'
    BY <1>0, <1>3, <1>4 DEF InStep, WithinClip, Reached
  <1> QED
    BY <1>0, <1>3, <1>4, <1>5 DEF InStep, EndIsTaken, TimerGoesAlong

LEMMA OwnPageInStep ==
    ASSUME ElementOK, OverlayOK, OnCourse, InStep, opening # None, opening.own,
           NEW d \in Docs, OwnPage(d, timer \/ wasPlaying), EndedStays,
           UNCHANGED skipEnded
    PROVE  InStep'
  <1>0. opening.to \in Pars \cup {None}
    BY PageFields DEF OverlayOK, PageOK
  <1> DEFINE p == IF par = None THEN opening.to ELSE par
  <1>1. CASE opening' = None /\ UNCHANGED <<iterator, element>>
    <2>1. UNCHANGED <<par, file, timer, seek, position, running>> /\ ~Leaving'
      BY <1>1 DEF iterator, element, Leaving
    <2>2. ended' = ended
      BY <2>1 DEF EndedStays, ElementOK
    <2>3. par # None => ~Leaving
      <3> SUFFICES ASSUME Leaving PROVE FALSE
        OBVIOUS
      <3>1. /\ opening.to = par /\ par # None /\ ~timer /\ ~wasPlaying
            /\ Highlight(par, d, None, highlighted) \/ UNCHANGED element
        BY DEF OnCourse, LeavingStops, Leaving, OwnPage, PlayCurrentPar
      <3>2. PlayFile(Book[par].file, Book[par].begin, timer)
        BY <3>1 DEF OwnPage, PlayCurrentPar
      <3>3. seek' # None
        <4>1. par \in Pars
          BY <3>1 DEF OverlayOK
        <4>2. Book[par].begin # None
          BY <4>1, BookFacts, BookAssumption
        <4> QED
          BY <3>2, <4>2 DEF PlayFile
      <3>4. seek = None
        BY DEF OnCourse, LeavingStops
      <3> QED
        BY <2>1, <3>3, <3>4
    <2> QED
      BY <2>1, <2>2, <2>3 DEF InStep, WithinClip, Reached, EndIsTaken, TimerGoesAlong
  <1>2. CASE ~(opening' = None /\ UNCHANGED <<iterator, element>>)
    <2>1. p # None /\ PlayFile(Book[p].file, Book[p].begin, timer)
      BY <1>2 DEF OwnPage, PlayCurrentPar
    <2>2. p \in Pars
      BY <1>0, <2>1 DEF OverlayOK
    <2> HIDE DEF p
    <2> QED
      BY <2>1, <2>2, PlayInStep
  <1> QED
    BY <1>1, <1>2

LEMMA PageChangedInStep ==
    ASSUME ElementOK, OverlayOK, OnCourse, InStep, PageChanged, ~astray'
    PROVE  InStep'
  <1>0. /\ opening # None /\ doc' = opening.doc /\ EndedStays
        /\ ~opening.own => seek = None
    BY DEF PageChanged
  <1>1. doc' \in Docs /\ par \in Pars \cup {None}
    BY <1>0, PageFields DEF OverlayOK, PageOK
  <1>2. CASE opening.own
    <2>1. OwnPage(doc', timer \/ wasPlaying) /\ UNCHANGED skipEnded
      BY <1>2 DEF PageChanged
    <2> QED
      BY <1>0, <1>1, <1>2, <2>1, OwnPageInStep
  <1>3. CASE ~opening.own /\ Reset
    BY <1>3, NothingRead DEF Reset
  <1>4. CASE ~opening.own /\ Refresh(doc', None)
    BY <1>0, <1>1, <1>4, RefreshInStep
  <1> QED
    BY <1>2, <1>3, <1>4 DEF PageChanged

LEMMA AudioInStep ==
    ASSUME ElementOK, OverlayOK, OnCourse, InStep, Prompt,
           Elapse \/ Preload \/ SeekDone \/ PlayWaiting
    PROVE  InStep'
  <1>0. UNCHANGED <<par, opening, skipEnded>> /\ (Leaving' <=> Leaving)
    BY DEF Elapse, Preload, SeekDone, PlayWaiting, overlay, iterator, Leaving
  <1>1. CASE Elapse
    <2>1. /\ running /\ seek = None /\ seek' = None
          /\ timer /\ par # None => ~skipEnded
          /\ position' = position + 1 /\ timer' = timer /\ file' = file
          /\ ended' = (ended \/ position' = Length[file])
      BY <1>1 DEF Elapse, Due
    <2>2. position \in Nat /\ Length[file] \in Nat /\ position < Length[file]
      BY <2>1, LengthFacts DEF ElementOK
    <2>3. par # None => timer /\ ~skipEnded
      BY <2>1 DEF InStep, TimerGoesAlong
    <2>4. WithinClip'
      <3> SUFFICES ASSUME par # None, ~Leaving, ~ended'
                   PROVE  Reached(par)' /\ position' < Length[file]
        BY <1>0, <2>1 DEF WithinClip, Reached
      <3>1. ~ended /\ position' # Length[file]
        BY <2>1
      <3>2. Reached(par)
        BY <2>1, <3>1 DEF InStep, WithinClip
      <3>3. \A n \in Nat : position >= n => position' >= n
        BY <2>1, <2>2
      <3>4. \A n \in Nat : position > n => position' > n
        BY <2>1, <2>2
      <3>5. /\ Book[par].begin \in Nat /\ par' = par
            /\ \A q \in SkippedTo(par) : Book[q].end \in Nat
        BY <1>0, BookFacts DEF OverlayOK, SkippedTo
      <3>6. Reached(par)'
        BY <2>1, <3>2, <3>3, <3>4, <3>5 DEF Reached
      <3> QED
        BY <2>1, <2>2, <3>1, <3>6
    <2>5. EndIsTaken' /\ TimerGoesAlong'
      BY <1>0, <2>1, <2>3 DEF EndIsTaken, TimerGoesAlong
    <2> QED
      BY <2>4, <2>5 DEF InStep
  <1>2. CASE Preload
    BY <1>2, NothingRead DEF Preload, ElementOK
  <1>3. CASE SeekDone
    <2>1. /\ seek # None /\ position' = seek /\ timer' = TRUE /\ file' = file
          /\ seek \in Nat /\ seek < Length[file] /\ file # None /\ ~ended
          /\ ended' = (ended \/ seek = Length[file])
      BY <1>3 DEF SeekDone, ElementOK
    <2>2. ~ended'
      BY <2>1, LengthFacts DEF ElementOK
    <2>3. par # None => seek = Book[par].begin /\ Book[par].begin \in Nat
      BY <2>1, BookFacts DEF OnCourse, AsksForTarget, Target, OverlayOK
    <2>4. WithinClip'
      BY <1>0, <2>1, <2>3 DEF WithinClip, Reached
    <2> QED
      BY <2>1, <2>2, <2>4 DEF InStep, EndIsTaken, TimerGoesAlong
  <1>4. CASE PlayWaiting
    <2>1. Head(waiting) \in Requests
      BY <1>4 DEF ElementOK, PlayWaiting
    <2>2. seek' # None /\ ~running' /\ EndedStays
      BY <1>4, <2>1, RequestFacts, BookAssumption DEF PlayWaiting
    <2> QED
      BY <2>2, NothingRead DEF EndedStays
  <1> QED
    BY <1>1, <1>2, <1>3, <1>4

LEMMA InStepHolds ==
    ASSUME SkipsInOrder, OneEndPerFile, Prompt, PlayerInv, ~astray => InStep,
           [Next]_vars
    PROVE  ~astray' => InStep'
  <1>1. CASE UNCHANGED vars
    <2>1. UNCHANGED <<par, skipEnded, file, timer, seek, position, running, ended,
                      opening, astray>>
      BY <1>1 DEF vars, overlay, iterator, audio, element
    <2>2. Leaving' <=> Leaving
      BY <2>1 DEF Leaving
    <2> QED
      BY <2>1, <2>2 DEF InStep, WithinClip, Reached, EndIsTaken, TimerGoesAlong
  <1>2. CASE Next
    <2> SUFFICES ASSUME ~astray' PROVE InStep'
      OBVIOUS
    <2>1. ElementOK /\ OverlayOK /\ OnCourse /\ InStep /\ (User => Settled)
      BY <1>2, AstrayForGood DEF PlayerInv
    <2> QED
      BY <1>2, <2>1, UserInStep, TickInStep, HearEndedInStep, DocLoadStartInStep,
         PageChangedInStep, AudioInStep DEF Next
  <1> QED
    BY <1>1, <1>2

(* What is read aloud is the par that is highlighted, or one that is        *)
(* skipped right before it, once the player has caught up with its          *)
(* requests, in a book whose clips end in order and not twice with a file.  *)
THEOREM ShownIsRead ==
    ASSUME Prompt, SkipsInOrder, OneEndPerFile
    PROVE  Spec => []ReadsWhatIsShown
  <1> DEFINE I == PlayerInv /\ (~astray => InStep)
  <1>1. Init => I
    <2>1. Init => InStep
      BY DEF Init, InStep, WithinClip, EndIsTaken, TimerGoesAlong
    <2> QED
      BY <2>1, PlayerStarts
  <1>2. I /\ [Next]_vars => I'
    BY PlayerStep, InStepHolds
  <1>3. I => ReadsWhatIsShown
    <2> SUFFICES ASSUME I, timer, running, par # None, Settled, ~astray
                 PROVE  file = Book[par].file /\ Reached(par)
      BY DEF ReadsWhatIsShown
    <2>1. OnCourse /\ InStep
      BY DEF PlayerInv
    <2>2. seek = None /\ ~ended /\ ~Leaving
      BY <2>1, SettledFacts
    <2> QED
      BY <2>1, <2>2 DEF OnCourse, ReadsPar, InStep, WithinClip, Reached
  <1> QED
    BY <1>1, <1>2, <1>3, PTL DEF Spec
=============================================================================
