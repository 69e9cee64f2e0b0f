------------------------------ MODULE WebPage ------------------------------
(***************************************************************************)
(* The search page in a browser: the form, the fragments htmx swaps in,    *)
(* the keyboard selection, the quick-open dialogue and the address that    *)
(* restores a search (ferret-web/static/app.js, templates/index.html).     *)
(*                                                                         *)
(* Every element with an hx-get has a request of its own: htmx keeps one   *)
(* request of an element at work and remembers that another is wanted, but *)
(* requests of different elements that fill one target run side by side    *)
(* and their answers arrive in any order.                                  *)
(***************************************************************************)
EXTENDS WebServer, Integers

CONSTANTS
  FirstRepo,  \* the repository index() selects
  MaxActs     \* what the user does on the page

ASSUME WebPageAssumption ==
  /\ FirstRepo \in Registered /\ MaxActs \in Nat
  /\ IsFiniteSet(Repos)
  /\ Repos \cap {"search", "page", "quick"} = {}   \* the names of the other elements

VARIABLES
  sidebar,    \* the repositories the page lists, since it was loaded
  form,       \* the query, repository and mode the page has
  timer,      \* inputs with a keyup that waits out its delay
  flight,     \* flight[e]: the request of element e under way
  queued,     \* elements that will send another when theirs is answered
  shown,      \* the fragment in #results
  url,        \* the search the address stands for
  selected,   \* selectedIndex
  lit,        \* the index of the .file-result with class "selected"
  quick,      \* the quick-open dialogue
  help,       \* the help overlay is visible
  focus,      \* the input that has the focus
  away,       \* the browser shows a file instead
  acts,
  trusted     \* no answer since the last search of the form can have come out of order or failed

view == <<shown, selected, lit>>
pageVars == <<sidebar, form, timer, flight, queued, shown, url, selected, lit, quick, help, focus, away, acts, trusted>>

None       == -1
NoRequest  == Request(NoText, NoText, NoText, 0)
ResultElements   == {"search", "page"} \cup Repos      \* elements whose hx-target is #results
Elements   == ResultElements \cup {"quick"}
Texts      == Queries \cup {NoText}
Modes      == {"text", "symbol"}

Blank == [q |-> NoText, repo |-> FirstRepo, mode |-> "text"]

\* Only text results are .file-result elements.
FileResults(fragment) == IF fragment.asked.mode = "symbol" THEN <<>> ELSE fragment.items

-----------------------------------------------------------------------------
(* Requests. *)

\* A sidebar entry that leaves the mode out.
RequestWithoutMode(e, f) ==
  IF e = "quick" THEN Request(quick.q, f.repo, "symbol", 1)
  ELSE IF e = "search" THEN Request(f.q, f.repo, f.mode, 1)
  ELSE Request(f.q, e, "text", 1)

\* The values an element sends, from hx-include, hx-vals and its own address.
RequestOf(e, f) ==
  IF e = "quick" THEN Request(quick.q, f.repo, "symbol", 1)
  ELSE IF e = "search" THEN Request(f.q, f.repo, f.mode, 1)
  ELSE Request(f.q, e, f.mode, 1)

Busy(fl) == {e \in ResultElements : fl[e] # NoRequest}

\* What is left to trust when the requests at work become fl; issued: a search of the form left.
Trust(fl, issued) == IF Cardinality(Busy(fl)) > 1 THEN FALSE ELSE issued \/ trusted

\* htmx: an element with a request at work sends its next one later, with the values of that time.
Send(e, f) ==
  IF flight[e] # NoRequest
  THEN queued' = queued \cup {e} /\ UNCHANGED <<flight, trusted>>
  ELSE /\ flight' = [flight EXCEPT ![e] = RequestOf(e, f)]
       /\ trusted' = (IF e = "quick" THEN trusted ELSE Trust(flight', flight'[e].repo = f.repo))
       /\ UNCHANGED queued

\* After an answer of any kind the element sends what it has queued.
SendNext(e) ==
  /\ flight' = [flight EXCEPT ![e] = IF e \in queued THEN RequestOf(e, form) ELSE NoRequest]
  /\ queued' = queued \ {e}

Act == ~away /\ acts < MaxActs /\ acts' = acts + 1
Mouse == Act /\ ~quick.open /\ ~help
Key   == Mouse /\ focus = "none"

-----------------------------------------------------------------------------
(* What the user does. *)

Type(q) ==
  /\ Mouse /\ q # form.q
  /\ form' = [form EXCEPT !.q = q] /\ timer' = timer \cup {"search"} /\ focus' = "search"
  /\ UNCHANGED <<sidebar, flight, queued, view, url, quick, help, away, trusted>>

\* setSearchMode
SetSearchMode(m) ==
  /\ Mouse
  /\ form' = [form EXCEPT !.mode = m]
  /\ IF form.q = NoText THEN UNCHANGED <<flight, queued, trusted>> ELSE Send("search", form')
  /\ UNCHANGED <<sidebar, timer, view, url, quick, help, focus, away>>

ClickRepo(r) ==
  /\ Mouse /\ r \in sidebar
  /\ form' = [form EXCEPT !.repo = r] /\ Send(r, form') /\ focus' = "none"
  /\ UNCHANGED <<sidebar, timer, view, url, quick, help, away>>

\* selectResult: j and k.
SelectResult(d) ==
  /\ Key /\ FileResults(shown) # <<>>
  /\ selected' = (LET n == Len(FileResults(shown))
                  IN  IF selected + d < 0 THEN 0 ELSE Smaller(selected + d, n - 1))
  /\ lit' = selected'
  /\ UNCHANGED <<sidebar, form, timer, flight, queued, shown, url, quick, help, focus, away, trusted>>

\* openSelected
OpenSelected ==
  /\ Key /\ selected \in 0 .. Len(FileResults(shown)) - 1
  /\ away' = TRUE
  /\ UNCHANGED <<sidebar, form, timer, flight, queued, view, url, quick, help, focus, trusted>>

\* The button of another page, if the fragment has one: its search, in text mode, on that page.
NavigatePage(d) ==
  LET page   == shown.asked.page + d
      button == shown.pages > 1 /\ IF d = 1 THEN shown.hasNext ELSE page >= 1
  IN  /\ Key
      /\ flight' = (IF button /\ flight["page"] = NoRequest
                    THEN [flight EXCEPT !["page"] = Request(shown.asked.q, shown.asked.repo, "text", page)]
                    ELSE flight)
      /\ trusted' = Trust(flight', FALSE)
      /\ UNCHANGED <<sidebar, form, timer, queued, view, url, quick, help, focus, away>>

\* Escape leaves the input, or drops the selection.
Escape ==
  /\ Mouse
  /\ IF focus # "none" THEN focus' = "none" /\ UNCHANGED <<selected, lit>>
     ELSE selected' = None /\ lit' = None /\ UNCHANGED focus
  /\ UNCHANGED <<sidebar, form, timer, flight, queued, shown, url, quick, help, away, trusted>>

FocusSearch ==
  /\ Key /\ focus' = "search"
  /\ UNCHANGED <<sidebar, form, timer, flight, queued, view, url, quick, help, away, trusted>>

\* "?" shows and hides the help; with the help shown any other key hides it.
ToggleHelp ==
  /\ Act /\ ~quick.open /\ (help \/ focus = "none")
  /\ help' = ~help
  /\ UNCHANGED <<sidebar, form, timer, flight, queued, view, url, quick, focus, away, trusted>>

\* "@": the results of the last time are still there, and the highlight in them.
OpenQuickOpen ==
  /\ Key
  /\ quick' = [quick EXCEPT !.open = TRUE, !.q = NoText, !.selected = None] /\ focus' = "quick"
  /\ UNCHANGED <<sidebar, form, timer, flight, queued, view, url, help, away, trusted>>

CloseQuickOpen ==
  /\ Act /\ quick.open
  /\ quick' = [quick EXCEPT !.open = FALSE, !.selected = None] /\ focus' = "none"
  /\ UNCHANGED <<sidebar, form, timer, flight, queued, view, url, help, away, trusted>>

TypeQuickOpen(q) ==
  /\ Act /\ quick.open /\ q # quick.q
  /\ quick' = [quick EXCEPT !.q = q] /\ timer' = timer \cup {"quick"}
  /\ UNCHANGED <<sidebar, form, flight, queued, view, url, help, focus, away, trusted>>

SelectQuickOpenResult(d) ==
  /\ Act /\ quick.open /\ quick.items # <<>>
  /\ LET i == IF quick.selected + d < 0 THEN 0 ELSE Smaller(quick.selected + d, Len(quick.items) - 1)
     IN  quick' = [quick EXCEPT !.selected = i, !.lit = i]
  /\ UNCHANGED <<sidebar, form, timer, flight, queued, view, url, help, focus, away, trusted>>

OpenQuickOpenSelected ==
  /\ Act /\ quick.open /\ quick.selected \in 0 .. Len(quick.items) - 1
  /\ away' = TRUE
  /\ UNCHANGED <<sidebar, form, timer, flight, queued, view, url, quick, help, focus, trusted>>

-----------------------------------------------------------------------------
(* What happens by itself. *)

\* The delay of an input is over.
Debounced(e) ==
  /\ e \in timer /\ ~away
  /\ timer' = timer \ {e} /\ Send(e, form)
  /\ UNCHANGED <<sidebar, form, view, url, quick, help, focus, away, acts>>

\* The new elements are not highlighted, but the index is not reset.
AfterSwapKeeps == selected' = selected /\ lit' = None

\* clearSelection
AfterSwap == selected' = None /\ lit' = None

\* A fragment arrives: htmx swaps it in, the selection is dropped and the address follows the form.
Arrives(e) ==
  /\ e \in ResultElements /\ flight[e] # NoRequest /\ ~away
  /\ shown' = SearchResultsFragment(flight[e]) /\ AfterSwap
  /\ url' = form
  /\ SendNext(e) /\ trusted' = Trust(flight', e \in queued /\ flight'[e].repo = form.repo)
  /\ UNCHANGED <<sidebar, form, timer, quick, help, focus, away, acts>>

QuickArrives ==
  /\ flight["quick"] # NoRequest /\ ~away
  /\ quick' = [quick EXCEPT !.items = SymbolResultsFragment(flight["quick"]).items, !.selected = None, !.lit = None]
  /\ AfterSwap /\ SendNext("quick")
  /\ UNCHANGED <<sidebar, form, timer, shown, url, help, focus, away, acts, trusted>>

\* 502: htmx swaps nothing in.
Fails(e) ==
  /\ flight[e] # NoRequest /\ ~away /\ MayFail(flight[e])
  /\ SendNext(e) /\ trusted' = (trusted /\ e = "quick")
  /\ UNCHANGED <<sidebar, form, timer, view, url, quick, help, focus, away, acts>>

\* A reload, or history.back() from a file: the page starts from its address.
Load ==
  /\ acts < MaxActs /\ acts' = acts + 1
  /\ sidebar' = Registered
  /\ form' = (IF url.q = NoText THEN Blank
              ELSE [url EXCEPT !.repo = IF @ \in Registered THEN @ ELSE FirstRepo])
  /\ timer' = {} /\ queued' = {} /\ trusted' = TRUE
  /\ flight' = [e \in Elements |-> IF e = "search" /\ url.q # NoText THEN RequestOf(e, form') ELSE NoRequest]
  /\ shown' = EmptyFragment(Request(NoText, FirstRepo, "text", 1)) /\ AfterSwap
  /\ quick' = [open |-> FALSE, q |-> NoText, items |-> <<>>, selected |-> None, lit |-> None]
  /\ help' = FALSE /\ focus' = "none" /\ away' = FALSE
  /\ UNCHANGED url

PageInit ==
  /\ sidebar = Repos /\ form = Blank /\ url = Blank
  /\ timer = {} /\ queued = {} /\ trusted = TRUE
  /\ flight = [e \in Elements |-> NoRequest]
  /\ shown = EmptyFragment(Request(NoText, FirstRepo, "text", 1)) /\ selected = None /\ lit = None
  /\ quick = [open |-> FALSE, q |-> NoText, items |-> <<>>, selected |-> None, lit |-> None]
  /\ help = FALSE /\ focus = "none" /\ away = FALSE /\ acts = 0

PageNext ==
  \/ \E q \in Texts : Type(q) \/ TypeQuickOpen(q)
  \/ \E m \in Modes : SetSearchMode(m)
  \/ \E r \in Repos : ClickRepo(r)
  \/ \E d \in {-1, 1} : SelectResult(d) \/ NavigatePage(d) \/ SelectQuickOpenResult(d)
  \/ OpenSelected \/ Escape \/ FocusSearch \/ ToggleHelp
  \/ OpenQuickOpen \/ CloseQuickOpen \/ OpenQuickOpenSelected
  \/ \E e \in Elements : Debounced(e) \/ Arrives(e) \/ Fails(e)
  \/ QuickArrives \/ Load

PageSpec == PageInit /\ [][PageNext]_pageVars

-----------------------------------------------------------------------------
(* Properties. *)

\* Enter opens the result that is highlighted, among those on the page now, however answers and
\* keys interleave: the index app.js keeps never points past or beside the highlight
\* (app.js:17-36, 98-115, 211-216).
OpensWhatIsSelected ==
  /\ selected # None => selected = lit /\ selected < Len(FileResults(shown))
  /\ quick.selected # None => quick.selected = quick.lit /\ quick.selected < Len(quick.items)

Agrees(asked) == asked.q = form.q /\ (form.q # NoText => asked.repo = form.repo /\ asked.mode = form.mode)

\* When nothing is under way, the page shows the search its form has and its address restores
\* that search, unless answers for different elements were under way at once or one failed
\* (app.js:292-318, 344-391; index.html:12-14, 37-40).
ShowsWhatWasAsked ==
  timer = {} /\ Busy(flight) = {} /\ trusted /\ ~away => Agrees(shown.asked) /\ Agrees(url)
=============================================================================
