------------------------------- MODULE Search -------------------------------
(***************************************************************************)
(* The search of the top bar.  What is typed becomes the query after a     *)
(* pause of 300 ms, and the page gives way to the results; the search can  *)
(* be left in several ways meanwhile.                                      *)
(***************************************************************************)
EXTENDS Screen

CONSTANTS
  Words   \* what can be typed, Blank among it

ASSUME SearchNoneAssumption == None \notin Words

Blank == ""
SearchTypes == {"all", "objectType", "property", "linkType"}

\* timer: the words that the pause was begun for.
SearchDefault ==
  [kind |-> "search", input |-> Blank, query |-> Blank, mode |-> FALSE,
   type |-> "all", timer |-> None]

\* Mutant of SearchLeft: the words stay in the bar.
SearchLeftWithWords(f) == [f EXCEPT !.query = Blank, !.mode = FALSE, !.type = "all"]

\* exitSearchMode does not know of the timer.
SearchLeft(f) == [f EXCEPT !.input = Blank, !.query = Blank, !.mode = FALSE, !.type = "all"]

\* handleChange.
SearchChange(words) ==
  /\ form.kind = "search" /\ words # form.input
  /\ form' = IF words = Blank THEN SearchLeft([form EXCEPT !.timer = None])
             ELSE [form EXCEPT !.input = words, !.timer = words]
  /\ UNCHANGED <<calls, server>>

SearchTimer ==
  /\ form.kind = "search" /\ form.timer # None
  /\ form' = [form EXCEPT !.query = form.timer, !.mode = TRUE, !.timer = None]
  /\ UNCHANGED <<calls, server>>

\* handleFocus: the results of the query before are shown again.
SearchFocus ==
  /\ form.kind = "search" /\ form.input # Blank
  /\ form' = [form EXCEPT !.mode = TRUE]
  /\ UNCHANGED <<calls, server>>

\* handleClear of the bar.
SearchClear ==
  /\ form.kind = "search" /\ form.input # Blank
  /\ form' = SearchLeft(form)
  /\ UNCHANGED <<calls, server>>

\* The escape key, whatever has the focus.
SearchEscape ==
  /\ form.kind = "search"
  /\ form' = SearchLeft(form)
  /\ UNCHANGED <<calls, server>>

\* One type of results or all of them: the menu of the side bar.
SearchChooseType(type) ==
  /\ form.kind = "search" /\ form.mode
  /\ form' = [form EXCEPT !.type = type]
  /\ UNCHANGED <<calls, server>>

\* The results of a query of nothing but blanks are not asked for.  A result that
\* is chosen is opened and the search is left.
SearchChooseResult ==
  /\ form.kind = "search" /\ form.mode /\ form.query # Blank
  /\ form' = SearchLeft(form)
  /\ UNCHANGED <<calls, server>>

SearchInit == form = SearchDefault /\ calls = <<>> /\ server = None

SearchNext ==
  \/ SearchTimer \/ SearchFocus \/ SearchClear \/ SearchEscape \/ SearchChooseResult
  \/ \E words \in Words : SearchChange(words)
  \/ \E type \in SearchTypes : SearchChooseType(type)

SearchSpec == SearchInit /\ [][SearchNext]_vars

-----------------------------------------------------------------------------
(* Properties. *)

\* When the pause is over, the results that take the page's place are those of the
\* words in the bar, whichever way the search was left and taken up before.
ResultsFitTheBar ==
  form.kind = "search" /\ form.mode /\ form.timer = None /\ form.input # Blank =>
    form.query = form.input
=============================================================================
