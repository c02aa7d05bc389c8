---------------------------- MODULE AdminMemory -----------------------------
(***************************************************************************)
(* The memory view of the admin console (modules/memory.js): a filter bar, *)
(* a page of fragments with its page buttons, and an inspector filled on   *)
(* its own.  The list is asked with the filter and page of the moment of   *)
(* the click and painted with those of the moment of the answer; the       *)
(* number of pages is the server's at that time.                           *)
(***************************************************************************)
EXTENDS Integers, Sequences, FiniteSets, SequencesExt

CONSTANTS
  Frags,       \* fragments a list can show
  Filters,     \* values of the filter bar; NoFilter is the empty bar
  NoFilter, None,
  WindowSize,  \* page numbers shown around the current one (10 in the code)
  MaxPages,    \* most pages the server ever has
  MaxClicks, MaxFlight

VARIABLES
  filter, pageNo, pages,  \* state.memoryFilter, .memoryPage, .memoryPages
  typed,                  \* what the inputs of the bar hold
  list,                   \* the painted list, or NoList while loading
  slot,                   \* the inspector: which render it belongs to and what it shows
  high,                   \* the highlighted row
  asked,                  \* requests in flight
  exported,               \* the filter of the last export
  paints,                 \* lists painted so far: each has an inspector slot of its own
  taps                    \* clicks so far

memory == <<filter, pageNo, pages, typed, list, slot, high, asked, exported, paints, taps>>

NoList == [page |-> 0, of |-> 0, window |-> {}, buttons |-> {}]
Shut == [shows |-> None, open |-> FALSE]

SmallerOf(a, b) == IF a < b THEN a ELSE b
LargerOf(a, b)  == IF a > b THEN a ELSE b

-----------------------------------------------------------------------------
(* Page buttons *)

\* The numbered window, moved back when it runs over the last page.
Window(current, total) ==
  LET start == LargerOf(1, current - WindowSize \div 2)
      end   == start + WindowSize - 1
  IN IF end > total THEN LargerOf(1, total - WindowSize + 1)..total ELSE start..end

\* Window, first and last page, and the arrows; those outside are disabled.
PageButtons(current, total) ==
  IF total <= 1 THEN {}
  ELSE (Window(current, total) \union {1, total, current - 1, current + 1}) \intersect (1..total)

PaintedList(current, total) ==
  [page |-> current, of |-> total,
   window |-> IF total <= 1 THEN {} ELSE Window(current, total),
   buttons |-> PageButtons(current, total)]

-----------------------------------------------------------------------------
(* Clicks *)

Tap == taps < MaxClicks /\ Len(asked) < MaxFlight /\ taps' = taps + 1
Shown == list # NoList

\* renderMemory up to its await: the query takes filter and page as they are.
AskList(f, p) ==
  /\ list' = NoList /\ slot' = Shut /\ high' = None
  /\ asked' = Append(asked, [kind |-> "list", filter |-> f, page |-> p, frag |-> None, render |-> 0])

Open ==                      \* navigate("memory") and the refresh button
  /\ Tap
  /\ AskList(filter, pageNo)
  /\ UNCHANGED <<filter, pageNo, pages, typed, exported, paints>>

Type(f) == Shown /\ Tap /\ typed' = f
           /\ UNCHANGED <<filter, pageNo, pages, list, slot, high, asked, exported, paints>>

ApplyFilters ==
  /\ Shown /\ Tap
  /\ filter' = typed /\ pageNo' = 1
  /\ AskList(typed, 1)
  /\ UNCHANGED <<pages, typed, exported, paints>>

GoToPage(p) ==
  /\ Shown /\ Tap
  /\ p \in list.buttons
  /\ pageNo' = p
  /\ AskList(filter, p)
  /\ UNCHANGED <<filter, pages, typed, exported, paints>>

\* The export takes the filters of the bar over, without a search and without
\* going back to page 1.
DownloadExport ==
  /\ Shown /\ Tap
  /\ typed # NoFilter
  /\ filter' = typed /\ exported' = typed
  /\ UNCHANGED <<pageNo, pages, typed, list, slot, high, asked, paints>>

ShowFragmentDetail(i) ==
  /\ Shown /\ Tap
  /\ high' = i
  /\ slot' = [shows |-> None, open |-> TRUE]
  /\ asked' = Append(asked, [kind |-> "detail", filter |-> filter, page |-> 0, frag |-> i, render |-> paints])
  /\ UNCHANGED <<filter, pageNo, pages, typed, list, exported, paints>>

CloseFragmentInspector ==
  /\ Shown /\ Tap /\ slot.open
  /\ slot' = Shut /\ high' = None
  /\ UNCHANGED <<filter, pageNo, pages, typed, list, asked, exported, paints>>

\* VIEW IN GRAPH narrows the filter to the fragment's topic and leaves the view.
ViewInGraph(f) ==
  /\ Shown /\ Tap /\ slot.shows # None
  /\ filter' = f
  /\ list' = NoList /\ slot' = Shut /\ high' = None
  /\ UNCHANGED <<pageNo, pages, typed, asked, exported, paints>>

-----------------------------------------------------------------------------
(* Answers *)

\* The list is painted with the bar and the page number of this moment.
ListArrives(i, total) ==
  /\ asked[i].kind = "list"
  /\ pages' = total
  /\ typed' = filter
  /\ list' = PaintedList(pageNo, total)
  /\ slot' = Shut /\ high' = None
  /\ asked' = RemoveAt(asked, i)
  /\ paints' = paints + 1
  /\ UNCHANGED <<filter, pageNo, exported, taps>>

ListFails(i) ==
  /\ asked[i].kind = "list"
  /\ typed' = filter
  /\ list' = PaintedList(pageNo, pages)
  /\ slot' = Shut /\ high' = None
  /\ asked' = RemoveAt(asked, i)
  /\ paints' = paints + 1
  /\ UNCHANGED <<filter, pageNo, pages, exported, taps>>

\* The detail goes into the slot it was asked from, if that is still there.
DetailArrives(i, ok) ==
  /\ asked[i].kind = "detail"
  /\ slot' = IF Shown /\ paints = asked[i].render
             THEN IF ok THEN [slot EXCEPT !.shows = asked[i].frag]
                        ELSE [shows |-> None, open |-> FALSE]
             ELSE slot
  /\ asked' = RemoveAt(asked, i)
  /\ UNCHANGED <<filter, pageNo, pages, typed, list, high, exported, taps, paints>>

Init ==
  /\ filter = NoFilter /\ typed = NoFilter /\ exported = NoFilter
  /\ pageNo = 1 /\ pages = 1
  /\ list = NoList /\ slot = Shut /\ high = None
  /\ asked = <<[kind |-> "list", filter |-> NoFilter, page |-> 1, frag |-> None, render |-> 0]>>
  /\ paints = 0 /\ taps = 0

Next ==
  \/ Open \/ ApplyFilters \/ DownloadExport \/ CloseFragmentInspector
  \/ \E f \in Filters : Type(f) \/ ViewInGraph(f)
  \/ \E p \in 1..MaxPages : GoToPage(p)
  \/ \E i \in Frags : ShowFragmentDetail(i)
  \/ \E i \in DOMAIN asked :
       \/ \E total \in 1..MaxPages : ListArrives(i, total)
       \/ ListFails(i)
       \/ \E ok \in BOOLEAN : DetailArrives(i, ok)

Spec == Init /\ [][Next]_memory

-----------------------------------------------------------------------------
(* Properties *)

\* Whatever page was asked and however many pages the answer has, the window
\* is full, holds the current page, and no button leads outside: the operator
\* can always get to the first and to the last page (renderPagination).
WindowFits ==
  list.of > 1 =>
    /\ Cardinality(list.window) = SmallerOf(WindowSize, list.of)
    /\ {1, list.of} \subseteq list.buttons
    /\ list.window \subseteq list.buttons /\ list.buttons \subseteq 1..list.of
    /\ list.page <= list.of => list.page \in list.window

=============================================================================
