----------------------------- MODULE AdminGraph -----------------------------
(***************************************************************************)
(* The graph view of the admin console (modules/graph.js): each load draws *)
(* a new force simulation; when it comes to rest the satellites of its     *)
(* nodes start to turn, one requestAnimationFrame chain kept in the        *)
(* module's _moonRafId.  Loading again, dragging a node and hiding the tab *)
(* cancel the chain; the end of a simulation and the return to the tab     *)
(* start it.  Every load leaves its simulation and its visibilitychange    *)
(* listener behind.                                                        *)
(***************************************************************************)
EXTENDS Naturals, FiniteSets

CONSTANTS
  MaxLoads,   \* times the graph is loaded
  MaxMoves    \* drags and changes of the tab's visibility

VARIABLES
  loads,      \* loads started so far, numbered from 1
  waiting,    \* loads whose graph has not arrived
  moons,      \* loads whose graph has satellites
  drawn,      \* the load whose SVG is in the page; 0 for none
  running,    \* loads whose simulation is not at rest
  raf,        \* _moonRafId: the load whose frame is scheduled, 0 for null
  frames,     \* the frames the browser has scheduled, by load
  hidden,     \* document.hidden
  moves

graph == <<loads, waiting, moons, drawn, running, raf, frames, hidden, moves>>

Drawn == 1..loads \ waiting         \* loads with a listener on the document

CancelFrame == raf' = 0 /\ frames' = frames \ {raf}
StartFrame(l) == raf' = l /\ frames' = frames \union {l}

\* loadGraph up to its await.
LoadGraph ==
  /\ loads < MaxLoads
  /\ loads' = loads + 1
  /\ waiting' = waiting \union {loads + 1}
  /\ CancelFrame
  /\ UNCHANGED <<moons, drawn, running, hidden, moves>>

\* The graph arrives: the SVG is replaced, a simulation starts.
DrawGraph(l, hasMoons) ==
  /\ l \in waiting
  /\ waiting' = waiting \ {l}
  /\ drawn' = l
  /\ running' = running \union {l}
  /\ moons' = IF hasMoons THEN moons \union {l} ELSE moons
  /\ UNCHANGED <<loads, raf, frames, hidden, moves>>

\* Mutant: a simulation at rest starts its satellites whatever is running.
SimEnds_Mutant(l) ==
  /\ l \in running
  /\ running' = running \ {l}
  /\ IF l = drawn /\ l \in moons
     THEN StartFrame(l)
     ELSE UNCHANGED <<raf, frames>>
  /\ UNCHANGED <<loads, waiting, moons, drawn, hidden, moves>>

\* sim.on("end"): a graph that was replaced has an empty bounding box and stops.
SimEnds(l) ==
  /\ l \in running
  /\ running' = running \ {l}
  /\ IF l = drawn /\ l \in moons /\ raf = 0
     THEN StartFrame(l)
     ELSE UNCHANGED <<raf, frames>>
  /\ UNCHANGED <<loads, waiting, moons, drawn, hidden, moves>>

Drag ==
  /\ moves < MaxMoves /\ moves' = moves + 1
  /\ drawn # 0 /\ ~hidden
  /\ running' = running \union {drawn}
  /\ CancelFrame
  /\ UNCHANGED <<loads, waiting, moons, drawn, hidden>>

\* visibilitychange: the listeners run in the order of their loads, so the
\* first cancels and, on return, the oldest with satellites takes the slot.
HideTab ==
  /\ moves < MaxMoves /\ moves' = moves + 1
  /\ ~hidden /\ hidden' = TRUE
  /\ IF Drawn # {} THEN CancelFrame ELSE UNCHANGED <<raf, frames>>
  /\ UNCHANGED <<loads, waiting, moons, drawn, running>>
ShowTab ==
  /\ hidden /\ hidden' = FALSE
  /\ IF moons # {} /\ raf = 0
     THEN \E l \in moons : (\A k \in moons : l <= k) /\ StartFrame(l)
     ELSE UNCHANGED <<raf, frames>>
  /\ UNCHANGED <<loads, waiting, moons, drawn, running, moves>>

\* _animateMoons: the frame runs and schedules the next one.
AnimateMoons(l) ==
  /\ l \in frames /\ ~hidden
  /\ raf' = l
  /\ UNCHANGED <<loads, waiting, moons, drawn, running, frames, hidden, moves>>

Init ==
  /\ loads = 0 /\ waiting = {} /\ moons = {} /\ drawn = 0 /\ running = {}
  /\ raf = 0 /\ frames = {} /\ hidden = FALSE /\ moves = 0

Next ==
  \/ LoadGraph \/ Drag \/ HideTab \/ ShowTab
  \/ \E l \in 1..loads :
       \/ \E hasMoons \in BOOLEAN : DrawGraph(l, hasMoons)
       \/ SimEnds(l) \/ AnimateMoons(l)

Spec == Init /\ [][Next]_graph

-----------------------------------------------------------------------------
(* Properties *)

\* One animation at a time, and the one _moonRafId can cancel: simulations that
\* end late, loads that overlap, drags and tab changes never leave a second
\* chain of frames that nothing can stop (graph.js keeps a single slot).
OneAnimation ==
  frames = IF raf = 0 THEN {} ELSE {raf}

=============================================================================
