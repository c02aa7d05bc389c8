------------------------------- MODULE Parts -------------------------------
(***************************************************************************)
(* Parts of the server that keep to themselves, side by side: the read     *)
(* path and its pages, links and their feedback, cases, the end of a       *)
(* session, OAuth, tool calls, request limits and the admin console.  Each *)
(* has variables of its own; this module names its instance, with          *)
(* parameters that MCParts gives values, and its property.  PartsProofs    *)
(* proves the properties for every value the assumptions allow.            *)
(***************************************************************************)
EXTENDS Integers, Sequences, FiniteSets

CONSTANTS None,
  Fragments,     \* fragment ids
  Crashes,       \* bound of the restarts
  LastTick       \* bound of the clocks

(* The read path *)
CONSTANTS Callers, Topics, FirstRows, RowLinks, Recalls, Recent, MaxWrites, MaxAsks,
  Importances, SameSession, QueryLimit,
  Values         \* what the columns of a row hold

(* The pages of a recall *)
CONSTANTS Births, PageSize, Rooms

(* Links after an insert, and their feedback *)
CONSTANTS KeyOf, GroupOf, SpaceOf, CaseOf, TopicOf, Alike, Adjacent, Named, MarkerOf,
  Positive, Negative, Deployments, MaxTodo, MaxChanges,
  Threads, LinkWeights, FeedbackWindow, MaxFeedbacks, MaxRaises

(* Cases, reflection, milestones *)
CONSTANTS ErrorFrags, ProcedureFrags, Batched, EventLimit, MaxTroubles,
  Runs, Items, ItemKinds, Similar, MaxCalls, MaxReflects

(* OAuth, tool calls *)
CONSTANTS Keys, AccessTtl, MaxEntries, Dates, Supported, MaxRequests

(* Request limits: the limiters, the calls of a key and its gate *)
CONSTANTS LimitWindow, MaxHits, RotateMax, Horizon, KeyCalls, DailyLimit, MaxServed, MaxTurns,
          Lookups, GateTtl, GateTicks

(* The admin console: the pages of keys, groups and sessions, the list of  *)
(* memories, the graph                                                     *)
CONSTANTS ConsoleKeys, Groups, Sessions, FirstKeys, FirstGroups, FirstMembers, Menus,
          MaxOperations, MaxPolls, MaxFlight, Filters, WindowSize, MaxPages, MaxClicks,
          MaxLoads, MaxMoves

VARIABLES
  rows, index, hot, fills, edits, calls, changes, asked,
  clock, ema, room, cursor, served,
  weight, lock, raises, audit, th, lastDecay, pending, now, feedbacks, feedbackCrashes,
  stored, current, links, claims, status, todo, found, symbolic, written, linkChanges,
  pc, case, picked, backfill, events, begun, next, edges, evidence, failed, expiries,
  log, flight, sessionWm, saved, run, toolCalls, reflectCrashes,
  milestones, milestoneEdges, lastEvent, ms, reflects, milestoneCrashes,
  redis, time, active, entries, issued, tokenGrants,
  grants, mode, agreed, spoken, shown, changed, traces, sessionEntries, lastCall, requests,
  minute, hits, rotate, let,
  keyStatus, usage, call, counted, lost, turns,
  gate, held, cache, asks, moment, gateTurns,
  keys, groups, member, live, menu, view, sel, keyFilter, got, page, inFlight, modal, mount,
    lastClick, clicks, ticks,
  filter, pageNo, pages, typed, fragments, slot, high, wanted, exported, paints, taps,
  loads, waiting, moons, drawn, running, raf, frames, hidden, moves

recallVars == <<rows, index, hot, fills, edits, calls, changes, asked>>
pagingVars == <<clock, ema, room, cursor, served>>
feedbackVars == <<weight, lock, raises, audit, th, lastDecay, pending, now, feedbacks, feedbackCrashes>>
linkVars == <<stored, current, links, claims, status, todo, found, symbolic, written, linkChanges>>
caseVars == <<pc, case, picked, backfill, events, begun, next, edges, evidence, failed, expiries>>
reflectionVars == <<log, flight, sessionWm, saved, run, toolCalls, reflectCrashes>>
milestoneVars == <<milestones, milestoneEdges, lastEvent, ms, reflects, milestoneCrashes>>
accessVars == <<redis, time, active, entries, issued, tokenGrants>>
toolVars == <<grants, mode, agreed, spoken, shown, changed, traces, sessionEntries, lastCall, requests>>
limitVars == <<minute, hits, rotate, let>>
usageVars == <<keyStatus, usage, call, counted, lost, turns>>
gateVars == <<gate, held, cache, asks, moment, gateTurns>>
consoleVars == <<keys, groups, member, live, menu, view, sel, keyFilter, got, page, inFlight,
                 modal, mount, lastClick, clicks, ticks>>
memoryVars == <<filter, pageNo, pages, typed, fragments, slot, high, wanted, exported, paints, taps>>
graphVars == <<loads, waiting, moons, drawn, running, raf, frames, hidden, moves>>

---------------------------------------------------------------------------
(* The instances.                                                          *)

Recall == INSTANCE Recall WITH
  Frags <- Fragments, Levels <- Importances, Links <- RowLinks, Nearby <- SameSession,
  Limit <- QueryLimit, Queries <- Recalls, MaxChanges <- MaxWrites

Paging == INSTANCE Paging WITH LastMoment <- LastTick

Feedback == INSTANCE Reconsolidation WITH
  Window <- FeedbackWindow, MaxCalls <- MaxFeedbacks, calls <- feedbacks, crashes <- feedbackCrashes

AutoLinks == INSTANCE AutoLinks WITH
  Frags <- Fragments, Near <- Adjacent, changes <- linkChanges

Cases == INSTANCE Cases WITH Frags <- Fragments

Reflection == INSTANCE Reflection WITH
  Kind <- ItemKinds, wm <- sessionWm, calls <- toolCalls, crashes <- reflectCrashes

Milestones == INSTANCE Milestones WITH
  Items <- Fragments, MaxCalls <- MaxReflects, events <- milestones, edges <- milestoneEdges,
  last <- lastEvent, calls <- reflects, crashes <- milestoneCrashes

Access == INSTANCE Access WITH NoKey <- None, grants <- tokenGrants

Tools == INSTANCE ToolCall WITH rows <- changed, wm <- sessionEntries, last <- lastCall

Limits == INSTANCE RateLimits WITH Window <- LimitWindow, now <- minute

Usage == INSTANCE KeyUsage WITH Calls <- KeyCalls, status <- keyStatus, served <- counted

Gate == INSTANCE GateCache WITH Calls <- Lookups, LastTick <- GateTicks, turns <- gateTurns

Console == INSTANCE AdminConsole WITH
  Keys <- ConsoleKeys, MaxClicks <- MaxOperations, MaxTicks <- MaxPolls,
  current <- view, filter <- keyFilter, flight <- inFlight, last <- lastClick

Memory == INSTANCE AdminMemory WITH
  Frags <- Fragments, NoFilter <- None, list <- fragments, asked <- wanted

Graph == INSTANCE AdminGraph

---------------------------------------------------------------------------
(* Assumptions.                                                            *)

\* The table a recall starts from has the columns of agent_memory.fragments
Row == [ver : Nat, topic : Values, key : Values, agent : Values, space : Values, case : Values,
        affect : Values, imp : Nat, recent : BOOLEAN, cur : BOOLEAN, live : BOOLEAN]

\* A memory has finitely many fragments
ASSUME FragmentsAssumption == IsFiniteSet(Fragments)

\* Moves stay within the column; recalls go by keywords, by topic or by text alone,
\* as recall() builds its query; L2's LIMIT is a count; links and sessions are of fragments
ASSUME RecallAssumption ==
  /\ FirstRows \in [Fragments -> Row]
  /\ Topics \subseteq Values /\ Importances \subseteq Nat
  /\ \A q \in Recalls : q.by \in {None, "keywords", "topic"} /\ q.text \in BOOLEAN
  /\ QueryLimit["l2"] \in Nat
  /\ RowLinks \cup SameSession \subseteq Fragments \X Fragments

\* The rows that getByCase reads are counted
ASSUME CasesAssumption == EventLimit \in Nat

\* Fragments are in some order, were created at some time, and a page holds some
ASSUME PagingAssumption ==
  /\ Births \in Seq(Int)
  /\ PageSize \in Nat \ {0} /\ Rooms \subseteq Nat /\ LastTick \in Nat

\* RATE_LIMIT_MS is a time; NULL is neither a time nor a call
ASSUME FeedbackAssumption ==
  /\ FeedbackWindow \in Nat /\ LinkWeights \subseteq Int
  /\ None \notin Threads /\ None \notin Nat

\* Windows and limits are counts, a daily limit is positive (updateDailyLimit), and a
\* key has finitely many requests at the same time
ASSUME LimitsAssumption ==
  /\ {LimitWindow, MaxHits, RotateMax, GateTtl} \subseteq Nat
  /\ DailyLimit \in Nat \ {0} /\ IsFiniteSet(KeyCalls)

\* Some page number is shown, and pages are counted
ASSUME PagesAssumption == WindowSize \in Nat \ {0} /\ MaxPages \in Nat

---------------------------------------------------------------------------
(* Properties.  Each is that of its module.                                *)

\* A recall answers with rows as they are or were after it was asked, within the
\* caller's scope, whatever Redis remembers (_tryHotCache, _getScopedByIds); what
\* tool_recall attaches to them is current, but scoped by less.
Sound == Recall!Sound

\* A structured recall misses no row of the least importance that nobody touches, unless
\* as many rows as _searchL2's LIMIT are found.
StructuredComplete == Recall!StructuredComplete

\* The pages of a recall return every fragment once that shares its score with no other
\* (the cursor's anchorTime).
PagesPartition == Paging!PagesPartition

\* Milestones of an agent hang together (linkEpisodeMilestone).
MilestonesChained == Milestones!MilestonesChained

\* The record of a reflect never takes the session's mark away (tool_reflect).
MarkOutlivesRecord == Reflection!MarkOutlivesRecord

\* A recorded fix is connected with the errors before it that getByCase's LIMIT leaves
\* (_recordCaseEvent).
FixCoversErrors == Cases!FixCoversErrors

\* The reconsolidation log accounts for a link's weight, and decays lie a window
\* apart (reconsolidate).
FeedbackAccounted == Feedback!FeedbackAccounted

\* Links made after an insert stay in the writer's group (RememberPostProcessor).
LinksStayInGroup == AutoLinks!LinksStayInGroup

\* An authorization goes on from one code or refresh token (handleToken).
OneChain == Access!OneChain

\* Only granted calls of declared writers make changes, and what a search leaves behind is
\* the work of a granted call too (dispatchJsonRpc).
ChangesAreGranted == Tools!ChangesAreGranted

\* No window lets more through than the limiters allow, a day no more than the key's
\* limit and what was under way, and a cached gate is the table's of less than a TTL
\* ago (RateLimiter.allow, incrementUsage, getSymbolicHardGate).
LimitsKept == Limits!WindowKept /\ Usage!OverrunBounded /\ Gate!GateRecent

\* A change the operator sends is about the panel that was clicked (keys.js).
ActsOnShown == Console!ActsOnShown

\* The console's page buttons lie around the current page and one animation of its
\* graph runs at a time (renderPagination, loadGraph).
ViewsHold == Memory!WindowFits /\ Graph!OneAnimation
=============================================================================
