------------------------------ MODULE ToolCall ------------------------------
(***************************************************************************)
(* The JSON-RPC layer of a session: the protocol version it agrees on, the *)
(* tools it lists and the tools it calls.  A tool is known from five hand- *)
(* kept tables: its schema, the list of tools/list, the registry, the      *)
(* permission it needs, and the presets that hide it.                      *)
(***************************************************************************)
EXTENDS Naturals, FiniteSets

CONSTANTS Dates,      \* protocol versions, as dates in their order (Naturals)
          Supported,  \* SUPPORTED_PROTOCOL_VERSIONS
          None,
          MaxRequests \* bound of the requests

VARIABLES grants,   \* permissions of the key, {"master"} for the master key
          mode,     \* preset of the session, None for none
          agreed,   \* session.negotiatedVersion, 0 before initialize
          spoken,   \* the version of the last initialize answer
          shown,    \* the tools of the last tools/list
          rows,     \* changes asked for, of fragments, links and cases
          traces,   \* searches that left their trace: accesses of what they found,
                    \* co-retrieval links
          wm,       \* entries of the session's working memory
          last,     \* the last request and what came of it
          requests

toolcall == <<grants, mode, agreed, spoken, shown, rows, traces, wm, last, requests>>

Master == grants = {"master"}

\* ---- schemas: what a call must give, and whether dryRun is offered ----

RememberDefinition == [required |-> TRUE, dryRun |-> TRUE]
BatchRememberDefinition == [required |-> TRUE, dryRun |-> FALSE]
RecallDefinition == [required |-> FALSE, dryRun |-> FALSE]
ForgetDefinition == [required |-> FALSE, dryRun |-> TRUE]
LinkDefinition == [required |-> TRUE, dryRun |-> TRUE]
AmendDefinition == [required |-> TRUE, dryRun |-> TRUE]
ReflectDefinition == [required |-> FALSE, dryRun |-> FALSE]
ContextDefinition == [required |-> FALSE, dryRun |-> FALSE]
ToolFeedbackDefinition == [required |-> TRUE, dryRun |-> FALSE]
MemoryConsolidateDefinition == [required |-> FALSE, dryRun |-> FALSE]
GraphExploreDefinition == [required |-> TRUE, dryRun |-> FALSE]
ReconstructHistoryDefinition == [required |-> FALSE, dryRun |-> FALSE]
SearchTracesDefinition == [required |-> FALSE, dryRun |-> FALSE]

\* Tools of the same handling stand for each other: get_skill_guide and
\* memory_stats for the readers, batch_status and fragment_history too
Schema ==
  [remember |-> RememberDefinition, batch_remember |-> BatchRememberDefinition,
   recall |-> RecallDefinition, forget |-> ForgetDefinition,
   link |-> LinkDefinition, amend |-> AmendDefinition,
   reflect |-> ReflectDefinition, context |-> ContextDefinition,
   tool_feedback |-> ToolFeedbackDefinition,
   memory_consolidate |-> MemoryConsolidateDefinition,
   graph_explore |-> GraphExploreDefinition,
   reconstruct_history |-> ReconstructHistoryDefinition,
   search_traces |-> SearchTracesDefinition,
   apply_update |-> [required |-> TRUE, dryRun |-> TRUE]]

Tools == DOMAIN Schema

\* TOOL_PERMISSIONS
Needs ==
  [t \in Tools |->
     IF t \in {"remember", "batch_remember", "forget", "link", "amend", "reflect",
               "tool_feedback"} THEN "write"
     ELSE IF t \in {"memory_consolidate", "apply_update"} THEN "admin" ELSE "read"]

\* Mutant: the permission table is read with read as the default
CheckPermission_Mutant(t) == Master \/ "read" \in grants \/ "admin" \in grants

CheckPermission(t) ==
  /\ t \in DOMAIN Needs
  /\ Master \/ Needs[t] \in grants \/ "admin" \in grants

\* meta.capabilities of the registry
Capability ==
  [t \in Tools |->
     IF t \in {"forget", "memory_consolidate"} THEN "memory:destructive"
     ELSE IF t \in {"remember", "batch_remember", "link", "amend", "reflect",
                    "tool_feedback"} THEN "memory:write"
     ELSE IF t = "apply_update" THEN "admin" ELSE "memory:read"]

Excluded ==
  [recallOnly |-> {"remember", "batch_remember", "amend", "forget", "link", "reflect",
                   "memory_consolidate"},
   writeOnly |-> {"recall", "context", "reconstruct_history", "graph_explore",
                  "search_traces"},
   audit |-> {"remember", "batch_remember", "amend", "forget", "link", "reflect"}]

\* A preset for the master key is ignored in another session
FilterTools(tools) ==
  IF mode = None \/ (mode = "audit" /\ ~Master) THEN tools
  ELSE tools \ Excluded[mode]

GetToolsDefinition == IF Master THEN Tools ELSE Tools \ {"apply_update"}

\* ---- versions ----

Latest == CHOOSE v \in Supported : \A w \in Supported : w <= v
Oldest == CHOOSE v \in Supported : \A w \in Supported : v <= w

\* v = 0 stands for a client that names none.  The newest supported version
\* comes first, so a version after it falls back to it.
NegotiateProtocolVersion(v) ==
  IF v = 0 THEN Latest
  ELSE IF v \in Supported \/ v <= Latest THEN v ELSE Latest

Init ==
  /\ grants \in SUBSET {"read", "write"} \cup {{"master"}, {"read", "admin"}}
  /\ mode \in DOMAIN Excluded \cup {None}
  /\ agreed = 0 /\ spoken = 0 /\ shown = {} /\ rows = 0 /\ traces = 0 /\ wm = 0
  /\ last = [tool |-> None, out |-> "none", dry |-> FALSE] /\ requests = 0

Request ==
  /\ requests < MaxRequests
  /\ requests' = requests + 1
  /\ UNCHANGED <<grants, mode>>

\* initialize answers the version and the session keeps it
HandleInitialize ==
  \E v \in Dates \cup {0}, notification \in BOOLEAN :
    /\ Request
    /\ last' = [tool |-> "initialize", out |-> IF notification THEN "accepted" ELSE "ok",
                dry |-> FALSE]
    /\ IF notification THEN UNCHANGED <<agreed, spoken>>
       ELSE agreed' = NegotiateProtocolVersion(v) /\ spoken' = NegotiateProtocolVersion(v)
    /\ UNCHANGED <<shown, rows, traces, wm>>

\* The header is checked against the list and the session follows it
HeaderServed(h) == h \in Supported
Reanchored(h) == IF HeaderServed(h) THEN h ELSE agreed

\* A client names the version of its initialize answer; one that names none
\* (h = 0) is taken for a version of the list
Headers == {0} \cup ({spoken} \ {0})

HandleToolsList ==
  \E h \in Headers :
    /\ Request
    /\ IF h = 0 \/ HeaderServed(h)
       THEN /\ shown' = FilterTools(GetToolsDefinition)
            /\ agreed' = IF h = 0 THEN agreed ELSE Reanchored(h)
            /\ last' = [tool |-> "list", out |-> "ok", dry |-> FALSE]
       ELSE /\ UNCHANGED <<shown, agreed>>
            /\ last' = [tool |-> "list", out |-> "rejected", dry |-> FALSE]
    /\ UNCHANGED <<spoken, rows, traces, wm>>

\* ---- tools/call ----

\* The handlers that stop before their first write when dryRun is true
Plans(c) == c.dry /\ c.tool \in {"remember", "forget", "link", "amend"}

\* remember with scope session is kept in the working memory and goes no
\* further: the branch comes before that of dryRun
SessionScoped(c) == c.tool = "remember" /\ c.session

\* What withAudit and its kin turn into success: false
Fails(c) ==
  \/ Schema[c.tool].required /\ ~c.complete
  \/ c.tool = "reconstruct_history" /\ ~c.complete
  \/ c.tool = "memory_consolidate" /\ ~Master

\* forget without an id or a topic deletes nothing
Writes(c) ==
  /\ ~Fails(c) /\ ~Plans(c) /\ ~SessionScoped(c)
  /\ c.tool \in {"remember", "batch_remember", "link", "amend", "reflect",
                 "tool_feedback", "memory_consolidate"}
       \/ (c.tool = "forget" /\ c.complete)

\* What a search finds has its accesses counted and, in a session, its links
\* raised.  remember searches for conflicts, in a dry run too.
Searches(c) ==
  ~Fails(c) /\ (c.tool \in {"recall", "context"} \/ (c.tool = "remember" /\ ~c.session))

\* A tool of the registry with a permission the session has; a denial is an
\* error of its own and reaches the client as an internal error
HandleToolsCall ==
  \E t \in Tools, h \in Headers, complete, dry, session, notification, hit \in BOOLEAN :
    LET c == [tool |-> t, complete |-> complete, dry |-> dry, session |-> session]
    IN  /\ Request
        /\ dry => Schema[t].dryRun
        /\ session => t = "remember"
        /\ IF ~(h = 0 \/ HeaderServed(h))
           THEN /\ last' = [tool |-> t, out |-> "rejected", dry |-> dry]
                /\ UNCHANGED <<agreed, rows, traces, wm>>
           ELSE /\ agreed' = IF h = 0 THEN agreed ELSE Reanchored(h)
                /\ last' = [tool |-> t, dry |-> dry, out |->
                     IF notification THEN "accepted"
                     ELSE IF t \notin DOMAIN Needs THEN "unknown"
                     ELSE IF ~CheckPermission(t) THEN "denied"
                     ELSE IF Fails(c) THEN "failed" ELSE "ok"]
                /\ rows' = IF CheckPermission(t) /\ Writes(c) THEN rows + 1 ELSE rows
                /\ traces' = IF CheckPermission(t) /\ Searches(c) /\ hit THEN traces + 1 ELSE traces
                /\ wm' = IF CheckPermission(t) /\ ~Fails(c) /\ SessionScoped(c)
                         THEN wm + 1 ELSE wm
        /\ UNCHANGED <<spoken, shown>>

Next == HandleInitialize \/ HandleToolsList \/ HandleToolsCall

Spec == Init /\ [][Next]_toolcall

-----------------------------------------------------------------------------

(***************************************************************************)
(* Changes that are asked for are made only by a call whose key may write, *)
(* whose tool is declared as a writer in the registry, and which is no dry *)
(* run; what a search leaves behind only by a call whose key may do what   *)
(* the registry declares of its tool, which is reading for recall.  The    *)
(* tables of permissions and of capabilities agree with what the handlers  *)
(* do, notifications included.                                             *)
(***************************************************************************)
ChangesAreGranted ==
  [][/\ rows' # rows => /\ Capability[last'.tool] \in {"memory:write", "memory:destructive"}
                        /\ Master \/ grants \cap {"write", "admin"} # {}
                        /\ ~last'.dry
     /\ traces' # traces =>
          LET declared == IF Capability[last'.tool] = "memory:read" THEN "read" ELSE "write"
          IN  Master \/ grants \cap {declared, "admin"} # {}]_toolcall
=============================================================================
