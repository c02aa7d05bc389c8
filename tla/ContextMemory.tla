--------------------------- MODULE ContextMemory ---------------------------
(***************************************************************************)
(* The working memory of one session and the context built from it.        *)
(* remember(scope = session) pushes an entry on a Redis list, reads the    *)
(* list back and rewrites it when it is over its token budget, each a      *)
(* command of its own; reflect deletes the list.  context() reads the      *)
(* list, then looks its ids up in the database, selects, and notes what    *)
(* it has shown, which recall() then leaves out.                           *)
(***************************************************************************)
EXTENDS Integers, Sequences

CONSTANTS Session,  \* entries remembered for the session
          Durable,  \* fragments remembered for good
          Weight,   \* [Session -> token count]
          Guarded,  \* those of Session with an importance above 0.8
          WmLimit   \* WM_MAX_TOKENS

VARIABLES wm,      \* the list in Redis
          adding,  \* [Session -> "new", "pushed", "rewrite" or "done"]
          remain,  \* [Session -> the list _enforceWmBudget will write]
          table,   \* current fragments in PostgreSQL
          build,   \* context() between its steps
          seen     \* frag:seen of the session

vars == <<wm, adding, remain, table, build, seen>>

Entries(s) == {s[i] : i \in DOMAIN s}

Tokens(s) ==
  LET sum[n \in 0..Len(s)] == IF n = 0 THEN 0 ELSE sum[n - 1] + Weight[s[n]]
  IN  sum[Len(s)]

\* The walk over s while its total is above the limit: the oldest entries go, the
\* guarded ones stay
Walk(s, total) ==
  LET at[n \in 0..Len(s)] ==
        IF n = 0 THEN [out |-> 0, keep |-> <<>>]
        ELSE LET a == at[n - 1]
             IN  IF total - a.out > WmLimit /\ s[n] \notin Guarded
                 THEN [out |-> a.out + Weight[s[n]], keep |-> a.keep]
                 ELSE [out |-> a.out, keep |-> Append(a.keep, s[n])]
  IN  at[Len(s)].keep

\* Mutant: the guarded entries do not count
Shortened_Mutant(s) == Walk(s, Tokens(SelectSeq(s, LAMBDA e : e \notin Guarded)))

Shortened(s) == Walk(s, Tokens(s))

---------------------------------------------------------------------------
Push(e) ==
  /\ adding[e] = "new"
  /\ wm' = Append(wm, e)
  /\ adding' = [adding EXCEPT ![e] = "pushed"]
  /\ UNCHANGED <<remain, table, build, seen>>

Measure(e) ==
  /\ adding[e] = "pushed"
  /\ IF Shortened(wm) # wm
     THEN /\ adding' = [adding EXCEPT ![e] = "rewrite"]
          /\ remain' = [remain EXCEPT ![e] = Shortened(wm)]
     ELSE /\ adding' = [adding EXCEPT ![e] = "done"]
          /\ UNCHANGED remain
  /\ UNCHANGED <<wm, table, build, seen>>

Rewrite(e) ==
  /\ adding[e] = "rewrite"
  /\ wm' = remain[e]
  /\ adding' = [adding EXCEPT ![e] = "done"]
  /\ remain' = [remain EXCEPT ![e] = <<>>]
  /\ UNCHANGED <<table, build, seen>>

\* reflect, expiry, or a Redis restart
ClearWorkingMemory ==
  /\ wm # <<>>
  /\ wm' = <<>>
  /\ UNCHANGED <<adding, remain, table, build, seen>>

Remember(f) ==
  /\ f \notin table
  /\ table' = table \cup {f}
  /\ UNCHANGED <<wm, adding, remain, build, seen>>

Forget(f) ==
  /\ f \in table
  /\ table' = table \ {f}
  /\ UNCHANGED <<wm, adding, remain, build, seen>>

---------------------------------------------------------------------------
(* build(): the core memory by recall, the ids of the working memory, the  *)
(* rows of these ids, then the selection.                                  *)

Idle == [pc |-> "idle", core |-> {}, ids |-> {}, out |-> {}]

LoadCore ==
  /\ build.pc \in {"idle", "done"}
  /\ build' = [Idle EXCEPT !.pc = "wm", !.core = table]
  /\ UNCHANGED <<wm, adding, remain, table, seen>>

LoadWorking ==
  /\ build.pc = "wm"
  /\ build' = [build EXCEPT !.pc = "rows", !.ids = Entries(wm)]
  /\ UNCHANGED <<wm, adding, remain, table, seen>>

\* getByIds on the ids of the list, then setSeenIds with all that is returned
Answer ==
  LET shown == build.core \cup (build.ids \cap table) IN
  /\ build.pc = "rows"
  /\ build' = [build EXCEPT !.pc = "done", !.out = shown]
  /\ seen' = shown
  /\ UNCHANGED <<wm, adding, remain, table>>

---------------------------------------------------------------------------
Init ==
  /\ wm = <<>> /\ table = {} /\ build = Idle /\ seen = {}
  /\ adding = [e \in Session |-> "new"]
  /\ remain = [e \in Session |-> <<>>]

Add == \E e \in Session : Push(e) \/ Measure(e) \/ Rewrite(e)
Write == \E f \in Durable : Remember(f) \/ Forget(f)

Next == Add \/ ClearWorkingMemory \/ Write \/ LoadCore \/ LoadWorking \/ Answer

Spec == Init /\ [][Next]_vars

\* When no remember is between its commands the list is within its budget or
\* holds guarded entries alone, though writers rewrite each other's lists from
\* what they read earlier (_enforceWmBudget).
WmWithinBudget ==
  (\A e \in Session : adding[e] \in {"new", "done"}) =>
    Tokens(wm) <= WmLimit \/ Entries(wm) \subseteq Guarded

=============================================================================
