------------------------------- MODULE Access -------------------------------
(***************************************************************************)
(* OAuth codes and tokens, the API keys they are bound to, and what a      *)
(* request that shows a token is taken for.  The store is either a map of  *)
(* the process, changed without a break, or Redis, where reading, saving   *)
(* and deleting are calls of their own and an entry has a time to live     *)
(* beside the expiry written in its value.                                 *)
(*                                                                         *)
(* Clients bring their binding with /authorize (client_id is an API key or *)
(* names one) or with /token (client_secret).                              *)
(***************************************************************************)
EXTENDS Naturals, FiniteSets

CONSTANTS Keys,        \* API keys
          NoKey,       \* no key: an OAuth client without a binding
          AccessTtl,   \* OAUTH_TOKEN_TTL_SECONDS, in ticks
          LastTick,    \* bound: the clock
          MaxEntries   \* bound: codes and tokens issued

VARIABLES redis,    \* REDIS_ENABLED
          time,
          active,   \* keys whose status is active
          entries,  \* the codes and tokens stored
          issued,   \* how many were ever issued: their names
          grants    \* token requests between their calls

vars == <<redis, time, active, entries, issued, grants>>

RefreshTtl == 2 * AccessTtl
\* A code's first refresh token says 24 access lifetimes; Redis keeps it for two
FirstRefresh == 24 * AccessTtl

\* family: the authorization it stems from; until: expires_at; ttl: Redis expiry
Entry(id, kind, family, key, until, ttl) ==
  [id |-> id, kind |-> kind, family |-> family, key |-> key, until |-> until, ttl |-> ttl]

Live(e) == ~redis \/ e.ttl > time   \* Redis drops an entry at its TTL
Stored(kind) == {e \in entries : e.kind = kind /\ Live(e)}

Pair(base, family, key, last) ==
  {Entry(base + 1, "access", family, key, time + AccessTtl, time + AccessTtl),
   Entry(base + 2, "refresh", family, key, time + last, time + RefreshTtl)}

---------------------------------------------------------------------------
\* handleAuthorize, once the redirect and the client are accepted; a key
\* that is not active binds nothing
Authorize(k) ==
  /\ issued < MaxEntries
  /\ issued' = issued + 1
  /\ entries' = entries \cup {Entry(issued + 1, "code", issued + 1,
                                    IF k \in active THEN k ELSE NoKey, time + 1, time + 1)}
  /\ UNCHANGED <<redis, time, active, grants>>

\* client_secret, when it is an active key, wins over the binding of the code
Binding(secret, e) == IF secret \in active THEN secret ELSE e.key

\* Mutant: a refresh token stays when its successor is issued
Redeem_Mutant(e, secret) ==
  LET base == issued  last == IF e.kind = "code" THEN FirstRefresh ELSE RefreshTtl IN
  /\ e \in Stored("code") \cup Stored("refresh")
  /\ issued + 2 <= MaxEntries
  /\ IF redis
     THEN /\ grants' = grants \cup {[from |-> e, key |-> Binding(secret, e), base |-> issued,
                                     pc |-> IF e.kind = "code" THEN "del" ELSE "save"]}
          /\ issued' = issued + 2
          /\ UNCHANGED entries
     ELSE /\ entries' = (IF e.kind = "code" THEN entries \ {e} ELSE entries) \cup
               IF time > e.until THEN {} ELSE Pair(base, e.family, Binding(secret, e), last)
          /\ issued' = IF time > e.until THEN issued ELSE issued + 2
          /\ UNCHANGED grants
  /\ UNCHANGED <<redis, time, active>>

\* The code or refresh token is read.  In the process's map a code leaves it at
\* once; a refresh token is replaced in the same breath.
Redeem(e, secret) ==
  LET base == issued  last == IF e.kind = "code" THEN FirstRefresh ELSE RefreshTtl IN
  /\ e \in Stored("code") \cup Stored("refresh")
  /\ issued + 2 <= MaxEntries
  /\ IF redis
     THEN /\ grants' = grants \cup {[from |-> e, key |-> Binding(secret, e), base |-> issued,
                                     pc |-> IF e.kind = "code" THEN "del" ELSE "save"]}
          /\ issued' = issued + 2
          /\ UNCHANGED entries
     ELSE /\ entries' = (entries \ {e}) \cup
               IF time > e.until THEN {} ELSE Pair(base, e.family, Binding(secret, e), last)
          /\ issued' = IF time > e.until THEN issued ELSE issued + 2
          /\ UNCHANGED grants
  /\ UNCHANGED <<redis, time, active>>

Move(g, pc) == grants' = (grants \ {g}) \cup (IF pc = "done" THEN {} ELSE {[g EXCEPT !.pc = pc]})

\* Redis: a code is deleted, then its tokens are saved; a refresh token is
\* deleted after its successors are saved
Delete(g) ==
  /\ g \in grants /\ g.pc \in {"del", "drop"}
  /\ entries' = {e \in entries : e.id # g.from.id}
  /\ Move(g, IF g.pc = "del" THEN "save" ELSE "done")
  /\ UNCHANGED <<redis, time, active, issued>>

Save(g) ==
  /\ g \in grants /\ g.pc = "save"
  /\ IF time > g.from.until
     THEN /\ Move(g, IF g.from.kind = "refresh" THEN "drop" ELSE "done")
          /\ UNCHANGED entries
     ELSE /\ entries' = entries \cup Pair(g.base, g.from.family, g.key,
                          IF g.from.kind = "code" THEN FirstRefresh ELSE RefreshTtl)
          /\ Move(g, IF g.from.kind = "refresh" THEN "drop" ELSE "done")
  /\ UNCHANGED <<redis, time, active, issued>>

\* A crash between the calls, or a call that fails and is only logged
Break(g) ==
  /\ g \in grants
  /\ grants' = grants \ {g}
  /\ UNCHANGED <<redis, time, active, entries, issued>>

---------------------------------------------------------------------------
\* validateAccessToken of a token that is in the store
Expired(e) == time > e.until

\* validateAuthentication with an OAuth token.  An expired one leaves the store; a
\* valid one gets a new Redis TTL, whatever then becomes of the request (its key
\* may not be active any more), and its expires_at stays.
Use(e) ==
  /\ e \in Stored("access")
  /\ IF Expired(e)
     THEN entries' = entries \ {e}
     ELSE entries' = (entries \ {e}) \cup {[e EXCEPT !.ttl = IF redis THEN time + AccessTtl ELSE @]}
  /\ UNCHANGED <<redis, time, active, issued, grants>>

SetStatus(k) ==
  /\ active' = IF k \in active THEN active \ {k} ELSE active \cup {k}
  /\ UNCHANGED <<redis, time, entries, issued, grants>>

\* cleanupExpiredOAuthData, for the maps of the process
Cleanup ==
  /\ ~redis
  /\ entries' = {e \in entries : time <= e.until}
  /\ entries' # entries
  /\ UNCHANGED <<redis, time, active, issued, grants>>

Restart ==
  /\ grants' = {} /\ entries' = IF redis THEN entries ELSE {}
  /\ <<grants', entries'>> # <<grants, entries>>
  /\ UNCHANGED <<redis, time, active, issued>>

Tick ==
  /\ time < LastTick
  /\ time' = time + 1
  /\ entries' = {e \in entries : redis => e.ttl > time'}
  /\ UNCHANGED <<redis, active, issued, grants>>

---------------------------------------------------------------------------
Init ==
  /\ redis \in BOOLEAN /\ time = 0 /\ active = Keys
  /\ entries = {} /\ issued = 0 /\ grants = {}

Granting == \E g \in grants : Delete(g) \/ Save(g) \/ Break(g)

Next ==
  \/ \E k \in Keys \cup {NoKey} : Authorize(k)
  \/ \E e \in entries : Use(e) \/ \E s \in Keys \cup {NoKey} : Redeem(e, s)
  \/ Granting \/ Cleanup \/ Restart \/ Tick
  \/ \E k \in Keys : SetStatus(k)

Spec == Init /\ [][Next]_vars

\* In the process's own maps an authorization has one place to go on from at
\* any time: its code or its latest refresh token, never both and never two,
\* however often the client repeats a request (handleToken).
OneChain ==
  ~redis => \A e, f \in entries :
    {e.kind, f.kind} \subseteq {"code", "refresh"} /\ e.family = f.family => e = f
=============================================================================
