----------------------------- MODULE RateLimits -----------------------------
(***************************************************************************)
(* The two in-process limiters: the sliding window of RateLimiter (per     *)
(* address or key) and the window of POST /session/rotate.                 *)
(***************************************************************************)
EXTENDS Integers, Sequences

CONSTANTS Window,    \* windowMs and WINDOW_MS, in ticks
          MaxHits,   \* maxRequests
          RotateMax, \* WEASLEY_DEEPMIND_ROTATE_RATE_LIMIT_PER_MIN
          Horizon    \* bound: the clock

VARIABLES now,
          hits,      \* the bucket of one address: a sequence of times
          rotate,    \* [count, start] of the rotate window
          let        \* history: the times of the requests and of the rotations let through

vars == <<now, hits, rotate, let>>

\* The first n hits are not later than the cutoff, the next one is
Stale(n) ==
  /\ \A i \in 1..n : hits[i] <= now - Window
  /\ n < Len(hits) => hits[n + 1] > now - Window

\* They are dropped
InWindow(n) == SubSeq(hits, n + 1, Len(hits))

Count(kind) == let' = [let EXCEPT ![kind] = Append(@, now)]

Allow ==
  /\ \E n \in 0..Len(hits) :
       /\ Stale(n)
       /\ IF Len(hits) - n >= MaxHits
          THEN hits' = InWindow(n) /\ UNCHANGED let
          ELSE hits' = Append(InWindow(n), now) /\ Count("request")
  /\ UNCHANGED <<now, rotate>>

\* The periodic sweep also removes a bucket left empty
Cleanup ==
  /\ \E n \in 0..Len(hits) : Stale(n) /\ hits' = InWindow(n)
  /\ UNCHANGED <<now, rotate, let>>

\* Mutant: a refused rotation begins a window of its own
CheckRotate_Mutant ==
  LET entry == IF now - rotate.start >= Window \/ rotate.count >= RotateMax
               THEN [count |-> 0, start |-> now] ELSE rotate IN
  /\ IF entry.count >= RotateMax
     THEN rotate' = entry /\ UNCHANGED let
     ELSE rotate' = [entry EXCEPT !.count = @ + 1] /\ Count("rotate")
  /\ UNCHANGED <<now, hits>>

CheckRotate ==
  LET entry == IF now - rotate.start >= Window THEN [count |-> 0, start |-> now] ELSE rotate IN
  /\ IF entry.count >= RotateMax
     THEN rotate' = entry /\ UNCHANGED let
     ELSE rotate' = [entry EXCEPT !.count = @ + 1] /\ Count("rotate")
  /\ UNCHANGED <<now, hits>>

Tick ==
  /\ now < Horizon
  /\ now' = now + 1
  /\ UNCHANGED <<hits, rotate, let>>

Init ==
  /\ now = 0 /\ hits = <<>>
  /\ rotate = [count |-> 0, start |-> 0 - Window]
  /\ let = [request |-> <<>>, rotate |-> <<>>]

Next == Allow \/ Cleanup \/ CheckRotate \/ Tick
Spec == Init /\ [][Next]_vars

\* Of n + 1 in a row the last is a window or more after the first
Spaced(times, n) == \A i \in 1..Len(times) : i + n <= Len(times) => times[i + n] - times[i] >= Window

\* However the requests and the sweeps fall, no stretch of one window's length
\* lets more requests through than the limit, and more rotations than twice
\* theirs: a rotate window starts anew, it does not slide (RateLimiter.allow,
\* checkRotateRateLimit).
WindowKept == Spaced(let.request, MaxHits) /\ Spaced(let.rotate, 2 * RotateMax)
=============================================================================
