------------------------------ MODULE LocalAccess ------------------------------
(***************************************************************************)
(* Who may call the service: one-time links that open a browser session,   *)
(* bearer tokens, and the number of requests of a client in a minute.  All *)
(* of it is in memory, and every handler runs in one piece on the event    *)
(* loop.  A tick of the clock is the unit of the lifetimes.                *)
(***************************************************************************)
EXTENDS StateSections

CONSTANTS
  Principal, ServiceScope,
  ScopesOf,     \* the scopes of a principal
  Nonce,        \* the links that are issued; a session is named by its link
  LaunchTtl, SessionTtl, Window,
  RateLimit, MaxTime, MaxRequests

ASSUME RateIsANumber == Window \in Nat /\ RateLimit \in Nat
ASSUME LifeIsANumber == SessionTtl \in Nat
ASSUME TimeIsBounded == MaxTime \in Nat

NoAccess == [pending |-> <<>>, sessions |-> <<>>, bucket |-> [p \in Principal |-> <<>>]]

\* What the callers saw: who opened a session when, and which requests passed.
NothingSeen == [now |-> 0, issued |-> {}, redeemed |-> <<>>, accepted |-> <<>>]

Now == outside.access.now

Alive(f) == [k \in {k \in DOMAIN f : f[k].expires > Now} |-> f[k]]

\* _purge
PurgeKept(access) == access   \* mutant: nothing is purged
Purged(access) ==
  [access EXCEPT !.pending = Alive(access.pending), !.sessions = Alive(access.sessions)]

Serve(access, seen) ==
  /\ memory' = [memory EXCEPT !.access = access]
  /\ outside' = [outside EXCEPT !.access = seen]
  /\ UNCHANGED state

Lease(principal, ttl) == [principal |-> principal, expires |-> Now + ttl]

IssueLaunch(principal, nonce) ==
  LET access == Purged(memory.access) IN
  /\ nonce \notin outside.access.issued
  /\ Serve([access EXCEPT !.pending = With(@, nonce, Lease(principal, LaunchTtl))],
           [outside.access EXCEPT !.issued = @ \cup {nonce}])

WithoutNone(f, k) == f   \* mutant: a redeemed link stays pending
Without(f, k) == [x \in DOMAIN f \ {k} |-> f[x]]

\* The link is taken out before its age is looked at; it opens a session if it is
\* alive, and is gone in any case.
RedeemLaunch(nonce, loopback) ==
  LET access == Purged(memory.access) IN
  /\ loopback
  /\ IF nonce \in DOMAIN access.pending
     THEN LET p == access.pending[nonce].principal IN
          Serve([access EXCEPT !.pending = Without(@, nonce),
                               !.sessions = With(@, nonce, Lease(p, SessionTtl))],
                [outside.access EXCEPT !.redeemed =
                   Append(@, [nonce |-> nonce, principal |-> p, at |-> Now])])
     ELSE Serve(access, outside.access)

\* The bucket from its first request within the window on: those before it are popped.
Recent(bucket) ==
  LET popped == CHOOSE n \in 0..Len(bucket) :
                  /\ \A i \in 1..n : bucket[i] <= Now - Window
                  /\ n < Len(bucket) => bucket[n + 1] > Now - Window
  IN SubSeq(bucket, popped + 1, Len(bucket))

RateAlways(bucket) == TRUE   \* mutant: a request too many passes
WithinRate(bucket) == Len(bucket) < RateLimit

\* The middleware: the session of the cookie, else the bearer token; a session
\* without the scope is refused and the token not looked at.  Then the rate.
Authenticate(cookie, token, scope) ==
  LET access == Purged(memory.access)
      session == cookie \in DOMAIN access.sessions
      caller == IF session THEN access.sessions[cookie].principal ELSE token
  IN /\ Len(outside.access.accepted) < MaxRequests
     /\ caller \in Principal
     /\ scope \in ScopesOf[caller]
     /\ LET bucket == Recent(access.bucket[caller]) IN
        IF WithinRate(bucket)
        THEN Serve([access EXCEPT !.bucket[caller] = Append(bucket, Now)],
                   [outside.access EXCEPT !.accepted =
                      Append(@, [client |-> caller, at |-> Now, scope |-> scope,
                                 session |-> IF session THEN cookie ELSE Nothing])])
        ELSE Serve([access EXCEPT !.bucket[caller] = bucket], outside.access)

Tick ==
  /\ Now < MaxTime
  /\ Serve(memory.access, [outside.access EXCEPT !.now = @ + 1])

\* A restart forgets every link, session and bucket.
ForgetAccess ==
  Serve(NoAccess, [outside.access EXCEPT !.accepted = <<>>])

-----------------------------------------------------------------------------
AccessTypeOK ==
  /\ DOMAIN memory.access.pending \subseteq outside.access.issued
  /\ DOMAIN memory.access.sessions \subseteq outside.access.issued
  /\ Now \in 0..MaxTime

\* A link opens one session at most (redeem_launch), however calls, expiry, purges
\* and restarts follow one another.
LinksOpenOnce ==
  \A i, j \in DOMAIN outside.access.redeemed :
    outside.access.redeemed[i].nonce = outside.access.redeemed[j].nonce => i = j

\* A request that passed had a right to: the scope is the caller's, and one that came
\* by a session came within its life, as the principal the link was issued to.
PassedByRight ==
  \A i \in DOMAIN outside.access.accepted :
    LET a == outside.access.accepted[i] IN
    /\ a.scope \in ScopesOf[a.client]
    /\ a.session # Nothing =>
         \E r \in ToSet(outside.access.redeemed) :
           /\ r.nonce = a.session /\ r.principal = a.client
           /\ r.at <= a.at /\ a.at < r.at + SessionTtl

\* No client has more than RateLimit requests in any window (BoundedRateLimiter).
RateIsBounded ==
  \A c \in Principal, t \in 0..MaxTime :
    Cardinality({i \in DOMAIN outside.access.accepted :
      LET a == outside.access.accepted[i] IN
      a.client = c /\ a.at <= t /\ t - Window < a.at}) <= RateLimit
=============================================================================
