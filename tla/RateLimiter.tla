----------------------------- MODULE RateLimiter -----------------------------
(***************************************************************************)
(* The sliding window that limits the requests of a caller                 *)
(* (services/platform-api/src/security.ts): it remembers, for a bounded    *)
(* number of keys, when requests were granted, and forgets the key whose   *)
(* last grant is oldest when a new one comes.                              *)
(*                                                                         *)
(* Time is counted in the seconds of the answers; it does not go back.     *)
(***************************************************************************)
EXTENDS Integers, Sequences, FiniteSets, FiniteSetsExt, SequencesExt

CONSTANTS
  Callers,       \* keys, in their order
  MaximumRequests, WindowLength, MaximumKeys,
  MaxSeconds, MaxGrants  \* bounds on time and on what is granted

VARIABLES
  remembered,  \* [key -> when its requests were granted], of those remembered
  now,
  granted,     \* every grant there was: <<key, time, how many before at that time>>
  seen,        \* every call there was: <<key, time>>
  promised     \* [key -> when it may come back], of one refused since its last grant

Never == 2 * (MaxSeconds + WindowLength)

limiter == <<remembered, now, granted, seen, promised>>

LimitsAssumption ==
  /\ Callers \subseteq Nat
  /\ {MaximumRequests, WindowLength, MaximumKeys} \subseteq Nat \ {0}

-----------------------------------------------------------------------------
LastGrant(k) == Last(remembered[k])

\* Mutant: the key that was granted something last is forgotten.
OldestIsYoungest ==
  CHOOSE k \in DOMAIN remembered : \A j \in DOMAIN remembered \ {k} :
    LastGrant(k) > LastGrant(j) \/ (LastGrant(k) = LastGrant(j) /\ k < j)

Oldest ==
  CHOOSE k \in DOMAIN remembered : \A j \in DOMAIN remembered \ {k} :
    LastGrant(k) < LastGrant(j) \/ (LastGrant(k) = LastGrant(j) /\ k < j)

\* A new key at the limit takes the place of the oldest.
Kept(key) ==
  IF key \notin DOMAIN remembered /\ Cardinality(DOMAIN remembered) >= MaximumKeys
    THEN DOMAIN remembered \ {Oldest} ELSE DOMAIN remembered

\* Mutant: the window is closed at its start.
CountedClosed(key) ==
  IF key \notin DOMAIN remembered THEN <<>>
  ELSE SelectSeq(remembered[key], LAMBDA t : t >= now - WindowLength)

\* What counts: the window is open at its start.
Counted(key) ==
  IF key \notin DOMAIN remembered THEN <<>>
  ELSE SelectSeq(remembered[key], LAMBDA t : t > now - WindowLength)

RetryAfter(requests) == Max({1, Head(requests) + WindowLength - now})

GrantedNow(key) == Cardinality({g \in granted : g[1] = key /\ g[2] = now})

\* A refusal leaves the time of the last grant as it is, so that who insists
\* grows older, not younger.
Allow(key) ==
  LET requests == Counted(key)
      allowed == Len(requests) < MaximumRequests
      next == IF allowed THEN Append(requests, now) ELSE requests IN
  /\ allowed => Cardinality(granted) < MaxGrants
  /\ remembered' = [k \in Kept(key) \cup {key} |-> IF k = key THEN next ELSE remembered[k]]
  /\ granted' = IF allowed THEN granted \cup {<<key, now, GrantedNow(key)>>} ELSE granted
  /\ promised' = [promised EXCEPT ![key] = IF allowed THEN Never ELSE now + RetryAfter(requests)]
  /\ seen' = seen \cup {<<key, now>>}
  /\ UNCHANGED now

Tick ==
  /\ now < MaxSeconds
  /\ now' = now + 1
  /\ UNCHANGED <<remembered, granted, seen, promised>>

-----------------------------------------------------------------------------
Init ==
  /\ remembered = <<>> /\ now = 1 /\ granted = {} /\ seen = {}
  /\ promised = [key \in Callers |-> Never]

Next == Tick \/ \E key \in Callers : Allow(key)

Spec == Init /\ [][Next]_limiter

-----------------------------------------------------------------------------
InWindow(t, last) == last - WindowLength < t /\ t <= last

\* While no window sees more callers than the limiter remembers, no window
\* grants a caller more than the maximum, although callers are forgotten and
\* come back.  With more callers, one that is forgotten starts afresh.
RateKept ==
  (\A last \in 1..now : Cardinality({s[1] : s \in {c \in seen : InWindow(c[2], last)}})
                          <= MaximumKeys)
    => \A k \in Callers, last \in 1..now :
         Cardinality({g \in granted : g[1] = k /\ InWindow(g[2], last)}) <= MaximumRequests

\* Who comes back when told to is let in.
RetryIsGranted ==
  \A k \in Callers : promised[k] <= now => Len(Counted(k)) < MaximumRequests
=============================================================================
