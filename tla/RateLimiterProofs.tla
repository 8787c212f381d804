-------------------------- MODULE RateLimiterProofs ---------------------------
(***************************************************************************)
(* Proofs about RateLimiter, for any number of requests, limit and window: *)
(* a refusal is earned, and only overlapping checks exceed the limit.      *)
(***************************************************************************)
EXTENDS RateLimiter, FiniteSetTheorems, TLAPS

\* The list of r is built; it has been in the store.
Past(r) == at[r] \in {"stored", "counting", "passed", "appending", "admitted", "refused"}
Built(r) == at[r] = "filtered" \/ Past(r)

(***************************************************************************)
(* A list holds admitted requests only, of the window of the check that    *)
(* built it.                                                               *)
(***************************************************************************)
ListsInv ==
    /\ lists[None] = {}
    /\ \A s \in Requests : ~Built(s) => lists[s] = {}
    /\ \A s \in Requests : \A q \in lists[s] : at[q] = "admitted" /\ now[q] + Window > now[s]

(***************************************************************************)
(* The list a check counts, or appends to, was built by a check that began *)
(* at most Delay before it.                                                *)
(***************************************************************************)
HeldInv ==
    /\ store # None => Past(store)
    /\ \A r \in Requests : held[r] # None => Past(held[r])
    /\ \A r \in Requests :
          at[r] \in {"stored", "counting", "passed", "appending"} =>
              store # None /\ now[store] >= now[r] - Delay
    /\ \A r \in Requests :
          at[r] \in {"counting", "passed", "appending", "refused"} =>
              held[r] # None /\ now[held[r]] >= now[r] - Delay

TimeInv ==
    /\ \A r \in Started : now[r] <= clock
    /\ \A r \in Checking : clock <= now[r] + Delay

FullInv == \A r \in Refused : Cardinality(lists[held[r]]) >= MaxRequests

EarnedInv == ListsInv /\ HeldInv /\ TimeInv /\ FullInv

-------------------------------------------------------------------------------
LEMMA Bounds ==
    /\ Window \in Nat /\ Delay \in Nat /\ Delay < Window
    /\ MaxRequests \in Nat /\ 0 < MaxRequests
    /\ MaxTime \in Nat /\ 0 \in 0..MaxTime
    /\ None \notin Requests
  BY RateLimiterAssumption

LEMMA SetSizes ==
    ASSUME NEW B \in SUBSET Requests, NEW A \in SUBSET B
    PROVE  /\ IsFiniteSet(A)
           /\ Cardinality(A) \in Nat /\ Cardinality(B) \in Nat
           /\ Cardinality(A) <= Cardinality(B)
  <1>1. IsFiniteSet(B) /\ IsFiniteSet(A)
    BY RateLimiterAssumption, FS_Subset
  <1> QED BY <1>1, FS_Subset, FS_CardinalityType

LEMMA Steps ==
    ASSUME [Next]_vars
    PROVE  \/ \E r \in Requests :
                 \/ ReadClock(r) \/ FetchToFilter(r) \/ Filter(r) \/ Store(r)
                 \/ FetchToCount(r) \/ Refuse(r) \/ Pass(r) \/ FetchToAppend(r) \/ Append(r)
           \/ Tick
           \/ UNCHANGED vars
  BY DEF Next, IsAllowed

LEMMA RecentIsWithin == ASSUME TypeOK, NEW r \in Requests PROVE Recent(r) \subseteq Requests
  BY DEF TypeOK, Recent

LEMMA InitTypes == Init => TypeOK
  BY Bounds DEF Init, TypeOK, Step

LEMMA NextTypes == TypeOK /\ [Next]_vars => TypeOK'
  <1> SUFFICES ASSUME TypeOK, [Next]_vars PROVE TypeOK'
    OBVIOUS
  <1>1. ASSUME NEW r \in Requests, ReadClock(r) PROVE TypeOK'
    BY <1>1 DEF TypeOK, ReadClock, Goes, Step, Checking, Started, Admitted, Refused
  <1>2. ASSUME NEW r \in Requests, FetchToFilter(r) \/ FetchToCount(r) \/ FetchToAppend(r)
        PROVE  TypeOK'
    BY <1>2 DEF TypeOK, FetchToFilter, FetchToCount, FetchToAppend, Fetch, Goes, Step
  <1>3. ASSUME NEW r \in Requests, Filter(r) PROVE TypeOK'
    BY <1>3, RecentIsWithin DEF TypeOK, Filter, Goes, Step
  <1>4. ASSUME NEW r \in Requests, Store(r) \/ Refuse(r) \/ Pass(r) PROVE TypeOK'
    BY <1>4 DEF TypeOK, Store, Refuse, Pass, Goes, Step
  <1>5. ASSUME NEW r \in Requests, Append(r) PROVE TypeOK'
    <2>1. lists' \in [Requests \cup {None} -> SUBSET Requests]
      BY <1>5 DEF TypeOK, Append
    <2> QED BY <1>5, <2>1 DEF TypeOK, Append, Goes, Step
  <1>6. CASE Tick
    BY <1>6, Bounds DEF TypeOK, Tick
  <1>7. CASE UNCHANGED vars
    BY <1>7 DEF TypeOK, vars
  <1> QED BY <1>1, <1>2, <1>3, <1>4, <1>5, <1>6, <1>7, Steps

(***************************************************************************)
(* is_allowed returns true or false after its steps, and a list of _store  *)
(* has a list behind it, whatever the threads do.                          *)
(***************************************************************************)
THEOREM TypeCorrect == Spec => []TypeOK
  BY InitTypes, NextTypes, PTL DEF Spec

-------------------------------------------------------------------------------
LEMMA InitEarned == Init => EarnedInv
  BY Bounds DEF Init, EarnedInv, ListsInv, HeldInv, TimeInv, FullInv, Past, Built,
                Started, Checking, Admitted, Refused

LEMMA NextLists == ASSUME TypeOK, EarnedInv, [Next]_vars PROVE ListsInv'
  <1> USE DEF EarnedInv
  <1>1. ASSUME NEW r \in Requests, ReadClock(r) PROVE ListsInv'
    BY <1>1, Bounds DEF TypeOK, ListsInv, ReadClock, Goes, Past, Built
  <1>2. ASSUME NEW r \in Requests, FetchToFilter(r) \/ FetchToCount(r) \/ FetchToAppend(r)
        PROVE  ListsInv'
    BY <1>2 DEF TypeOK, ListsInv, FetchToFilter, FetchToCount, FetchToAppend, Fetch, Goes, Past, Built
  <1>3. ASSUME NEW r \in Requests, Filter(r) PROVE ListsInv'
    <2>1. lists[held[r]] \subseteq {q \in Requests : at[q] = "admitted"}
      BY Bounds DEF TypeOK, ListsInv
    <2>2. \A q \in Recent(r) : at[q] = "admitted" /\ at'[q] = "admitted" /\ now[q] + Window > now[r]
      BY <1>3, <2>1, Bounds DEF TypeOK, Recent, Filter, Goes
    <2>3. lists' = [lists EXCEPT ![r] = Recent(r)] /\ now' = now
      BY <1>3 DEF Filter
    <2>4. \A s \in Requests \ {r} : (Built(s) <=> Built(s)') /\ lists'[s] = lists[s]
      BY <1>3, <2>3 DEF TypeOK, Filter, Goes, Past, Built
    <2>5. \A q \in Requests : at[q] = "admitted" => at'[q] = "admitted"
      BY <1>3 DEF TypeOK, Filter, Goes
    <2>6. Built(r)' /\ lists'[r] = Recent(r) /\ lists'[None] = {}
      BY <1>3, <2>3, Bounds DEF TypeOK, Filter, Goes, Past, Built, ListsInv
    <2>7. \A s \in Requests : \A q \in lists[s] : q \in Requests
      BY DEF TypeOK
    <2> QED BY <2>2, <2>3, <2>4, <2>5, <2>6, <2>7 DEF ListsInv
  <1>4. ASSUME NEW r \in Requests, Store(r) \/ Refuse(r) \/ Pass(r) PROVE ListsInv'
    BY <1>4 DEF TypeOK, ListsInv, Store, Refuse, Pass, Goes, Past, Built
  <1>5. ASSUME NEW r \in Requests, Append(r) PROVE ListsInv'
    <2>1. held[r] \in Requests /\ Past(held[r])
      BY <1>5 DEF TypeOK, HeldInv, Append, Goes
    <2>2. now[held[r]] <= clock /\ clock <= now[r] + Delay
      BY <1>5, <2>1 DEF TimeInv, Append, Goes, Past, Started, Checking, Admitted, Refused
    <2>3. now[r] + Window > now[held[r]]
      BY <2>1, <2>2, Bounds DEF TypeOK
    <2>4. lists' = [lists EXCEPT ![held[r]] = @ \cup {r}] /\ now' = now
      BY <1>5 DEF Append
    <2>5. \A s \in Requests : Built(s)' <=> Built(s)
      BY <1>5 DEF TypeOK, Append, Goes, Past, Built
    <2>6. \A q \in Requests : at[q] = "admitted" => at'[q] = "admitted"
      BY <1>5 DEF TypeOK, Append, Goes
    <2>7. at'[r] = "admitted"
      BY <1>5 DEF TypeOK, Append, Goes
    <2>8. \A s \in Requests : \A q \in lists[s] : q \in Requests
      BY DEF TypeOK
    <2>9. lists'[None] = {}
      BY <2>1, <2>4, Bounds DEF TypeOK, ListsInv
    <2>10. \A s \in Requests : s # held[r] => lists'[s] = lists[s]
      BY <2>1, <2>4 DEF TypeOK
    <2>11. lists'[held[r]] = lists[held[r]] \cup {r}
      BY <2>1, <2>4 DEF TypeOK
    <2>12. Built(held[r])
      BY <2>1 DEF Built
    <2> QED BY <2>1, <2>3, <2>4, <2>5, <2>6, <2>7, <2>8, <2>9, <2>10, <2>11, <2>12 DEF ListsInv
  <1>6. CASE Tick
    BY <1>6 DEF Tick, ListsInv, Past, Built
  <1>7. CASE UNCHANGED vars
    BY <1>7 DEF vars, ListsInv, Past, Built
  <1> QED BY <1>1, <1>2, <1>3, <1>4, <1>5, <1>6, <1>7, Steps

LEMMA NextTime == ASSUME TypeOK, EarnedInv, [Next]_vars PROVE TimeInv'
  <1> USE DEF EarnedInv, TimeInv, Started, Checking, Admitted, Refused
  <1>1. ASSUME NEW r \in Requests, ReadClock(r) PROVE TimeInv'
    BY <1>1, Bounds DEF TypeOK, ReadClock, Goes
  <1>2. ASSUME NEW r \in Requests, FetchToFilter(r) \/ FetchToCount(r) \/ FetchToAppend(r)
        PROVE  TimeInv'
    BY <1>2 DEF TypeOK, FetchToFilter, FetchToCount, FetchToAppend, Fetch, Goes
  <1>3. ASSUME NEW r \in Requests, Filter(r) \/ Store(r) \/ Refuse(r) \/ Pass(r) \/ Append(r)
        PROVE  TimeInv'
    BY <1>3 DEF TypeOK, Filter, Store, Refuse, Pass, Append, Goes
  <1>4. CASE Tick
    BY <1>4, Bounds DEF TypeOK, Tick
  <1>5. CASE UNCHANGED vars
    BY <1>5 DEF vars
  <1> QED BY <1>1, <1>2, <1>3, <1>4, <1>5, Steps

LEMMA NextHeld == ASSUME TypeOK, EarnedInv, [Next]_vars PROVE HeldInv'
  <1> USE DEF EarnedInv
  <1>1. ASSUME NEW r \in Requests, ReadClock(r) PROVE HeldInv'
    BY <1>1, Bounds DEF TypeOK, HeldInv, ReadClock, Goes, Past
  <1>2. ASSUME NEW r \in Requests, FetchToFilter(r) \/ FetchToCount(r) \/ FetchToAppend(r)
        PROVE  HeldInv'
    BY <1>2, Bounds DEF TypeOK, HeldInv, FetchToFilter, FetchToCount, FetchToAppend, Fetch, Goes, Past
  <1>3. ASSUME NEW r \in Requests, Filter(r) \/ Refuse(r) \/ Pass(r) \/ Append(r)
        PROVE  HeldInv'
    BY <1>3, Bounds DEF TypeOK, HeldInv, Filter, Refuse, Pass, Append, Goes, Past
  <1>4. ASSUME NEW r \in Requests, Store(r) PROVE HeldInv'
    <2>1. \A q \in Requests : at[q] \in {"stored", "counting", "passed", "appending"} \/ q = r
                             => now[r] >= now[q] - Delay
      <3> SUFFICES ASSUME NEW q \in Requests,
                          at[q] \in {"stored", "counting", "passed", "appending"} \/ q = r
                   PROVE  now[r] >= now[q] - Delay
        OBVIOUS
      <3>1. clock <= now[r] + Delay /\ now[q] <= clock
        BY <1>4 DEF TimeInv, Store, Goes, Started, Checking, Admitted, Refused
      <3> QED BY <3>1, Bounds DEF TypeOK
    <2> QED BY <1>4, <2>1, Bounds DEF TypeOK, HeldInv, Store, Goes, Past
  <1>5. CASE Tick
    BY <1>5 DEF Tick, HeldInv, Past
  <1>6. CASE UNCHANGED vars
    BY <1>6 DEF vars, HeldInv, Past
  <1> QED BY <1>1, <1>2, <1>3, <1>4, <1>5, <1>6, Steps

LEMMA NextFull == ASSUME TypeOK, EarnedInv, [Next]_vars PROVE FullInv'
  <1> USE DEF EarnedInv
  <1>1. ASSUME NEW r \in Requests,
               \/ ReadClock(r) \/ Store(r) \/ Pass(r)
               \/ FetchToFilter(r) \/ FetchToCount(r) \/ FetchToAppend(r)
        PROVE  FullInv'
    BY <1>1 DEF TypeOK, FullInv, Refused, ReadClock, Store, Pass, FetchToFilter, FetchToCount,
                FetchToAppend, Fetch, Goes
  <1>2. ASSUME NEW r \in Requests, Refuse(r) PROVE FullInv'
    BY <1>2 DEF TypeOK, FullInv, Refused, Refuse, Full, Goes
  <1>3. ASSUME NEW r \in Requests, Filter(r) PROVE FullInv'
    <2>1. \A q \in Refused' : q \in Refused /\ held'[q] = held[q] /\ held[q] # r
      BY <1>3 DEF TypeOK, Refused, HeldInv, Filter, Goes, Past
    <2>2. \A l \in Requests \cup {None} : l # r => lists'[l] = lists[l]
      BY <1>3 DEF TypeOK, Filter
    <2> QED BY <2>1, <2>2 DEF FullInv, TypeOK, Refused
  <1>4. ASSUME NEW r \in Requests, Append(r) PROVE FullInv'
    <2>1. \A q \in Refused' : q \in Refused /\ held'[q] = held[q]
      BY <1>4 DEF TypeOK, Refused, Append, Goes
    <2>2. \A l \in Requests \cup {None} : lists[l] \subseteq lists'[l] /\ lists'[l] \in SUBSET Requests
      BY <1>4 DEF TypeOK, Append
    <2>3. \A l \in Requests \cup {None} : Cardinality(lists[l]) <= Cardinality(lists'[l])
      BY <2>2, SetSizes
    <2>4. \A l \in Requests \cup {None} :
             Cardinality(lists[l]) \in Nat /\ Cardinality(lists'[l]) \in Nat
      BY <2>2, SetSizes
    <2>5. ASSUME NEW q \in Refused' PROVE Cardinality(lists'[held'[q]]) >= MaxRequests
      <3>1. held[q] \in Requests \cup {None} /\ Cardinality(lists[held[q]]) >= MaxRequests
        BY <2>1, <2>5 DEF FullInv, TypeOK, Refused
      <3> QED BY <2>1, <2>3, <2>4, <2>5, <3>1, Bounds
    <2> QED BY <2>5 DEF FullInv
  <1>5. CASE Tick
    BY <1>5 DEF Tick, FullInv, Refused
  <1>6. CASE UNCHANGED vars
    BY <1>6 DEF vars, FullInv, Refused
  <1> QED BY <1>1, <1>2, <1>3, <1>4, <1>5, <1>6, Steps

LEMMA EarnedImplies == TypeOK /\ EarnedInv => RefusalIsEarned
  <1> SUFFICES ASSUME TypeOK, EarnedInv, NEW r \in Refused
               PROVE  Cardinality({q \in Admitted : now[q] > now[r] - Window - Delay}) >= MaxRequests
    BY DEF RefusalIsEarned
  <1> DEFINE earned == {q \in Admitted : now[q] > now[r] - Window - Delay}
  <1>1. r \in Requests /\ held[r] \in Requests /\ now[held[r]] >= now[r] - Delay
    BY DEF EarnedInv, HeldInv, Refused, TypeOK
  <1>2. \A q \in lists[held[r]] : q \in Requests /\ at[q] = "admitted" /\ now[q] + Window > now[held[r]]
    BY <1>1 DEF EarnedInv, ListsInv, TypeOK
  <1>3. lists[held[r]] \subseteq earned
    BY <1>1, <1>2, Bounds DEF TypeOK, Admitted
  <1>4. earned \in SUBSET Requests
    BY DEF Admitted
  <1>5. Cardinality(lists[held[r]]) <= Cardinality(earned)
        /\ Cardinality(lists[held[r]]) \in Nat /\ Cardinality(earned) \in Nat
    BY <1>3, <1>4, SetSizes
  <1>6. Cardinality(lists[held[r]]) >= MaxRequests
    BY DEF EarnedInv, FullInv
  <1> QED BY <1>5, <1>6, Bounds

(***************************************************************************)
(* No thread is refused on account of a list that a race has spoilt: there *)
(* are always as many admitted requests as the limit allows behind it.     *)
(***************************************************************************)
THEOREM RefusalsAreEarned == Spec => []RefusalIsEarned
  <1>1. Init => TypeOK /\ EarnedInv
    BY InitTypes, InitEarned
  <1>2. TypeOK /\ EarnedInv /\ [Next]_vars => (TypeOK /\ EarnedInv)'
    BY NextTypes, NextLists, NextHeld, NextTime, NextFull DEF EarnedInv
  <1> QED BY <1>1, <1>2, EarnedImplies, PTL DEF Spec

-------------------------------------------------------------------------------
(* The limit.  Alone are the admitted requests no other check overlapped;  *)
(* one is gone when a check has begun after its window.                    *)

Alone == Admitted \ raced
Gone(q) == \E s \in Started : now[q] + Window <= now[s]

(***************************************************************************)
(* Until it is gone, such a request is in every list that is, or may yet   *)
(* become, the list of the store.                                          *)
(***************************************************************************)
Listed(q) ==
    /\ q \in lists[store]
    /\ \A r \in Checking : at[r] # "clocked" => q \in lists[held[r]]
    /\ \A r \in Checking : Built(r) => q \in lists[r]

KeptInv == \A q \in Alone : Gone(q) \/ Listed(q)

SoloInv ==
    \A r \in Checking \ raced :
        /\ Checking = {r}
        /\ \A s \in Started : now[s] <= now[r]
        /\ at[r] = "appending" => held[r] = store

Since(r) == {q \in Alone : now[q] + Window > now[r]}

CountInv ==
    \A r \in Checking \ raced :
        at[r] \in {"passed", "appending"} => Cardinality(Since(r)) < MaxRequests

LimitInv == KeptInv /\ SoloInv /\ CountInv /\ OverrunsAreRaces

LEMMA InitLimit == Init => LimitInv
  BY DEF Init, LimitInv, KeptInv, SoloInv, CountInv, OverrunsAreRaces, Alone, Admitted,
         Started, Checking, Refused

\* A step that admits nobody and reads no clock lets nobody be more alone.
LEMMA AloneStays ==
    ASSUME TypeOK, now' = now, raced' = raced, Admitted' = Admitted
    PROVE  Alone' = Alone /\ (\A r \in Requests : Since(r)' = Since(r)) /\ (OverrunsAreRaces => OverrunsAreRaces')
  BY DEF Alone, Since, OverrunsAreRaces

\* KeptInv is kept where nobody new is alone and nobody's time changes.
LEMMA KeptStays ==
    ASSUME LimitInv, now' = now, Alone' \subseteq Alone, Started' = Started,
           \A q \in Alone : Listed(q) => Gone(q) \/ Listed(q)'
    PROVE  KeptInv'
  BY DEF LimitInv, KeptInv, Gone

LEMMA NextSolo == ASSUME TypeOK, EarnedInv, LimitInv, [Next]_vars PROVE SoloInv'
  <1> USE DEF LimitInv, Started, Checking, Admitted, Refused
  <1>1. ASSUME NEW r \in Requests, ReadClock(r) PROVE SoloInv'
    <2>1. CASE Checking = {}
      BY <1>1, <2>1 DEF TypeOK, SoloInv, ReadClock, Goes, EarnedInv, TimeInv
    <2>2. CASE Checking # {}
      BY <1>1, <2>2 DEF TypeOK, SoloInv, ReadClock, Goes
    <2> QED BY <2>1, <2>2
  <1>2. ASSUME NEW r \in Requests, FetchToFilter(r) \/ FetchToCount(r) \/ FetchToAppend(r)
        PROVE  SoloInv'
    BY <1>2 DEF TypeOK, SoloInv, FetchToFilter, FetchToCount, FetchToAppend, Fetch, Goes
  <1>3. ASSUME NEW r \in Requests, Filter(r) \/ Store(r) \/ Refuse(r) \/ Pass(r) \/ Append(r)
        PROVE  SoloInv'
    BY <1>3 DEF TypeOK, SoloInv, Filter, Store, Refuse, Pass, Append, Goes
  <1>4. CASE Tick
    BY <1>4 DEF Tick, SoloInv
  <1>5. CASE UNCHANGED vars
    BY <1>5 DEF vars, SoloInv
  <1> QED BY <1>1, <1>2, <1>3, <1>4, <1>5, Steps

LEMMA NextKept == ASSUME TypeOK, EarnedInv, LimitInv, [Next]_vars PROVE KeptInv'
  <1> USE DEF Started, Checking, Admitted, Refused
  <1>1. ASSUME NEW r \in Requests, ReadClock(r) PROVE KeptInv'
    <2>1. Alone' \subseteq Alone
      BY <1>1 DEF TypeOK, Alone, ReadClock, Goes
    <2>2. \A q \in Alone : Gone(q) => Gone(q)'
      BY <1>1 DEF TypeOK, Alone, Gone, ReadClock, Goes
    <2>3. Checking' = Checking \cup {r} /\ at'[r] = "clocked" /\ ~Built(r)'
      BY <1>1 DEF TypeOK, ReadClock, Goes, Built, Past
    <2>4. \A x \in Checking : at'[x] = at[x] /\ (Built(x)' <=> Built(x))
      BY <1>1 DEF TypeOK, ReadClock, Goes, Built, Past
    <2>5. lists' = lists /\ held' = held /\ store' = store
      BY <1>1 DEF ReadClock
    <2>6. \A q \in Alone : Listed(q) => Listed(q)'
      BY <2>3, <2>4, <2>5 DEF Listed
    <2> QED BY <2>1, <2>2, <2>6 DEF LimitInv, KeptInv
  <1>2. ASSUME NEW r \in Requests, FetchToFilter(r) \/ FetchToCount(r) \/ FetchToAppend(r)
        PROVE  KeptInv'
    <2>1. now' = now /\ Alone' = Alone /\ Started' = Started /\ Checking' = Checking
      BY <1>2 DEF TypeOK, Alone, FetchToFilter, FetchToCount, FetchToAppend, Fetch, Goes
    <2>2. store' = store /\ lists' = lists /\ held' = [held EXCEPT ![r] = store]
      BY <1>2 DEF FetchToFilter, FetchToCount, FetchToAppend, Fetch
    <2>3. \A x \in Requests : (Built(x)' <=> Built(x)) /\ (x # r => at'[x] = at[x])
      BY <1>2 DEF TypeOK, FetchToFilter, FetchToCount, FetchToAppend, Goes, Built, Past
    <2>4. \A x \in Requests : held'[x] = IF x = r THEN store ELSE held[x]
      BY <2>2 DEF TypeOK
    <2>5. \A q \in Alone : Listed(q) => Listed(q)'
      BY <2>1, <2>2, <2>3, <2>4 DEF Listed
    <2> QED BY <2>1, <2>5, KeptStays
  <1>3. ASSUME NEW r \in Requests, Filter(r) PROVE KeptInv'
    <2>1. now' = now /\ Alone' = Alone /\ Started' = Started /\ Checking' = Checking
          /\ held' = held /\ store' = store
      BY <1>3 DEF TypeOK, Alone, Filter, Goes
    <2>2. \A l \in Requests \cup {None} : l # r => lists'[l] = lists[l]
      BY <1>3 DEF TypeOK, Filter
    <2>3. store # r /\ \A x \in Requests : held[x] # r
      BY <1>3, Bounds DEF TypeOK, EarnedInv, HeldInv, Filter, Goes, Past
    <2>4. \A x \in Requests : x # r => at'[x] = at[x] /\ (Built(x)' <=> Built(x))
      BY <1>3 DEF TypeOK, Filter, Goes, Built, Past
    <2>5. r \in Checking /\ at[r] # "clocked" /\ lists'[r] = Recent(r)
      BY <1>3 DEF TypeOK, Filter, Goes
    <2>6. ASSUME NEW q \in Alone, Listed(q), ~Gone(q) PROVE Listed(q)'
      <3>1. q \in lists[held[r]]
        BY <2>5, <2>6 DEF Listed
      <3>2. ~(now[q] + Window <= now[r])
        BY <2>5, <2>6 DEF Gone
      <3>3. q \in lists'[r]
        BY <2>5, <3>1, <3>2, Bounds DEF TypeOK, Recent, Alone
      <3>4. \A l \in Requests \cup {None} : q \in lists[l] => q \in lists'[l]
        BY <2>2, <3>3
      <3>5. store \in Requests \cup {None} /\ \A x \in Requests : held[x] \in Requests \cup {None}
        BY DEF TypeOK
      <3> QED BY <2>1, <2>4, <2>5, <2>6, <3>1, <3>3, <3>4, <3>5 DEF Listed
    <2> QED BY <2>1, <2>6, KeptStays
  <1>4. ASSUME NEW r \in Requests, Store(r) \/ Refuse(r) \/ Pass(r) PROVE KeptInv'
    <2>1. now' = now /\ Alone' = Alone /\ Started' = Started /\ lists' = lists /\ held' = held
      BY <1>4 DEF TypeOK, Alone, Store, Refuse, Pass, Goes
    <2>2. \A x \in Checking' : x \in Checking /\ (x # r => at'[x] = at[x] /\ (Built(x)' <=> Built(x)))
      BY <1>4 DEF TypeOK, Store, Refuse, Pass, Goes, Built, Past
    <2>3. r \in Checking /\ at[r] # "clocked" /\ Built(r)
      BY <1>4 DEF TypeOK, Store, Refuse, Pass, Goes, Built, Past
    <2>4. store' = store \/ store' = r
      BY <1>4 DEF Store, Refuse, Pass
    <2>5. \A q \in Alone : Listed(q) => Listed(q)'
      BY <2>1, <2>2, <2>3, <2>4 DEF Listed
    <2> QED BY <2>1, <2>5, KeptStays
  <1>5. ASSUME NEW r \in Requests, Append(r) PROVE KeptInv'
    <2>1. lists'[held[r]] = lists[held[r]] \cup {r}
          /\ \A l \in Requests \cup {None} : lists[l] \subseteq lists'[l]
      BY <1>5 DEF TypeOK, Append
    <2>2. held' = held /\ store' = store /\ now' = now /\ raced' = raced
      BY <1>5 DEF Append
    <2>3. \A q \in Requests : Gone(q)' <=> Gone(q)
      BY <1>5 DEF TypeOK, Gone, Append, Goes
    <2>4. \A x \in Checking' : x \in Checking /\ at'[x] = at[x] /\ (Built(x)' <=> Built(x))
      BY <1>5 DEF TypeOK, Append, Goes, Built, Past
    <2>5. Alone' \subseteq Alone \cup {r}
      BY <1>5 DEF TypeOK, Append, Goes, Alone
    <2>6. ASSUME r \notin raced PROVE held[r] = store /\ Checking' = {}
      BY <1>5, <2>6 DEF TypeOK, LimitInv, SoloInv, Append, Goes
    <2>7. r \in Alone' => r \notin raced
      BY <2>2 DEF Alone
    <2>8. r \in Alone' => Listed(r)'
      BY <2>1, <2>2, <2>6, <2>7 DEF Listed
    <2>9. store \in Requests \cup {None} /\ \A x \in Requests : held[x] \in Requests \cup {None}
      BY DEF TypeOK
    <2>10. \A q \in Alone : Listed(q) => Listed(q)'
      BY <2>1, <2>2, <2>4, <2>9 DEF Listed
    <2>11. \A q \in Alone : q \in Requests /\ (Gone(q) \/ Listed(q))
      BY DEF Alone, LimitInv, KeptInv
    <2> QED BY <2>3, <2>5, <2>8, <2>10, <2>11 DEF KeptInv
  <1>6. CASE Tick
    BY <1>6 DEF Tick, LimitInv, KeptInv, Listed, Alone, Gone, Built, Past
  <1>7. CASE UNCHANGED vars
    BY <1>7 DEF vars, LimitInv, KeptInv, Listed, Alone, Gone, Built, Past
  <1> QED BY <1>1, <1>2, <1>3, <1>4, <1>5, <1>6, <1>7, Steps

LEMMA NextCount == ASSUME TypeOK, EarnedInv, LimitInv, [Next]_vars PROVE CountInv'
  <1> USE DEF LimitInv
  <1>1. ASSUME NEW r \in Requests, ReadClock(r) PROVE CountInv'
    <2>1. \A x \in (Checking \ raced)' : x = r
      BY <1>1 DEF TypeOK, SoloInv, ReadClock, Goes, Started, Checking, Admitted, Refused
    <2> QED BY <1>1, <2>1 DEF CountInv, TypeOK, ReadClock, Goes
  <1>2. ASSUME NEW r \in Requests,
               \/ FetchToFilter(r) \/ FetchToCount(r) \/ FetchToAppend(r)
               \/ Filter(r) \/ Store(r) \/ Refuse(r)
        PROVE  CountInv'
    <2>1. now' = now /\ raced' = raced /\ Admitted' = Admitted
      BY <1>2 DEF TypeOK, Admitted, FetchToFilter, FetchToCount, FetchToAppend, Fetch, Filter,
                  Store, Refuse, Goes
    <2>2. \A x \in Checking' : x \in Checking /\ (at'[x] \in {"passed", "appending"}
                                                    => at[x] \in {"passed", "appending"})
      BY <1>2 DEF TypeOK, FetchToFilter, FetchToCount, FetchToAppend, Fetch, Filter, Store, Refuse,
                  Goes, Started, Checking, Admitted, Refused
    <2>3. \A x \in Requests : Since(x)' = Since(x)
      BY <2>1, AloneStays
    <2>4. \A x \in Checking : x \in Requests
      BY DEF Checking, Started
    <2> QED BY <2>1, <2>2, <2>3, <2>4 DEF CountInv
  <1>3. ASSUME NEW r \in Requests, Pass(r) PROVE CountInv'
    <2>1. now' = now /\ raced' = raced /\ Admitted' = Admitted /\ Checking' = Checking
      BY <1>3 DEF TypeOK, Admitted, Pass, Goes, Started, Checking, Refused
    <2>2. \A x \in Requests : Since(x)' = Since(x)
      BY <2>1, AloneStays
    <2>3. ASSUME r \notin raced PROVE Cardinality(Since(r)) < MaxRequests
      <3>1. r \in Checking /\ at[r] # "clocked"
        BY <1>3 DEF Pass, Goes, Started, Checking, Admitted, Refused
      <3>2. \A q \in Since(r) : ~Gone(q)
        BY <2>3, <3>1, Bounds DEF SoloInv, Since, Gone, TypeOK, Alone, Admitted, Started
      <3>3. Since(r) \subseteq lists[held[r]]
        BY <3>1, <3>2 DEF KeptInv, Listed, Since
      <3>4. lists[held[r]] \in SUBSET Requests
        BY DEF TypeOK
      <3>5. ~(Cardinality(lists[held[r]]) >= MaxRequests)
        BY <1>3 DEF Pass, Full
      <3> QED BY <3>3, <3>4, <3>5, SetSizes, Bounds
    <2>4. \A x \in Checking : x \in Requests /\ (x # r => at'[x] = at[x])
      BY <1>3 DEF TypeOK, Pass, Goes, Started, Checking
    <2> QED BY <2>1, <2>2, <2>3, <2>4 DEF CountInv
  <1>4. ASSUME NEW r \in Requests, Append(r) PROVE CountInv'
    <2>1. (Checking \ raced)' = {}
      BY <1>4 DEF TypeOK, SoloInv, Append, Goes, Started, Checking, Admitted, Refused
    <2> QED BY <2>1 DEF CountInv
  <1>5. CASE Tick
    BY <1>5 DEF Tick, CountInv, Since, Alone, Admitted, Checking, Started, Refused
  <1>6. CASE UNCHANGED vars
    BY <1>6 DEF vars, CountInv, Since, Alone, Admitted, Checking, Started, Refused
  <1> QED BY <1>1, <1>2, <1>3, <1>4, <1>5, <1>6, Steps

LEMMA NextOverruns == ASSUME TypeOK, EarnedInv, LimitInv, [Next]_vars PROVE OverrunsAreRaces'
  <1> USE DEF LimitInv
  <1> DEFINE span(r) == {q \in Alone : now[r] - Window < now[q] /\ now[q] <= now[r]}
  <1>0. \A r \in Requests : span(r) \in SUBSET Requests /\ span(r)' \in SUBSET Requests
    BY DEF Alone, Admitted
  <1>1. ASSUME NEW r \in Requests, ReadClock(r) PROVE OverrunsAreRaces'
    <2>1. Alone' \subseteq Alone /\ \A q \in Alone : now'[q] = now[q]
      BY <1>1 DEF TypeOK, Alone, Admitted, ReadClock, Goes
    <2>2. \A q \in Alone : q \in Requests
      BY DEF Alone, Admitted
    <2>3. ASSUME NEW q \in Alone' PROVE Cardinality(span(q)') <= MaxRequests
      <3>1. span(q)' \subseteq span(q)
        BY <2>1, <2>3
      <3>2. Cardinality(span(q)) <= MaxRequests
        BY <2>1, <2>3 DEF OverrunsAreRaces, Alone
      <3>3. /\ Cardinality(span(q)') <= Cardinality(span(q))
            /\ Cardinality(span(q)') \in Nat /\ Cardinality(span(q)) \in Nat
        BY <1>0, <2>1, <2>2, <2>3, <3>1, SetSizes
      <3> QED BY <3>2, <3>3, Bounds
    <2> QED BY <2>3 DEF OverrunsAreRaces, Alone
  <1>2. ASSUME NEW r \in Requests,
               \/ FetchToFilter(r) \/ FetchToCount(r) \/ FetchToAppend(r)
               \/ Filter(r) \/ Store(r) \/ Refuse(r) \/ Pass(r)
        PROVE  OverrunsAreRaces'
    <2>1. now' = now /\ raced' = raced /\ Admitted' = Admitted
      BY <1>2 DEF TypeOK, Admitted, FetchToFilter, FetchToCount, FetchToAppend, Fetch, Filter,
                  Store, Refuse, Pass, Goes
    <2> QED BY <2>1, AloneStays
  <1>3. ASSUME NEW r \in Requests, Append(r) PROVE OverrunsAreRaces'
    <2>1. now' = now /\ raced' = raced /\ Admitted' = Admitted \cup {r}
      BY <1>3 DEF TypeOK, Admitted, Append, Goes
    <2>2. CASE r \in raced
      BY <2>1, <2>2 DEF OverrunsAreRaces
    <2>3. CASE r \notin raced
      <3>1. r \in Checking \ raced /\ at[r] = "appending"
        BY <1>3, <2>3 DEF Append, Goes, Started, Checking, Admitted, Refused
      <3>2. Cardinality(Since(r)) < MaxRequests
        BY <3>1 DEF CountInv
      <3>3. Since(r) \in SUBSET Requests /\ IsFiniteSet(Since(r)) /\ r \notin Since(r)
        BY <3>1, SetSizes DEF Since, Alone, Admitted
      <3>4. Cardinality(Since(r) \cup {r}) = Cardinality(Since(r)) + 1 /\ Cardinality(Since(r)) \in Nat
        BY <3>3, FS_AddElement, FS_CardinalityType
      <3>5. Cardinality(Since(r) \cup {r}) <= MaxRequests
        BY <3>2, <3>4, Bounds
      <3>6. ASSUME NEW q \in Alone' PROVE Cardinality(span(q)') <= MaxRequests
        <4>1. q \in Requests /\ (q \in Alone \/ q = r) /\ Alone' = Alone \cup {r}
          BY <2>1, <2>3, <3>6 DEF Alone, Admitted
        <4>2. now[q] <= now[r] /\ now[q] \in Int /\ now[r] \in Int
          BY <3>1, <4>1 DEF SoloInv, TypeOK, Alone, Admitted, Started
        <4>3. CASE now[q] = now[r]
          <5>1. span(q)' \subseteq Since(r) \cup {r}
            BY <2>1, <4>1, <4>2, <4>3, Bounds DEF Since, TypeOK, Alone, Admitted
          <5>2. /\ Cardinality(span(q)') <= Cardinality(Since(r) \cup {r})
                /\ Cardinality(span(q)') \in Nat /\ Cardinality(Since(r) \cup {r}) \in Nat
            BY <3>3, <5>1, SetSizes
          <5> QED BY <3>5, <5>2, Bounds
        <4>4. CASE now[q] < now[r]
          <5>1. q # r /\ q \in Alone
            BY <4>1, <4>2, <4>4
          <5>2. span(q)' = span(q)
            BY <2>1, <4>1, <4>2, <4>4 DEF TypeOK
          <5>3. Cardinality(span(q)) <= MaxRequests
            BY <5>1 DEF OverrunsAreRaces, Alone
          <5> QED BY <5>2, <5>3
        <4> QED BY <4>2, <4>3, <4>4
      <3> QED BY <3>6 DEF OverrunsAreRaces, Alone
    <2> QED BY <2>2, <2>3
  <1>4. CASE Tick
    BY <1>4 DEF Tick, OverrunsAreRaces, Admitted
  <1>5. CASE UNCHANGED vars
    BY <1>5 DEF vars, OverrunsAreRaces, Admitted
  <1> QED BY <1>1, <1>2, <1>3, <1>4, <1>5, Steps

(***************************************************************************)
(* However the threads of other requests race, those that did not overlap  *)
(* with any are held to the limit, in every window.                        *)
(***************************************************************************)
THEOREM OnlyRacesOverrun == Spec => []OverrunsAreRaces
  <1>1. Init => TypeOK /\ EarnedInv /\ LimitInv
    BY InitTypes, InitEarned, InitLimit
  <1>2. TypeOK /\ EarnedInv /\ LimitInv /\ [Next]_vars => (TypeOK /\ EarnedInv /\ LimitInv)'
    BY NextTypes, NextLists, NextHeld, NextTime, NextFull, NextKept, NextSolo, NextCount, NextOverruns
    DEF EarnedInv, LimitInv
  <1>3. LimitInv => OverrunsAreRaces
    BY DEF LimitInv
  <1> QED BY <1>1, <1>2, <1>3, PTL DEF Spec

===============================================================================
