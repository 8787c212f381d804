------------------------------ MODULE RateLimiter ------------------------------
(***************************************************************************)
(* RateLimiter of api/security.py, for one client address.  The dependency *)
(* of the API routes is a plain function, so FastAPI calls it in worker    *)
(* threads, and is_allowed takes no lock: threads change between any two   *)
(* of its steps.                                                           *)
(*                                                                         *)
(* A list of _store is named by the request that built it, and an entry is *)
(* the request whose time it is.  Lists are replaced, or appended to, but  *)
(* never shrink, so that a comprehension sees what its list holds when it  *)
(* ends.                                                                   *)
(***************************************************************************)
EXTENDS Integers, FiniteSets

CONSTANTS
    Requests,     \* the requests of the client
    MaxRequests,  \* max_requests
    Window,       \* window_seconds
    Delay,        \* the time is_allowed takes at most, waits for the interpreter included
    MaxTime,      \* bound: the clock
    None          \* the empty list of the defaultdict

ASSUME RateLimiterAssumption ==
    /\ IsFiniteSet(Requests)
    /\ None \notin Requests
    /\ MaxRequests \in Nat \ {0}
    /\ Window \in Nat /\ Delay \in Nat /\ Delay < Window
    /\ MaxTime \in Nat

VARIABLES
    clock,  \* time.time()
    at,     \* [Requests -> the step of is_allowed]
    now,    \* [Requests -> the local now]
    store,  \* self._store[key]: the request whose list it is
    lists,  \* the lists: [Requests \cup {None} -> SUBSET Requests]
    held,   \* [Requests -> the list the step is about]
    raced   \* the requests whose check overlapped with another

vars == <<clock, at, now, store, lists, held, raced>>

Started == {r \in Requests : at[r] # "idle"}
Admitted == {r \in Requests : at[r] = "admitted"}
Refused == {r \in Requests : at[r] = "refused"}
Checking == Started \ (Admitted \cup Refused)

Init ==
    /\ clock = 0
    /\ at = [r \in Requests |-> "idle"]
    /\ now = [r \in Requests |-> 0]
    /\ store = None
    /\ lists = [l \in Requests \cup {None} |-> {}]
    /\ held = [r \in Requests |-> None]
    /\ raced = {}

Goes(r, from, to) == at[r] = from /\ at' = [at EXCEPT ![r] = to]

ReadClock(r) ==
    /\ Goes(r, "idle", "clocked")
    /\ now' = [now EXCEPT ![r] = clock]
    /\ raced' = IF Checking = {} THEN raced ELSE raced \cup Checking \cup {r}
    /\ UNCHANGED <<clock, store, lists, held>>

\* self._store[key]
Fetch(r) ==
    /\ held' = [held EXCEPT ![r] = store]
    /\ UNCHANGED <<clock, now, store, lists, raced>>

FetchToFilter(r) == Goes(r, "clocked", "filtering") /\ Fetch(r)

\* Mutant of Recent: the window is forgotten.
RecentOrOld(r) == lists[held[r]]

\* Mutant of Recent: the window is shorter than the limiter says.
RecentShort(r) == {q \in lists[held[r]] : now[q] > now[r] - Window + 1}

Recent(r) == {q \in lists[held[r]] : now[q] > now[r] - Window}

Filter(r) ==
    /\ Goes(r, "filtering", "filtered")
    /\ lists' = [lists EXCEPT ![r] = Recent(r)]
    /\ UNCHANGED <<clock, now, store, held, raced>>

Store(r) ==
    /\ Goes(r, "filtered", "stored")
    /\ store' = r
    /\ UNCHANGED <<clock, now, lists, held, raced>>

FetchToCount(r) == Goes(r, "stored", "counting") /\ Fetch(r)

Full(r) == Cardinality(lists[held[r]]) >= MaxRequests

Refuse(r) ==
    /\ Full(r)
    /\ Goes(r, "counting", "refused")
    /\ UNCHANGED <<clock, now, store, lists, held, raced>>

Pass(r) ==
    /\ ~Full(r)
    /\ Goes(r, "counting", "passed")
    /\ UNCHANGED <<clock, now, store, lists, held, raced>>

FetchToAppend(r) == Goes(r, "passed", "appending") /\ Fetch(r)

Append(r) ==
    /\ Goes(r, "appending", "admitted")
    /\ lists' = [lists EXCEPT ![held[r]] = @ \cup {r}]
    /\ UNCHANGED <<clock, now, store, held, raced>>

IsAllowed(r) ==
    \/ ReadClock(r) \/ FetchToFilter(r) \/ Filter(r) \/ Store(r)
    \/ FetchToCount(r) \/ Refuse(r) \/ Pass(r) \/ FetchToAppend(r) \/ Append(r)

\* The clock goes forward, and past no check by more than Delay.
Tick ==
    /\ clock < MaxTime
    /\ \A r \in Checking : clock < now[r] + Delay
    /\ clock' = clock + 1
    /\ UNCHANGED <<at, now, store, lists, held, raced>>

Next == Tick \/ \E r \in Requests : IsAllowed(r)

Spec == Init /\ [][Next]_vars

-------------------------------------------------------------------------------
Step == {"idle", "clocked", "filtering", "filtered", "stored", "counting", "passed",
         "appending", "admitted", "refused"}

TypeOK ==
    /\ clock \in 0..MaxTime
    /\ at \in [Requests -> Step]
    /\ now \in [Requests -> 0..MaxTime]
    /\ store \in Requests \cup {None}
    /\ lists \in [Requests \cup {None} -> SUBSET Requests]
    /\ held \in [Requests -> Requests \cup {None}]
    /\ raced \subseteq Requests

(***************************************************************************)
(* Nobody is refused who has not used up his window: whatever lists the    *)
(* threads take from each other, a refusal means that as many requests as  *)
(* allowed were admitted within the window, or Delay before it, for a list *)
(* that a slower check filtered may be the one counted.                    *)
(***************************************************************************)
RefusalIsEarned ==
    \A r \in Refused :
        Cardinality({q \in Admitted : now[q] > now[r] - Window - Delay}) >= MaxRequests

(***************************************************************************)
(* What exceeds the limit are overlapping checks, and nothing else: a list *)
(* that a race has replaced never loses the entry of a request that ran    *)
(* alone, so of these no window ever holds more than the limit.            *)
(***************************************************************************)
OverrunsAreRaces ==
    \A r \in Admitted \ raced :
        Cardinality({q \in Admitted \ raced : now[r] - Window < now[q] /\ now[q] <= now[r]})
            <= MaxRequests

===============================================================================
