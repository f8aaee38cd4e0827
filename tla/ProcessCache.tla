----------------------------- MODULE ProcessCache -----------------------------
(***************************************************************************)
(* The cache of process names, above processes that come and go.           *)
(*                                                                         *)
(* Windows reuses pids, so what a pid is called changes under the cache.   *)
(* An answer younger than the TTL is given again without asking; anything  *)
(* else is asked of the system and cached, failures included.  Ages are    *)
(* counted in ticks and cut off at Ttl, which is all they are compared to. *)
(***************************************************************************)
EXTENDS Naturals

CONSTANTS
    Pids,
    Names,      \* basenames, Exited and Unknown
    Exited,     \* stands for "exited:<pid>"
    Unknown,    \* stands for "unknown:<pid>"
    Ttl         \* 30 s in main.rs

ASSUME CacheAssumption ==
    /\ Exited \in Names
    /\ Unknown \in Names
    /\ Exited # Unknown
    /\ Ttl \in Nat \ {0}

VARIABLES
    owner,       \* the process behind each pid; Exited if there is none
    cache,       \* the DashMap: a function on the pids that have an entry
    sinceOwned   \* history: ticks since the pid was last that process

cacheVars == <<owner, cache, sinceOwned>>

CacheEntry == [name : Names, age : 0 .. Ttl]

CacheTypeOK ==
    /\ owner \in [Pids -> Names \ {Unknown}]
    /\ DOMAIN cache \subseteq Pids
    /\ cache \in [DOMAIN cache -> CacheEntry]
    /\ sinceOwned \in [Pids -> [Names -> 0 .. Ttl]]

CacheInit ==
    /\ owner \in [Pids -> Names \ {Unknown}]
    /\ cache = [p \in {} |-> p]
    /\ sinceOwned = [p \in Pids |-> [n \in Names |-> IF n = owner[p] THEN 0 ELSE Ttl]]

-----------------------------------------------------------------------------
\* Mutant: the TTL is not looked at.
FreshForever(p) == p \in DOMAIN cache

Fresh(p) == p \in DOMAIN cache /\ cache[p].age < Ttl

\* The answers that name no process.
Fallbacks == {Exited, Unknown}

\* resolve_pid: the snapshot names the process of the pid.  It can fail, miss
\* the process or hold a name that is not text, whatever runs there; and then a
\* process that OpenProcess is refused, or that has just started, passes for exited.
Queried(p) == {owner[p]} \cup Fallbacks

Answers(p) == IF Fresh(p) THEN {cache[p].name} ELSE Queried(p)

\* resolve, for the pids P, in one go: "answer" is what each call returns.
ResolveAll(P, answer) ==
    /\ \A p \in P : answer[p] \in Answers(p)
    /\ cache' = [p \in DOMAIN cache \cup P |->
                    IF p \in P /\ ~Fresh(p)
                    THEN [name |-> answer[p], age |-> 0]
                    ELSE cache[p]]
    /\ UNCHANGED <<owner, sinceOwned>>

EvictExpired ==
    /\ cache' = [p \in {q \in DOMAIN cache : Fresh(q)} |-> cache[p]]
    /\ UNCHANGED <<owner, sinceOwned>>

\* The process behind p exits, or another starts and is given its pid.
OwnerChanges(p, n) ==
    /\ n # owner[p]
    /\ owner' = [owner EXCEPT ![p] = n]
    /\ sinceOwned' = [sinceOwned EXCEPT ![p][n] = 0]
    /\ UNCHANGED cache

Aged(n) == IF n < Ttl THEN n + 1 ELSE n

CacheElapse ==
    /\ cache' = [p \in DOMAIN cache |-> [cache[p] EXCEPT !.age = Aged(@)]]
    /\ sinceOwned' = [p \in Pids |-> [n \in Names |->
                         IF n = owner[p] THEN 0 ELSE Aged(sinceOwned[p][n])]]
    /\ UNCHANGED owner

CacheNext ==
    \/ \E P \in SUBSET Pids : \E answer \in [P -> Names] : ResolveAll(P, answer)
    \/ EvictExpired
    \/ \E p \in Pids, n \in Names \ {Unknown} : OwnerChanges(p, n)
    \/ CacheElapse

CacheSpec == CacheInit /\ [][CacheNext]_cacheVars

-----------------------------------------------------------------------------
\* The name the cache holds was that of the pid no longer ago than the entry's age.
EntriesWereTrue ==
    \A p \in DOMAIN cache :
        cache[p].name \in Fallbacks \/ sinceOwned[p][cache[p].name] <= cache[p].age

\* The history variable tells the present process from the past ones.
OwnerIsNow == \A p \in Pids : sinceOwned[p][owner[p]] = 0

\* The name of a process is never out of date by the TTL or more, although pids are
\* reused and entries outlive it in the map until the next tick evicts them.  A
\* fallback says nothing: "exited" may be answered of a process that runs.
AnswersRecent ==
    \A p \in Pids : \A n \in Answers(p) : n \in Fallbacks \/ sinceOwned[p][n] < Ttl
=============================================================================
