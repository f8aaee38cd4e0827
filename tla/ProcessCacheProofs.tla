-------------------------- MODULE ProcessCacheProofs --------------------------
(* Proofs about ProcessCache for every set of pids and every TTL. *)
EXTENDS ProcessCache, TLAPS

(* The cache is a map from pids to named, aged entries at all times.        *)
LEMMA CacheTypeStep == CacheTypeOK /\ [CacheNext]_cacheVars => CacheTypeOK'
  <1> SUFFICES ASSUME CacheTypeOK, [CacheNext]_cacheVars PROVE CacheTypeOK'
    OBVIOUS
  <1> USE CacheAssumption DEF CacheTypeOK
  <1>1. ASSUME NEW P \in SUBSET Pids, NEW answer \in [P -> Names], ResolveAll(P, answer)
        PROVE  CacheTypeOK'
    <2>1. \A p \in DOMAIN cache' : cache'[p] \in CacheEntry
      <3>1. \A p \in P : [name |-> answer[p], age |-> 0] \in CacheEntry
        BY DEF CacheEntry
      <3> QED
        BY <1>1, <3>1 DEF ResolveAll, Fresh
    <2>2. DOMAIN cache' \subseteq Pids /\ cache' \in [DOMAIN cache' -> CacheEntry]
      BY <1>1, <2>1 DEF ResolveAll
    <2> QED
      BY <1>1, <2>2 DEF ResolveAll
  <1>2. CASE EvictExpired
    BY <1>2 DEF EvictExpired, Fresh
  <1>3. ASSUME NEW p \in Pids, NEW n \in Names \ {Unknown}, OwnerChanges(p, n)
        PROVE  CacheTypeOK'
    BY <1>3 DEF OwnerChanges
  <1>4. CASE CacheElapse
    <2>1. \A m \in 0 .. Ttl : Aged(m) \in 0 .. Ttl
      BY DEF Aged
    <2>2. \A p \in DOMAIN cache : [cache[p] EXCEPT !.age = Aged(@)] \in CacheEntry
      BY <2>1 DEF CacheEntry
    <2>3. DOMAIN cache' \subseteq Pids /\ cache' \in [DOMAIN cache' -> CacheEntry]
      BY <1>4, <2>2 DEF CacheElapse
    <2>4. sinceOwned' \in [Pids -> [Names -> 0 .. Ttl]]
      BY <1>4, <2>1 DEF CacheElapse
    <2> QED
      BY <1>4, <2>3, <2>4 DEF CacheElapse
  <1>5. CASE UNCHANGED cacheVars
    BY <1>5 DEF cacheVars
  <1> QED
    BY <1>1, <1>2, <1>3, <1>4, <1>5 DEF CacheNext

(* An empty cache has the types declared. *)
LEMMA CacheInitTypes == CacheInit => CacheTypeOK
  BY CacheAssumption DEF CacheInit, CacheTypeOK

(* What an entry says was true when it was made, and entry and history age  *)
(* together.                                                                *)
LEMMA EntriesStep ==
    CacheTypeOK /\ OwnerIsNow /\ EntriesWereTrue /\ [CacheNext]_cacheVars
        => OwnerIsNow' /\ EntriesWereTrue'
  <1> SUFFICES ASSUME CacheTypeOK, OwnerIsNow, EntriesWereTrue, [CacheNext]_cacheVars
               PROVE  OwnerIsNow' /\ EntriesWereTrue'
    OBVIOUS
  <1> USE CacheAssumption DEF OwnerIsNow, EntriesWereTrue
  <1>1. ASSUME NEW P \in SUBSET Pids, NEW answer \in [P -> Names], ResolveAll(P, answer)
        PROVE  OwnerIsNow' /\ EntriesWereTrue'
    <2>1. UNCHANGED <<owner, sinceOwned>>
      BY <1>1 DEF ResolveAll
    <2>2. \A p \in DOMAIN cache' :
             \/ p \in DOMAIN cache /\ cache'[p] = cache[p]
             \/ /\ p \in Pids
                /\ cache'[p].age = 0
                /\ cache'[p].name \in {owner[p]} \cup Fallbacks
      BY <1>1 DEF ResolveAll, Answers, Queried, Fresh
    <2> QED
      BY <2>1, <2>2
  <1>2. CASE EvictExpired
    BY <1>2 DEF EvictExpired
  <1>3. ASSUME NEW p \in Pids, NEW n \in Names \ {Unknown}, OwnerChanges(p, n)
        PROVE  OwnerIsNow' /\ EntriesWereTrue'
    <2>1. cache' = cache /\ owner' = [owner EXCEPT ![p] = n]
      BY <1>3 DEF OwnerChanges
    <2>2. \A q \in Pids, m \in Names :
             sinceOwned'[q][m] = IF q = p /\ m = n THEN 0 ELSE sinceOwned[q][m]
      BY <1>3 DEF OwnerChanges, CacheTypeOK
    <2>3. \A q \in DOMAIN cache :
             q \in Pids /\ cache[q].name \in Names /\ cache[q].age \in Nat
      BY DEF CacheTypeOK, CacheEntry
    <2>4. OwnerIsNow'
      <3>1. \A q \in Pids : owner'[q] = (IF q = p THEN n ELSE owner[q]) /\ owner[q] \in Names
        BY <2>1 DEF CacheTypeOK
      <3> QED
        BY <2>2, <3>1
    <2>5. EntriesWereTrue'
      BY <2>1, <2>2, <2>3
    <2> QED
      BY <2>4, <2>5
  <1>4. CASE CacheElapse
    <2>1. \A m, k \in 0 .. Ttl : (m <= k => Aged(m) <= Aged(k)) /\ 0 <= Aged(k)
      BY DEF Aged
    <2>2. \A q \in DOMAIN cache :
             /\ q \in Pids /\ cache[q].name \in Names /\ cache[q].age \in 0 .. Ttl
             /\ cache'[q].name = cache[q].name
             /\ cache'[q].age = Aged(cache[q].age)
      BY <1>4 DEF CacheTypeOK, CacheEntry, CacheElapse
    <2>3. \A q \in Pids, m \in Names :
             /\ sinceOwned[q][m] \in 0 .. Ttl
             /\ sinceOwned'[q][m] = IF m = owner[q] THEN 0 ELSE Aged(sinceOwned[q][m])
      BY <1>4 DEF CacheTypeOK, CacheElapse
    <2>4. DOMAIN cache' = DOMAIN cache /\ owner' = owner
      BY <1>4 DEF CacheElapse
    <2>5. OwnerIsNow'
      BY <2>3, <2>4 DEF CacheTypeOK
    <2>6. EntriesWereTrue'
      BY <2>1, <2>2, <2>3, <2>4
    <2> QED
      BY <2>5, <2>6
  <1>5. CASE UNCHANGED cacheVars
    BY <1>5 DEF cacheVars
  <1> QED
    BY <1>1, <1>2, <1>3, <1>4, <1>5 DEF CacheNext

(* Entries, ages and the history have their types, ages at most the TTL.    *)
THEOREM CacheTypes == CacheSpec => []CacheTypeOK
  BY CacheInitTypes, CacheTypeStep, PTL DEF CacheSpec

(* The cache never answers with the name of a process that stopped being the *)
(* pid's the TTL or longer ago, however pids are reused and whenever entries *)
(* are evicted.                                                              *)
THEOREM NamesRecent == CacheSpec => []AnswersRecent
  <1>1. CacheInit => OwnerIsNow /\ EntriesWereTrue
    BY CacheAssumption DEF CacheInit, OwnerIsNow, EntriesWereTrue
  <1>2. CacheTypeOK /\ OwnerIsNow /\ EntriesWereTrue => AnswersRecent
    <2> SUFFICES ASSUME CacheTypeOK, OwnerIsNow, EntriesWereTrue,
                        NEW p \in Pids, NEW n \in Answers(p), n \notin Fallbacks
                 PROVE  sinceOwned[p][n] < Ttl
      BY DEF AnswersRecent
    <2>1. CASE Fresh(p)
      BY <2>1, CacheAssumption
      DEF Fresh, Answers, EntriesWereTrue, CacheTypeOK, CacheEntry
    <2>2. CASE ~Fresh(p)
      BY <2>2, CacheAssumption DEF Answers, Queried, OwnerIsNow
    <2> QED
      BY <2>1, <2>2
  <1> QED
    BY <1>1, <1>2, CacheInitTypes, CacheTypes, EntriesStep, PTL DEF CacheSpec
=============================================================================
