--------------------------- MODULE AttributionProofs ---------------------------
(***************************************************************************)
(* The debouncer with its process cache implements both components, so     *)
(* what is proved of each holds of the two together.                       *)
(***************************************************************************)
EXTENDS Attribution, DebouncerProofs

CacheProofs == INSTANCE ProcessCacheProofs

(* Every step of the composition is a step of the debouncer or leaves it     *)
(* alone: resolving names adds guards and never a new behaviour.             *)
LEMMA DebouncerStep == TypeOK /\ [AttributionNext]_attributionVars => [Next]_vars
  <1> SUFFICES ASSUME TypeOK, AttributionNext PROVE [Next]_vars
    BY DEF attributionVars, vars
  <1>0. ASSUME NEW answer \in [Pids -> Names]
        PROVE  NameOf(answer) \in [DOMAIN pending -> Names]
    <2>1. \A f \in DOMAIN pending : pending[f].pid \in Pids
      BY DEF TypeOK, Entry
    <2> QED
      BY <2>1 DEF NameOf
  <1>1. ASSUME NEW e \in Event, Traced(e) PROVE Next
    BY <1>1 DEF Traced, Next, Environment
  <1>2. ASSUME NEW name \in Names, EventFiltered(name) PROVE Next
    BY <1>2 DEF EventFiltered, Next
  <1>3. ASSUME NEW answer \in [Pids -> Names], TickNamed(answer) PROVE Next
    BY <1>0, <1>3 DEF TickNamed, Next
  <1>4. ASSUME NEW answer \in [Pids -> Names], FlushNamed(answer) PROVE Next
    BY <1>0, <1>4 DEF FlushNamed, Next
  <1>5. CASE TickEvicts
    BY <1>5 DEF TickEvicts, Next
  <1>6. CASE TimePasses
    BY <1>6 DEF TimePasses, Next, Environment
  <1>7. ASSUME NEW p \in Pids, NEW n \in Names \ {Unknown}, PidReused(p, n)
        PROVE  UNCHANGED vars
    BY <1>7 DEF PidReused
  <1>8. CASE Elsewhere
    BY <1>8 DEF Elsewhere, Next, Environment
  <1> QED
    BY <1>1, <1>2, <1>3, <1>4, <1>5, <1>6, <1>7, <1>8 DEF AttributionNext

(* The names the cache supplies are names the debouncer was checked with: a  *)
(* behaviour of the two together is a behaviour of Debouncer.                *)
LEMMA DebouncerKept == AttributionSpec => Spec
  <1>1. AttributionInit => Init
    BY DEF AttributionInit
  <1>2. TypeOK /\ [AttributionNext]_attributionVars => TypeOK'
    BY DebouncerStep, TypeStep
  <1> QED
    BY <1>1, <1>2, InitTypes, DebouncerStep, PTL
    DEF AttributionSpec, Spec

(* Every step of the composition is a step of the cache or leaves it alone.  *)
LEMMA CacheStep ==
    TypeOK /\ [AttributionNext]_attributionVars => [Processes!CacheNext]_cacheState
  <1> SUFFICES ASSUME TypeOK, AttributionNext PROVE [Processes!CacheNext]_cacheState
    BY DEF attributionVars, cacheState
  <1>1. ASSUME NEW P \in SUBSET Pids, NEW answer, Processes!ResolveAll(P, answer),
               \A p \in P : answer[p] \in Names
        PROVE  Processes!CacheNext
    <2> DEFINE short == [p \in P |-> answer[p]]
    <2>1. short \in [P -> Names] /\ \A p \in P : short[p] = answer[p]
      BY <1>1
    <2> HIDE DEF short
    <2>2. Processes!ResolveAll(P, short)
      BY <1>1, <2>1 DEF Processes!ResolveAll
    <2> QED
      BY <2>1, <2>2 DEF Processes!CacheNext
  <1>2. ASSUME NEW name \in Names, EventFiltered(name) PROVE Processes!CacheNext
    <2>1. Head(raw) \in Event
      BY <1>2 DEF EventFiltered, RecvEvent, TypeOK
    <2>2. Head(raw).pid \in Pids
      BY <2>1 DEF Event
    <2> QED
      BY <1>1, <1>2, <2>2 DEF EventFiltered
  <1>3. ASSUME NEW F \in SUBSET DOMAIN pending, NEW answer \in [Pids -> Names], Drained(F, answer)
        PROVE  Processes!CacheNext
    <2> DEFINE P == {pending[f].pid : f \in {g \in F : pending[g].bytes >= Threshold}}
    <2>1. P \in SUBSET Pids
      BY DEF TypeOK, Entry
    <2>2. Processes!ResolveAll(P, answer)
      BY <1>3 DEF Drained
    <2> QED
      BY <1>1, <2>1, <2>2
  <1>4. ASSUME NEW answer \in [Pids -> Names], TickNamed(answer) \/ FlushNamed(answer)
        PROVE  Processes!CacheNext
    BY <1>3, <1>4 DEF TickNamed, FlushNamed, Quiet
  <1>5. CASE TickEvicts
    BY <1>5 DEF TickEvicts, Processes!CacheNext
  <1>6. CASE TimePasses
    BY <1>6 DEF TimePasses, Processes!CacheNext
  <1>7. ASSUME NEW p \in Pids, NEW n \in Names \ {Unknown}, PidReused(p, n)
        PROVE  Processes!CacheNext
    BY <1>7 DEF PidReused, Processes!CacheNext
  <1>8. CASE Elsewhere \/ \E e \in Event : Traced(e)
    BY <1>8 DEF Elsewhere, Traced, cacheState
  <1> QED
    BY <1>2, <1>4, <1>5, <1>6, <1>7, <1>8 DEF AttributionNext

(* The cache keeps its promise under the debouncer.                          *)
LEMMA CacheImplemented ==
  AttributionSpec => [](Processes!AnswersRecent /\ Processes!CacheTypeOK)
  <1>1. AttributionInit => CacheProofs!CacheInit
    BY DEF AttributionInit, Processes!CacheInit, CacheProofs!CacheInit
  <1>2. TypeOK /\ [AttributionNext]_attributionVars
           => [CacheProofs!CacheNext]_(CacheProofs!cacheVars)
    BY CacheStep
    DEF cacheState, CacheProofs!cacheVars, Processes!CacheNext, CacheProofs!CacheNext,
        Processes!ResolveAll, CacheProofs!ResolveAll, Processes!Answers,
        CacheProofs!Answers, Processes!Queried, CacheProofs!Queried,
        Processes!Fallbacks, CacheProofs!Fallbacks,
        Processes!Fresh, CacheProofs!Fresh, Processes!EvictExpired,
        CacheProofs!EvictExpired, Processes!OwnerChanges, CacheProofs!OwnerChanges,
        Processes!CacheElapse, CacheProofs!CacheElapse, Processes!Aged, CacheProofs!Aged
  <1>3. AttributionInit => Init
    BY DEF AttributionInit
  <1>4. TypeOK /\ [AttributionNext]_attributionVars => TypeOK'
    BY DebouncerStep, TypeStep
  <1>5. /\ CacheProofs!CacheSpec => []CacheProofs!AnswersRecent
        /\ CacheProofs!CacheSpec => []CacheProofs!CacheTypeOK
    BY NameAssumption, CacheProofs!NamesRecent, CacheProofs!CacheTypes
  <1>6. /\ CacheProofs!CacheTypeOK => Processes!CacheTypeOK
        /\ CacheProofs!AnswersRecent => Processes!AnswersRecent
    BY DEF CacheProofs!CacheTypeOK, Processes!CacheTypeOK, CacheProofs!CacheEntry,
       Processes!CacheEntry,
       CacheProofs!AnswersRecent, Processes!AnswersRecent, CacheProofs!Answers,
       Processes!Answers, CacheProofs!Queried, Processes!Queried,
       CacheProofs!Fallbacks, Processes!Fallbacks,
       CacheProofs!Fresh, Processes!Fresh
  <1> QED
    BY <1>1, <1>2, <1>3, <1>4, <1>5, <1>6, InitTypes, PTL
    DEF AttributionSpec, CacheProofs!CacheSpec

(* A row is given a name its pid bore less than the TTL before, or a fallback. *)
THEOREM RowNamesRecent == AttributionSpec => RowNameRecent
  <1>1. TypeOK /\ Processes!AnswersRecent /\ [AttributionNext]_attributionVars =>
          [\A r \in NewRows :
              \/ r.name \in Processes!Fallbacks
              \/ sinceOwned[pending[r.file].pid][r.name] < Ttl]_attributionVars
    <2> SUFFICES ASSUME TypeOK, Processes!AnswersRecent, AttributionNext, NEW r \in NewRows
                 PROVE  \/ r.name \in Processes!Fallbacks
                        \/ sinceOwned[pending[r.file].pid][r.name] < Ttl
      OBVIOUS
    <2>1. ASSUME NEW F \in SUBSET DOMAIN pending, NEW answer \in [Pids -> Names],
                 outbox' = RowsOf(F, NameOf(answer)), Drained(F, answer)
          PROVE  r.name \in Processes!Fallbacks \/ sinceOwned[pending[r.file].pid][r.name] < Ttl
      <3>1. PICK f \in F : /\ pending[f].bytes >= Threshold
                           /\ r.file = f /\ r.name = answer[pending[f].pid]
        <4>1. PICK f \in {g \in F : pending[g].bytes >= Threshold} :
                 r = [file |-> f, name |-> NameOf(answer)[f],
                      bytes |-> pending[f].bytes, at |-> clock]
          BY <2>1 DEF NewRows, RowsOf
        <4>2. NameOf(answer)[f] = answer[pending[f].pid]
          BY DEF NameOf
        <4> QED
          BY <4>1, <4>2
      <3>2. pending[f].pid \in Pids
        BY DEF TypeOK, Entry
      <3>3. answer[pending[f].pid] \in Processes!Answers(pending[f].pid)
        BY <2>1, <3>1 DEF Drained, Processes!ResolveAll
      <3> QED
        BY <3>1, <3>2, <3>3 DEF Processes!AnswersRecent
    <2>2. ASSUME NEW answer \in [Pids -> Names], TickNamed(answer)
          PROVE  r.name \in Processes!Fallbacks \/ sinceOwned[pending[r.file].pid][r.name] < Ttl
      BY <2>1, <2>2 DEF TickNamed, Tick, Quiet
    <2>3. ASSUME NEW answer \in [Pids -> Names], FlushNamed(answer)
          PROVE  r.name \in Processes!Fallbacks \/ sinceOwned[pending[r.file].pid][r.name] < Ttl
      BY <2>1, <2>3 DEF FlushNamed, ShutdownSeen
    <2>4. CASE outbox' \subseteq outbox
      BY <2>4 DEF NewRows
    <2> QED
      BY <2>2, <2>3, <2>4
      DEF AttributionNext, Traced, TrySend, EventFiltered, RecvEvent, TickEvicts,
          TickDone, TimePasses, Elapse, PidReused, vars, Elsewhere, TrySendFails,
          DropSender, RecvClosed, SignalShutdown,
          SendRecord, WriterRecv, WriterInsert, WriterFails, WriterStops, FlushDone
  <1> QED
    BY <1>1, DebouncerKept, TypeCorrect, CacheImplemented, PTL DEF AttributionSpec, RowNameRecent

(* An excluded process that has had its pid for the TTL is filtered: whatever *)
(* the cache answers, fresh or asked for, is its name or a fallback.          *)
THEOREM ExclusionSteady == AttributionSpec => SteadyExclusion
  <1> DEFINE p == Head(raw).pid
             Steady == (/\ raw # <<>> /\ raw' = Tail(raw) /\ task' = "select"
                        /\ owner[p] \in ExcludedNames /\ Settled(p))
                           => (pending' = pending \/ cache'[p].name \in Processes!Fallbacks)
  <1>1. TypeOK /\ (Processes!AnswersRecent /\ Processes!CacheTypeOK)
            /\ [AttributionNext]_attributionVars => [Steady]_attributionVars
    <2> SUFFICES ASSUME TypeOK, Processes!AnswersRecent, Processes!CacheTypeOK, AttributionNext,
                        raw # <<>>, raw' = Tail(raw), task' = "select",
                        owner[p] \in ExcludedNames, Settled(p), cache'[p].name \notin Processes!Fallbacks
                 PROVE  pending' = pending
      OBVIOUS
    <2>1. raw \in Seq(Event) /\ p \in Pids
      <3>1. raw \in Seq(Event) /\ Head(raw) \in Event
        BY DEF TypeOK
      <3> QED
        BY <3>1 DEF Event
    <2>2. raw' # raw
      BY <2>1
    <2>3. ASSUME NEW name \in Names, EventFiltered(name) PROVE pending' = pending
      <3>1. name \in Processes!Answers(p) /\ cache'[p].name = name
        BY <2>1, <2>3
        DEF EventFiltered, Processes!ResolveAll, Processes!Answers, Processes!CacheTypeOK
      <3>2. sinceOwned[p][name] < Ttl
        BY <2>1, <3>1 DEF Processes!AnswersRecent
      <3>3. sinceOwned[p][name] \in Nat /\ Ttl \in Nat
        BY <2>1, NameAssumption DEF Processes!CacheTypeOK
      <3>4. ~(sinceOwned[p][name] >= Ttl)
        BY <3>2, <3>3
      <3>5. name = owner[p]
        BY <3>4 DEF Settled
      <3> QED
        BY <2>3, <3>5 DEF EventFiltered, RecvEvent, Filtered
    <2>4. ASSUME NEW e \in Event, Traced(e) PROVE pending' = pending
      BY <2>4 DEF Traced, TrySend
    <2>5. ASSUME NEW answer \in [Pids -> Names], TickNamed(answer) \/ FlushNamed(answer)
          PROVE  FALSE
      BY <2>2, <2>5 DEF TickNamed, FlushNamed, Tick, ShutdownSeen
    <2>6. CASE TimePasses
      BY <2>2, <2>6 DEF TimePasses, Elapse
    <2>7. CASE TickEvicts
      BY <2>7 DEF TickEvicts, TickDone
    <2>8. ASSUME NEW q \in Pids, NEW n \in Names \ {Unknown}, PidReused(q, n)
          PROVE  pending' = pending
      BY <2>8 DEF PidReused, vars
    <2>9. CASE Elsewhere
      BY <2>9 DEF Elsewhere, TrySendFails, DropSender, RecvClosed, SignalShutdown,
                  SendRecord, WriterRecv, WriterInsert, WriterFails,
                  WriterStops, FlushDone
    <2> QED
      BY <2>3, <2>4, <2>5, <2>6, <2>7, <2>8, <2>9 DEF AttributionNext
  <1> QED
    BY <1>1, DebouncerKept, TypeCorrect, CacheImplemented, PTL DEF AttributionSpec, SteadyExclusion
=============================================================================
