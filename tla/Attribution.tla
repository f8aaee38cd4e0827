----------------------------- MODULE Attribution -----------------------------
(***************************************************************************)
(* The debouncer with the process cache it asks for names.                 *)
(*                                                                         *)
(* A name is resolved twice: when an event is filtered and, for the row,   *)
(* when the aggregation is drained.  The pid of an aggregation is that of  *)
(* the last event, and the process behind it may have gone in the          *)
(* meantime.                                                               *)
(***************************************************************************)
EXTENDS Debouncer

CONSTANTS Exited, Unknown, Ttl

ASSUME NameAssumption ==
    /\ Exited \in Names
    /\ Unknown \in Names
    /\ Exited # Unknown
    /\ Ttl \in Nat \ {0}

VARIABLES owner, cache, sinceOwned

Processes == INSTANCE ProcessCache

cacheState == <<owner, cache, sinceOwned>>
attributionVars == <<vars, cacheState>>

AttributionInit ==
    /\ Init
    /\ Processes!CacheInit

-----------------------------------------------------------------------------
Traced(e) ==
    /\ owner[e.pid] # Exited
    /\ TrySend(e)
    /\ UNCHANGED cacheState

\* cache.resolve, then the filters and feed.
EventFiltered(name) ==
    /\ RecvEvent(name)
    /\ Processes!ResolveAll({Head(raw).pid}, [p \in {Head(raw).pid} |-> name])

\* drain_ready and drain_all resolve the pid of each aggregation they record.
Drained(F, answer) ==
    LET recorded == {f \in F : pending[f].bytes >= Threshold}
    IN  Processes!ResolveAll({pending[f].pid : f \in recorded}, answer)

NameOf(answer) == [f \in DOMAIN pending |-> answer[pending[f].pid]]

TickNamed(answer) == Tick(NameOf(answer)) /\ Drained(Quiet, answer)

FlushNamed(answer) == ShutdownSeen(NameOf(answer)) /\ Drained(DOMAIN pending, answer)

TickEvicts == TickDone /\ Processes!EvictExpired

TimePasses == Elapse /\ Processes!CacheElapse

PidReused(p, n) == Processes!OwnerChanges(p, n) /\ UNCHANGED vars

\* The steps that do not ask for a name.
Elsewhere ==
    /\ \/ \E e \in Event : TrySendFails(e)
       \/ \E s \in Senders : DropSender(s)
       \/ SignalShutdown
       \/ RecvClosed
       \/ \E r \in outbox : SendRecord(r)
       \/ WriterRecv
       \/ \E r \in writing : WriterInsert(r) \/ WriterFails(r)
       \/ WriterStops
       \/ FlushDone
    /\ UNCHANGED cacheState

AttributionNext ==
    \/ \E e \in Event : Traced(e)
    \/ \E name \in Names : EventFiltered(name)
    \/ \E answer \in [Pids -> Names] : TickNamed(answer)
    \/ \E answer \in [Pids -> Names] : FlushNamed(answer)
    \/ TickEvicts
    \/ TimePasses
    \/ \E p \in Pids, n \in Names \ {Unknown} : PidReused(p, n)
    \/ Elsewhere

\* What a drain adds to the outbox in this step.
NewRows == outbox' \ outbox

AttributionSpec == AttributionInit /\ [][AttributionNext]_attributionVars

-----------------------------------------------------------------------------
(* Properties.                                                             *)

\* The name a row gets is a fallback, or one the pid of the aggregation's last
\* event bore less than the TTL before the row was drained.
RowNameRecent ==
    [][\A r \in NewRows :
          \/ r.name \in Processes!Fallbacks
          \/ sinceOwned[pending[r.file].pid][r.name] < Ttl]_attributionVars

\* No other process has been behind p for the TTL.
Settled(p) == \A n \in Names \ {owner[p]} : sinceOwned[p][n] >= Ttl

\* Once an excluded process has had its pid for the TTL, none of its events gets
\* past the filter under the name of another; only a fallback lets it through.
SteadyExclusion ==
    [][LET p == Head(raw).pid
       IN  (/\ raw # <<>> /\ raw' = Tail(raw) /\ task' = "select"
            /\ owner[p] \in ExcludedNames /\ Settled(p))
              => (pending' = pending \/ cache'[p].name \in Processes!Fallbacks)]_attributionVars

\* The documentation's promise that an excluded process is not recorded.
NoExcludedRow == \A r \in InFlight : r.name \notin ExcludedNames
=============================================================================
