----------------------------- MODULE StartupProofs -----------------------------
(***************************************************************************)
(* Proofs about Startup for any number of instances: sessions are safe     *)
(* from other instances' starts and deaths, configurations are whole, and  *)
(* what an instance reports is on C:, whatever devices there are.          *)
(***************************************************************************)
EXTENDS Startup, WellFoundedInduction, TLAPS

USE StartupAssumption DEF startupVars, FileTexts

(* A new value of one field keeps a record of an instance well formed.       *)
LEMMA LifeFields ==
  ASSUME NEW x \in Life
  PROVE  /\ \A v \in {"checking", "creating", "filling", "reading"} : [x EXCEPT !.stage = v] \in Life
         /\ \A p \in Pids : [x EXCEPT !.stage = "checking", !.pid = p] \in Life
         /\ \A text \in FileTexts :
               [x EXCEPT !.stage = "running", !.config = Parsed(text)] \in Life
         /\ \A v \in {"taken", "freed", "kept", "tracing", "failed"} : [x EXCEPT !.trace = v] \in Life
         /\ \A n \in Nanos, m \in Mounts :
               [x EXCEPT !.trace = "starting", !.nanos = n, !.devices = Scan(m)] \in Life
         /\ \A v \in {"serving", "failed"} : [x EXCEPT !.server = v] \in Life
         /\ \A n \in ProcessNames : [x EXCEPT !.added = @ \cup {n}] \in Life
  BY DEF Life

(* A process that is not running is in a state of its own. *)
LEMMA OffIsLife == Off \in Life
  BY DEF Off, Life, Defaults

(* There is one place for C: in the scan. *)
LEMMA OneC ==
  /\ PositionC \in DOMAIN Letters /\ Letters[PositionC] = DriveC
  /\ \A k \in DOMAIN Letters : Letters[k] = DriveC => k = PositionC
  BY LetterAssumption DEF PositionC

(* Before the first launch nothing is owned and nothing is traced. *)
LEMMA InitInv == StartupInit => StartupInv /\ OwnSessionKept /\ NameStaysFree /\ ConfigWhole
  <1> SUFFICES ASSUME StartupInit
               PROVE  StartupInv /\ OwnSessionKept /\ NameStaysFree /\ ConfigWhole
    OBVIOUS
  <1>1. \A i \in Instances : life[i] = Off
    BY DEF StartupInit
  <1>2. StartupTypeOK
    BY OffIsLife DEF StartupInit, StartupTypeOK
  <1>3. ScannedC
    <2>1. PositionC \in DOMAIN mounted
      BY OneC DEF StartupInit, Mounts
    <2> QED
      BY <1>1, <2>1 DEF Off, ScannedC
  <1> QED
    BY <1>1, <1>2, <1>3
    DEF Off, StartupInit, StartupInv, InOrder, PidsDistinct, Living,
        OwnSessionKept, NameStaysFree, ConfigWhole

(* What a step of an instance may do to the instances: change that one.       *)
LEMMA OneChanges ==
  ASSUME StartupTypeOK, NEW i \in Instances, InstanceStep(i)
  PROVE  /\ mounted' = mounted
         /\ life'[i] \in Life
         /\ life' = [life EXCEPT ![i] = life'[i]]
         /\ \A j \in Instances : j # i => life'[j] = life[j]
  <1>1. life[i] \in Life /\ \A x : [life EXCEPT ![i] = x][i] = x
    BY DEF StartupTypeOK
  <1>2. ASSUME NEW x \in Life, life' = [life EXCEPT ![i] = x], mounted' = mounted
        PROVE  /\ mounted' = mounted
               /\ life'[i] \in Life
               /\ life' = [life EXCEPT ![i] = life'[i]]
               /\ \A j \in Instances : j # i => life'[j] = life[j]
    BY <1>1, <1>2 DEF StartupTypeOK
  <1>3. CASE Launch(i)
    <2>1. PICK p \in Pids : life' = [life EXCEPT ![i].stage = "checking", ![i].pid = p]
      BY <1>3 DEF Launch
    <2>2. mounted' = mounted /\ [life[i] EXCEPT !.stage = "checking", !.pid = p] \in Life
      BY <1>1, <1>3, LifeFields DEF Launch
    <2>3. life' = [life EXCEPT ![i] = [life[i] EXCEPT !.stage = "checking", !.pid = p]]
      BY <2>1 DEF StartupTypeOK
    <2> QED
      BY <1>2, <2>2, <2>3
  <1>4. CASE LoadChecks(i) \/ LoadCreates(i) \/ LoadFills(i)
    BY <1>1, <1>2, <1>4, LifeFields DEF LoadChecks, LoadCreates, LoadFills
  <1>5. CASE LoadReads(i)
    BY <1>1, <1>2, <1>5, LifeFields DEF LoadReads, StartupTypeOK
  <1>6. CASE TraceBegins(i)
    <2>1. PICK n \in Nanos : life' = [life EXCEPT ![i].trace = "starting", ![i].nanos = n,
                                                  ![i].devices = Scan(mounted)]
      BY <1>6 DEF TraceBegins
    <2> QED
      BY <1>1, <1>2, <1>6, <2>1, LifeFields DEF TraceBegins, StartupTypeOK
  <1>7. CASE TraceStarts(i) \/ NameTaken(i) \/ TraceFails(i) \/ StopStale(i)
    BY <1>1, <1>2, <1>7, LifeFields DEF TraceStarts, NameTaken, TraceFails, StopStale
  <1>8. CASE Binds(i) \/ BindFails(i) \/ \E name \in ProcessNames : AddExcludeProcess(i, name)
    BY <1>1, <1>2, <1>8, LifeFields DEF Binds, BindFails, AddExcludeProcess
  <1>9. CASE Returns(i) \/ Dies(i)
    BY <1>1, <1>2, <1>9, OffIsLife DEF Returns, Dies
  <1> QED
    BY <1>3, <1>4, <1>5, <1>6, <1>7, <1>8, <1>9 DEF InstanceStep

(* A step keeps file, sessions, volumes and instances well formed: a session *)
(* is only started under a pid the system gave.                              *)
LEMMA TypeStep == StartupInv /\ [StartupNext]_startupVars => StartupTypeOK'
  <1> SUFFICES ASSUME StartupInv, [StartupNext]_startupVars PROVE StartupTypeOK'
    OBVIOUS
  <1> USE DEF StartupInv, StartupTypeOK
  <1>1. ASSUME NEW i \in Instances, InstanceStep(i) PROVE StartupTypeOK'
    <2>1. mounted' \in Mounts /\ life' \in [Instances -> Life]
      BY <1>1, OneChanges
    <2>2. file' \in FileTexts /\ sessions' \subseteq Pids \X Nanos
      <3>1. CASE TraceStarts(i)
        <4>1. SessionName(i) \in Pids \X Nanos
          BY <3>1 DEF TraceStarts, SessionName, InOrder, Living
        <4> QED
          BY <3>1, <4>1 DEF TraceStarts
      <3>2. CASE StopStale(i)
        BY <3>2 DEF StopStale
      <3>3. CASE LoadCreates(i) \/ LoadFills(i)
        BY <3>3 DEF LoadCreates, LoadFills, Overwritten
      <3> QED
        BY <1>1, <3>1, <3>2, <3>3
        DEF InstanceStep, Launch, LoadChecks, LoadReads, TraceBegins, NameTaken, TraceFails,
            Binds, BindFails, AddExcludeProcess, Returns, Dies
    <2> QED
      BY <2>1, <2>2
  <1>2. CASE UserEdits
    BY <1>2 DEF UserEdits
  <1>3. CASE Remount
    BY <1>3 DEF Remount
  <1> QED
    BY <1>1, <1>2, <1>3 DEF StartupNext

(* A step keeps the order of an instance's stages, and gives a new instance a *)
(* pid that no living one has.                                               *)
LEMMA OrderStep == StartupInv /\ [StartupNext]_startupVars => InOrder' /\ PidsDistinct'
  <1> SUFFICES ASSUME StartupInv, [StartupNext]_startupVars PROVE InOrder' /\ PidsDistinct'
    OBVIOUS
  <1> USE DEF StartupInv, InOrder, PidsDistinct, Living
  <1>1. ASSUME NEW i \in Instances, InstanceStep(i) PROVE InOrder' /\ PidsDistinct'
    <2>0. life[i] \in Life /\ life \in [Instances -> Life]
      BY DEF StartupTypeOK
    <2>1. /\ \A j \in Instances : j # i => life'[j] = life[j]
          /\ life' = [life EXCEPT ![i] = life'[i]]
      BY <1>1, OneChanges
    <2>2. CASE Launch(i)
      <3>1. PICK p \in Pids \ {life[j].pid : j \in Living} :
               life' = [life EXCEPT ![i].stage = "checking", ![i].pid = p]
        BY <2>2 DEF Launch
      <3>2. /\ life'[i].pid = p /\ life'[i].stage = "checking"
            /\ life'[i].trace = life[i].trace /\ life'[i].server = life[i].server
            /\ life[i].stage = "off"
        BY <2>0, <2>2, <3>1 DEF Life, Launch
      <3>3. InOrder'
        BY <2>1, <3>1, <3>2
      <3>4. \A j \in Instances : j # i /\ life[j].stage # "off" => life[j].pid # p
        BY <3>1
      <3>5. PidsDistinct'
        BY <2>1, <3>2, <3>4
      <3> QED
        BY <3>3, <3>5
    <2>3. CASE life'[i] = Off
      BY <2>1, <2>3 DEF Off
    <2>4. CASE /\ life'[i].pid = life[i].pid
               /\ life[i].stage # "off"
               /\ life'[i].trace # "none" => life'[i].stage = "running" /\ life'[i].nanos \in Nanos
               /\ life'[i].server # "none" => life'[i].stage = "running"
      BY <2>1, <2>4
    <2>5. CASE LoadChecks(i) \/ LoadCreates(i) \/ LoadFills(i) \/ LoadReads(i)
      BY <2>0, <2>4, <2>5 DEF Life, LoadChecks, LoadCreates, LoadFills, LoadReads
    <2>6. CASE TraceBegins(i)
      BY <2>0, <2>4, <2>6 DEF Life, TraceBegins
    <2>7. CASE TraceStarts(i) \/ NameTaken(i) \/ TraceFails(i) \/ StopStale(i)
      BY <2>0, <2>4, <2>7 DEF Life, TraceStarts, NameTaken, TraceFails, StopStale
    <2>8. CASE Binds(i) \/ BindFails(i) \/ \E name \in ProcessNames : AddExcludeProcess(i, name)
      BY <2>0, <2>4, <2>8 DEF Life, Binds, BindFails, AddExcludeProcess
    <2>9. CASE Returns(i) \/ Dies(i)
      BY <2>0, <2>3, <2>9 DEF Returns, Dies
    <2> QED
      BY <1>1, <2>2, <2>5, <2>6, <2>7, <2>8, <2>9 DEF InstanceStep
  <1>2. CASE UserEdits \/ Remount \/ UNCHANGED startupVars
    BY <1>2 DEF UserEdits, Remount
  <1> QED
    BY <1>1, <1>2 DEF StartupNext

(* An instance scans before it traces, and C: stays where it is.             *)
LEMMA ScanStep == StartupInv /\ [StartupNext]_startupVars => ScannedC'
  <1> SUFFICES ASSUME StartupInv, [StartupNext]_startupVars PROVE ScannedC'
    OBVIOUS
  <1> DEFINE Found(devices) == \E m \in Mounts : /\ devices = Scan(m)
                                             /\ PositionC \in DOMAIN m /\ m[PositionC] = DeviceC
  <1>0. /\ PositionC \in DOMAIN mounted
        /\ \A j \in Instances : life[j].trace # "none" => Found(life[j].devices)
        /\ mounted \in Mounts /\ life \in [Instances -> Life]
    BY DEF StartupInv, ScannedC, StartupTypeOK
  <1>1. ASSUME UNCHANGED DeviceC, PositionC \in DOMAIN mounted',
               \A j \in Instances : life'[j].trace # "none" => Found(life'[j].devices)
        PROVE  ScannedC'
    BY <1>1 DEF ScannedC
  <1>2. ASSUME NEW i \in Instances, InstanceStep(i) PROVE ScannedC'
    <2>0. life[i] \in Life /\ life \in [Instances -> Life]
      BY <1>0
    <2>1. /\ mounted' = mounted /\ DeviceC' = DeviceC
          /\ \A j \in Instances : j # i => life'[j] = life[j]
      BY <1>2, OneChanges DEF StartupInv, DeviceC
    <2>2. CASE life'[i].trace # "none" => Found(life'[i].devices)
      BY <1>0, <1>1, <2>1, <2>2
    <2>3. CASE life'[i].devices = life[i].devices
               /\ (life'[i].trace # "none" => life[i].trace # "none")
      BY <1>0, <2>2, <2>3
    <2>4. CASE TraceBegins(i)
      <3>1. life'[i].devices = Scan(mounted)
        BY <2>0, <2>4 DEF TraceBegins, Life
      <3>2. Found(life'[i].devices)
        BY <1>0, <3>1 DEF DeviceC
      <3> QED
        BY <2>2, <3>2
    <2> HIDE DEF Found
    <2>5. CASE Launch(i) \/ LoadChecks(i) \/ LoadCreates(i) \/ LoadFills(i) \/ LoadReads(i)
      BY <2>0, <2>3, <2>5 DEF Launch, LoadChecks, LoadCreates, LoadFills, LoadReads, Life
    <2>6. CASE TraceStarts(i) \/ NameTaken(i) \/ TraceFails(i) \/ StopStale(i)
      BY <2>0, <2>3, <2>6 DEF TraceStarts, NameTaken, TraceFails, StopStale, Life
    <2>7. CASE Binds(i) \/ BindFails(i) \/ \E name \in ProcessNames : AddExcludeProcess(i, name)
      BY <2>0, <2>3, <2>7 DEF Binds, BindFails, AddExcludeProcess, Life
    <2>8. CASE Returns(i) \/ Dies(i)
      BY <2>0, <2>2, <2>8 DEF Returns, Dies, Off
    <2> QED
      BY <1>2, <2>4, <2>5, <2>6, <2>7, <2>8 DEF InstanceStep
  <1>3. CASE UserEdits \/ UNCHANGED startupVars
    BY <1>0, <1>1, <1>3 DEF UserEdits, DeviceC
  <1>4. CASE Remount
    <2>1. PositionC \in DOMAIN mounted' /\ DeviceC' = DeviceC /\ life' = life
      BY <1>4, OneC DEF Remount, DeviceC
    <2> QED
      BY <1>0, <1>1, <2>1
  <1> QED
    BY <1>2, <1>3, <1>4 DEF StartupNext

(* Two instances that have names for their sessions have different ones.     *)
LEMMA NamesDiffer ==
  ASSUME StartupInv, NEW i \in Instances, NEW j \in Instances, i # j,
         life[i].trace # "none", life[j].trace # "none"
  PROVE  SessionName(i) # SessionName(j)
  BY DEF StartupInv, InOrder, PidsDistinct, Living, SessionName

(* What a step does to the sessions: one is added or removed, whose name is  *)
(* that of an instance not tracing yet.                                      *)
LEMMA SessionStep ==
  StartupInv /\ OwnSessionKept /\ NameStaysFree /\ [StartupNext]_startupVars
      => OwnSessionKept' /\ NameStaysFree'
  <1> SUFFICES ASSUME StartupInv, OwnSessionKept, NameStaysFree, [StartupNext]_startupVars
               PROVE  OwnSessionKept' /\ NameStaysFree'
    OBVIOUS
  <1> USE DEF OwnSessionKept, NameStaysFree
  <1>1. ASSUME NEW i \in Instances, InstanceStep(i) PROVE OwnSessionKept' /\ NameStaysFree'
    <2>0. life[i] \in Life /\ life \in [Instances -> Life]
      BY DEF StartupInv, StartupTypeOK
    <2>1. \A j \in Instances : j # i => life'[j] = life[j] /\ SessionName(j)' = SessionName(j)
      <3>1. \A j \in Instances : j # i => life'[j] = life[j]
        BY <1>1, OneChanges DEF StartupInv
      <3> QED
        BY <3>1 DEF SessionName
    <2>2. CASE sessions' = sessions /\ life'[i].trace \notin {"tracing", "freed"}
      BY <2>1, <2>2
    <2>3. CASE sessions' = sessions /\ life'[i].trace = life[i].trace
               /\ life'[i].pid = life[i].pid /\ life'[i].nanos = life[i].nanos
      <3>1. SessionName(i)' = SessionName(i)
        BY <2>3 DEF SessionName
      <3> QED
        BY <2>1, <2>3, <3>1
    <2>4. CASE TraceStarts(i)
      <3>1. life'[i].trace = "tracing" /\ SessionName(i)' = SessionName(i)
        BY <2>0, <2>4 DEF TraceStarts, SessionName, Life
      <3>2. sessions' = sessions \cup {SessionName(i)} /\ life[i].trace # "none"
        BY <2>4 DEF TraceStarts
      <3>3. \A j \in Instances : j # i /\ life[j].trace = "freed" => SessionName(j) # SessionName(i)
        BY <3>2, NamesDiffer
      <3> QED
        BY <2>1, <3>1, <3>2, <3>3
    <2>5. CASE StopStale(i)
      <3>1. SessionName(i)' = SessionName(i)
        BY <2>0, <2>5 DEF StopStale, SessionName, Life
      <3>2. life[i].trace = "taken"
        BY <2>5 DEF StopStale
      <3>3. \/ life'[i].trace = "freed" /\ sessions' = sessions \ {SessionName(i)}
            \/ life'[i].trace = "kept" /\ sessions' = sessions
        BY <2>0, <2>5 DEF StopStale, Life
      <3>4. \A j \in Instances : j # i /\ life[j].trace = "tracing" => SessionName(j) # SessionName(i)
        BY <3>2, NamesDiffer
      <3> QED
        BY <2>1, <3>1, <3>3, <3>4
    <2>6. CASE TraceBegins(i) \/ NameTaken(i) \/ TraceFails(i)
      <3>1. sessions' = sessions
        BY <2>6 DEF TraceBegins, NameTaken, TraceFails
      <3>2. CASE TraceBegins(i)
        <4>1. life'[i].trace = "starting"
          BY <2>0, <3>2 DEF TraceBegins, Life
        <4> QED
          BY <2>2, <3>1, <4>1
      <3>3. CASE NameTaken(i) \/ TraceFails(i)
        <4>1. life'[i].trace \in {"taken", "failed"}
          BY <2>0, <3>3 DEF NameTaken, TraceFails, Life
        <4> QED
          BY <2>2, <3>1, <4>1
      <3> QED
        BY <2>6, <3>2, <3>3
    <2>7. CASE LoadChecks(i) \/ LoadCreates(i) \/ LoadFills(i) \/ LoadReads(i)
      BY <2>0, <2>3, <2>7 DEF LoadChecks, LoadCreates, LoadFills, LoadReads, Life
    <2>8. CASE Binds(i) \/ BindFails(i) \/ \E name \in ProcessNames : AddExcludeProcess(i, name)
      BY <2>0, <2>3, <2>8 DEF Binds, BindFails, AddExcludeProcess, Life
    <2>9. CASE Launch(i)
      <3>1. life[i].trace = "none"
        BY <2>9 DEF Launch, Living, StartupInv, InOrder
      <3> QED
        BY <2>0, <2>2, <2>9, <3>1 DEF Launch, Life
    <2>10. CASE Returns(i) \/ Dies(i)
      BY <2>0, <2>2, <2>10 DEF Returns, Dies, Off
    <2> QED
      BY <1>1, <2>4, <2>5, <2>6, <2>7, <2>8, <2>9, <2>10 DEF InstanceStep
  <1>2. CASE UserEdits \/ Remount \/ UNCHANGED startupVars
    BY <1>2 DEF UserEdits, Remount, SessionName
  <1> QED
    BY <1>1, <1>2 DEF StartupNext

(* An empty file reads as the default one: an absent section has all its     *)
(* defaults.                                                                 *)
LEMMA EmptyIsDefault == Parsed(EmptyText) = Parsed(DefaultText)
  <1>1. \A k : Get(EmptyText, k, DefaultPort) = DefaultPort
            /\ Get(EmptyText, k, {DriveC}) = {DriveC}
            /\ Get(EmptyText, k, DefaultExcluded) = DefaultExcluded
            /\ k \notin DOMAIN EmptyText
    BY DEF Get, EmptyText
  <1>2. Parsed(EmptyText) = [port |-> DefaultPort, drives |-> {DriveC}, excluded |-> DefaultExcluded]
    BY <1>1 DEF Parsed
  <1>3. /\ Get(DefaultText, "port", DefaultPort) = DefaultPort
        /\ Get(DefaultText, "drives", {DriveC}) = {DriveC}
        /\ \A default : Get(DefaultText, "excluded", default) = DefaultExcluded
    BY DEF Get, DefaultText
  <1> QED
    BY <1>2, <1>3 DEF Parsed

(* An instance runs with what it read, which is never half a file.           *)
LEMMA ConfigStep ==
  StartupInv /\ ConfigWhole /\ [StartupNext]_startupVars => ConfigWhole'
  <1> SUFFICES ASSUME StartupInv, ConfigWhole, [StartupNext]_startupVars PROVE ConfigWhole'
    OBVIOUS
  <1> DEFINE Whole(config) == \E text \in UserTexts \cup {DefaultText} :
                                 Readable(text) /\ config = Parsed(text)
  <1>0. ConfigWhole = \A j \in Instances : life[j].stage = "running" => Whole(life[j].config)
    BY DEF ConfigWhole
  <1>1. ASSUME NEW i \in Instances, InstanceStep(i) PROVE ConfigWhole'
    <2>0. life[i] \in Life /\ life \in [Instances -> Life]
      BY DEF StartupInv, StartupTypeOK
    <2>1. \A j \in Instances : j # i => life'[j] = life[j]
      BY <1>1, OneChanges DEF StartupInv
    <2>2. CASE life'[i].stage = "running" => life[i].stage = "running"
                                             /\ life'[i].config = life[i].config
      BY <2>1, <2>2 DEF ConfigWhole
    <2>3. CASE LoadReads(i)
      <3>1. life'[i].config = Parsed(file) /\ Readable(file)
        BY <2>0, <2>3 DEF LoadReads, Life
      <3>2. file \in UserTexts \cup {EmptyText, DefaultText}
        BY <3>1 DEF StartupInv, StartupTypeOK, Readable
      <3>3. Readable(DefaultText)
        <4>1. /\ "missing" \in DOMAIN Missing /\ "missing" \notin DOMAIN DefaultText
              /\ "invalid" \in DOMAIN Garbled /\ "invalid" \notin DOMAIN DefaultText
          BY DEF Missing, Garbled, DefaultText
        <4> QED
          BY <4>1 DEF Readable
      <3>4. Whole(life'[i].config)
        BY <3>1, <3>2, <3>3, EmptyIsDefault
      <3> QED
        BY <2>1, <3>4 DEF ConfigWhole
    <2>4. CASE Launch(i) \/ LoadChecks(i) \/ LoadCreates(i) \/ LoadFills(i)
      BY <2>0, <2>2, <2>4 DEF Launch, LoadChecks, LoadCreates, LoadFills, Life
    <2>5. CASE TraceBegins(i)
      BY <2>0, <2>2, <2>5 DEF TraceBegins, Life
    <2>6. CASE TraceStarts(i) \/ NameTaken(i) \/ TraceFails(i) \/ StopStale(i)
      BY <2>0, <2>2, <2>6 DEF TraceStarts, NameTaken, TraceFails, StopStale, Life
    <2>7. CASE Binds(i) \/ BindFails(i) \/ \E name \in ProcessNames : AddExcludeProcess(i, name)
      BY <2>0, <2>2, <2>7 DEF Binds, BindFails, AddExcludeProcess, Life
    <2>8. CASE Returns(i) \/ Dies(i)
      BY <2>0, <2>2, <2>8 DEF Returns, Dies, Off
    <2> QED
      BY <1>1, <2>3, <2>4, <2>5, <2>6, <2>7, <2>8 DEF InstanceStep
  <1>2. CASE UserEdits \/ Remount \/ UNCHANGED startupVars
    BY <1>2 DEF UserEdits, Remount, ConfigWhole
  <1> QED
    BY <1>1, <1>2 DEF StartupNext

-----------------------------------------------------------------------------
(* The device map and what the callback makes of a path. *)

(* A bounded set of numbers has a greatest one. *)
LEMMA GreatestExists ==
  ASSUME NEW n \in Nat, NEW S \in SUBSET (0 .. n), S # {}
  PROVE  \E x \in S : \A y \in S : x >= y
  <1> DEFINE T == {n - x : x \in S}
  <1>1. T \in SUBSET Nat /\ T # {}
    <2>1. \A x \in S : n - x \in Nat
      OBVIOUS
    <2> QED
      BY <2>1
  <1>2. PICK t \in T : \A u \in T : ~(<<u, t>> \in OpToRel(<, Nat))
    <2> HIDE DEF T
    <2> QED
      BY <1>1, NatLessThanWellFounded, WFMin
  <1>3. \A u \in T : ~(u < t)
    <2> HIDE DEF T
    <2> QED
      BY <1>1, <1>2 DEF OpToRel
  <1>4. PICK x \in S : t = n - x
    BY <1>2
  <1>5. ASSUME NEW y \in S PROVE x >= y
    <2>1. ~(n - y < n - x)
      BY <1>3, <1>4
    <2> QED
      BY <2>1
  <1> QED
    BY <1>5

(* Max takes one of the greatest. *)
LEMMA MaxIsGreatest ==
  ASSUME NEW n \in Nat, NEW S \in SUBSET (0 .. n), S # {}
  PROVE  Max(S) \in S /\ \A y \in S : Max(S) >= y
  BY GreatestExists DEF Max

(* A device that the scan gave the letter C: is the one behind C:. *)
LEMMA ScanFindsC ==
  ASSUME NEW m \in Mounts, NEW d \in DOMAIN Scan(m)
  PROVE  /\ d \in Devices
         /\ Scan(m)[d] \in Pieces
         /\ Scan(m)[d] = DriveC => PositionC \in DOMAIN m /\ m[PositionC] = d
  <1> DEFINE K == {k \in DOMAIN m : m[k] = d}
  <1>1. DOMAIN m \subseteq DOMAIN Letters /\ \A k \in DOMAIN m : m[k] \in Devices
    BY DEF Mounts
  <1>2. d \in {m[k] : k \in DOMAIN m} /\ Scan(m)[d] = Letters[Max(K)]
    BY DEF Scan
  <1>3. DOMAIN Letters = 1 .. Len(Letters) /\ Len(Letters) \in Nat
    BY LetterAssumption
  <1>4. K # {} /\ K \in SUBSET (0 .. Len(Letters))
    BY <1>1, <1>2, <1>3
  <1>5. Max(K) \in K
    <2> HIDE DEF K
    <2> QED
      BY <1>3, <1>4, MaxIsGreatest
  <1>6. Max(K) \in DOMAIN m /\ m[Max(K)] = d
    BY <1>5
  <1> HIDE DEF K
  <1>7. Letters[Max(K)] \in Pieces
    BY <1>1, <1>6, LetterAssumption
  <1> QED
    BY <1>1, <1>2, <1>6, <1>7, OneC

(* The device behind C: is in the scan. *)
LEMMA ScanHasC ==
  ASSUME NEW m \in Mounts, PositionC \in DOMAIN m
  PROVE  m[PositionC] \in DOMAIN Scan(m) /\ m[PositionC] \in Devices
  BY DEF Scan, Mounts

(* What is left of a path after a device name, put after it, is the path. *)
LEMMA PrefixFacts ==
  ASSUME NEW d \in Seq(Pieces), NEW path \in Seq(Pieces), IsPrefix(d, path)
  PROVE  /\ Len(d) <= Len(path)
         /\ \A k \in 1 .. Len(d) : d[k] = path[k]
         /\ path = d \o SubSeq(path, Len(d) + 1, Len(path))
         /\ SubSeq(path, Len(d) + 1, Len(path)) \in Seq(Pieces)
  <1>1. Len(d) <= Len(path) /\ SubSeq(d, 1, Len(d)) = SubSeq(path, 1, Len(d))
    BY DEF IsPrefix
  <1>2. \A k \in 1 .. Len(d) : d[k] = path[k]
    <2>1. \A k \in 1 .. Len(d) : SubSeq(d, 1, Len(d))[k] = d[k] /\ SubSeq(path, 1, Len(d))[k] = path[k]
      BY <1>1
    <2> QED
      BY <1>1, <2>1
  <1> DEFINE rest == SubSeq(path, Len(d) + 1, Len(path))
             whole == d \o rest
  <1>3. rest \in Seq(Pieces) /\ Len(rest) = Len(path) - Len(d)
        /\ \A k \in 1 .. Len(rest) : rest[k] = path[Len(d) + k]
    BY <1>1
  <1> HIDE DEF rest
  <1>4. whole \in Seq(Pieces) /\ Len(whole) = Len(path)
        /\ \A k \in 1 .. Len(path) : whole[k] = IF k <= Len(d) THEN d[k] ELSE rest[k - Len(d)]
    BY <1>1, <1>3
  <1>5. \A k \in 1 .. Len(path) : whole[k] = path[k]
    BY <1>1, <1>2, <1>3, <1>4
  <1> HIDE DEF whole
  <1>6. whole = path
    BY <1>4, <1>5
  <1> QED
    BY <1>1, <1>2, <1>3, <1>6 DEF whole, rest

(* A prefix is told by its elements. *)
LEMMA PrefixByElements ==
  ASSUME NEW d \in Seq(Pieces), NEW path \in Seq(Pieces), Len(d) <= Len(path),
         \A k \in 1 .. Len(d) : d[k] = path[k]
  PROVE  IsPrefix(d, path)
  <1>1. SubSeq(d, 1, Len(d)) \in Seq(Pieces) /\ SubSeq(path, 1, Len(d)) \in Seq(Pieces)
    OBVIOUS
  <1>2. Len(SubSeq(d, 1, Len(d))) = Len(d) /\ Len(SubSeq(path, 1, Len(d))) = Len(d)
    OBVIOUS
  <1>3. \A k \in 1 .. Len(d) : SubSeq(d, 1, Len(d))[k] = SubSeq(path, 1, Len(d))[k]
    OBVIOUS
  <1>4. SubSeq(d, 1, Len(d)) = SubSeq(path, 1, Len(d))
    BY <1>1, <1>2, <1>3
  <1> QED
    BY <1>4 DEF IsPrefix

(* The second of a path on a drive is the separator after the letter. *)
LEMMA OnDriveFacts ==
  ASSUME NEW path \in Seq(Pieces)
  PROVE  OnDrive(path) <=> Len(path) >= 2 /\ path[1] = DriveC /\ path[2] = Separator
  <1> DEFINE root == <<DriveC, Separator>>
  <1>0. DriveC \in Pieces /\ Separator \in Pieces
    <2>1. \A k \in DOMAIN Letters : Letters[k] \in Pieces
      BY LetterAssumption
    <2>2. DriveC \in Pieces
      BY <2>1, OneC
    <2> QED
      BY <2>2, LetterAssumption
  <1>1. root \in Seq(Pieces) /\ Len(root) = 2 /\ root[1] = DriveC /\ root[2] = Separator
    BY <1>0
  <1> HIDE DEF root
  <1>2. OnDrive(path) <=> IsPrefix(root, path)
    BY DEF OnDrive, root
  <1>3. IsPrefix(root, path) => Len(path) >= 2 /\ path[1] = DriveC /\ path[2] = Separator
    <2> SUFFICES ASSUME IsPrefix(root, path)
                 PROVE  Len(path) >= 2 /\ path[1] = DriveC /\ path[2] = Separator
      OBVIOUS
    <2>1. Len(root) <= Len(path) /\ \A k \in 1 .. Len(root) : root[k] = path[k]
      BY <1>1, PrefixFacts
    <2> QED
      BY <1>1, <2>1
  <1>4. Len(path) >= 2 /\ path[1] = DriveC /\ path[2] = Separator => IsPrefix(root, path)
    <2> SUFFICES ASSUME Len(path) >= 2, path[1] = DriveC, path[2] = Separator
                 PROVE  IsPrefix(root, path)
      OBVIOUS
    <2>1. \A k \in 1 .. Len(root) : root[k] = path[k]
      BY <1>1
    <2> QED
      BY <1>1, <2>1, PrefixByElements
  <1> QED
    BY <1>2, <1>3, <1>4

(* Of the scanned devices whose names begin a path, if any, one has the *)
(* longest name. *)
LEMMA BestFacts ==
  ASSUME NEW m \in Mounts, NEW path \in Seq(Pieces)
  PROVE  /\ \A d \in Best(Scan(m), path) :
               /\ d \in DOMAIN Scan(m) /\ d \in Seq(Pieces) /\ IsPrefix(d, path)
               /\ \A x \in DOMAIN Scan(m) : IsPrefix(x, path) => Len(x) <= Len(d)
         /\ (\E d \in DOMAIN Scan(m) : IsPrefix(d, path)) => Best(Scan(m), path) # {}
  <1> DEFINE matching == {d \in DOMAIN Scan(m) : IsPrefix(d, path)}
             lengths == {Len(d) : d \in matching}
  <1>1. \A d \in DOMAIN Scan(m) : d \in Seq(Pieces)
    BY ScanFindsC, DeviceAssumption
  <1>2. \A d \in matching : Len(d) \in 0 .. Len(path)
    <2>1. \A d \in matching : d \in Seq(Pieces) /\ Len(d) <= Len(path)
      BY <1>1 DEF IsPrefix
    <2> QED
      BY <2>1
  <1>3. Best(Scan(m), path) = {d \in matching : \A x \in matching : Len(x) <= Len(d)}
    BY DEF Best
  <1>4. ASSUME matching # {}
        PROVE  \E d \in matching : \A x \in matching : Len(x) <= Len(d)
    <2>0. \A n \in lengths : n \in 0 .. Len(path)
      <3> HIDE DEF matching
      <3> QED
        BY <1>2
    <2>1. lengths \in SUBSET (0 .. Len(path)) /\ lengths # {} /\ Len(path) \in Nat
      <3>1. lengths # {}
        BY <1>4
      <3> HIDE DEF lengths
      <3> QED
        BY <2>0, <3>1
    <2>2. PICK n \in lengths : \A y \in lengths : n >= y
      <3> HIDE DEF lengths
      <3> QED
        BY <2>1, GreatestExists
    <2>3. PICK d \in matching : n = Len(d)
      BY <2>2
    <2>4. \A x \in matching : Len(x) <= Len(d)
      <3>1. \A x \in matching : n >= Len(x)
        BY <2>2
      <3> HIDE DEF matching
      <3> QED
        BY <1>2, <2>3, <3>1
    <2> QED
      BY <2>4
  <1> QED
    BY <1>1, <1>3, <1>4

(* The path that the callback asks about and sends. *)
LEMMA PathFacts ==
  ASSUME NEW m \in Mounts, NEW path \in Seq(Pieces)
  PROVE  \/ Best(Scan(m), path) = {} /\ NtToDos(Scan(m), path) = path
         \/ \E d \in Best(Scan(m), path) :
               LET rest == SubSeq(path, Len(d) + 1, Len(path))
               IN  /\ path = d \o rest /\ rest \in Seq(Pieces)
                   /\ NtToDos(Scan(m), path) \in Seq(Pieces)
                   /\ NtToDos(Scan(m), path) # <<>>
                   /\ Head(NtToDos(Scan(m), path)) = Scan(m)[d]
                   /\ Tail(NtToDos(Scan(m), path)) = rest
  <1>1. CASE Best(Scan(m), path) = {}
    BY <1>1 DEF NtToDos
  <1>2. CASE Best(Scan(m), path) # {}
    <2> DEFINE d == CHOOSE x \in Best(Scan(m), path) : TRUE
               rest == SubSeq(path, Len(d) + 1, Len(path))
               letter == Scan(m)[d]
    <2>1. d \in Best(Scan(m), path)
      BY <1>2
    <2>2. NtToDos(Scan(m), path) = <<letter>> \o rest
      BY <1>2 DEF NtToDos
    <2> HIDE DEF d
    <2>3. d \in DOMAIN Scan(m) /\ d \in Seq(Pieces) /\ IsPrefix(d, path)
      BY <2>1, BestFacts
    <2>4. path = d \o rest /\ rest \in Seq(Pieces)
      BY <2>3, PrefixFacts
    <2>5. letter \in Pieces
      BY <2>3, ScanFindsC
    <2> HIDE DEF letter, rest
    <2>6. <<letter>> \o rest \in Seq(Pieces) /\ <<letter>> \o rest # <<>>
          /\ Head(<<letter>> \o rest) = letter /\ Tail(<<letter>> \o rest) = rest
      BY <2>4, <2>5
    <2> QED
      BY <2>1, <2>2, <2>4, <2>6 DEF letter, rest
  <1> QED
    BY <1>1, <1>2

(* What is sent for a record, as a path. *)
LEMMA SentFacts ==
  ASSUME NEW map, NEW r, NEW e \in EventOf(map, r)
  PROVE  e.file = NtToDos(map, r.path) /\ OnDrive(NtToDos(map, r.path))
  BY DEF EventOf

(* An instance that traces has scanned, and found C: where it is. *)
LEMMA TracingScanned ==
  ASSUME StartupInv, NEW i \in Tracing
  PROVE  \E m \in Mounts : /\ life[i].devices = Scan(m)
                          /\ PositionC \in DOMAIN m /\ m[PositionC] = DeviceC
  BY DEF Tracing, StartupInv, ScannedC

(* A path that begins with a device and goes on with the separator. *)
LEMMA BelowDevice ==
  ASSUME NEW d \in Seq(Pieces), NEW path \in Seq(Pieces)
  PROVE  IsPrefix(Append(d, Separator), path)
            <=> IsPrefix(d, path) /\ Len(path) > Len(d) /\ path[Len(d) + 1] = Separator
  <1> DEFINE below == Append(d, Separator)
  <1>1. /\ below \in Seq(Pieces) /\ Len(below) = Len(d) + 1 /\ below[Len(d) + 1] = Separator
        /\ \A k \in 1 .. Len(d) : below[k] = d[k]
    BY LetterAssumption
  <1> HIDE DEF below
  <1>2. IsPrefix(below, path)
           => IsPrefix(d, path) /\ Len(path) > Len(d) /\ path[Len(d) + 1] = Separator
    <2> SUFFICES ASSUME IsPrefix(below, path)
                 PROVE  IsPrefix(d, path) /\ Len(path) > Len(d) /\ path[Len(d) + 1] = Separator
      OBVIOUS
    <2>1. Len(below) <= Len(path) /\ \A k \in 1 .. Len(below) : below[k] = path[k]
      BY <1>1, PrefixFacts
    <2>2. Len(d) <= Len(path) /\ \A k \in 1 .. Len(d) : d[k] = path[k]
      BY <1>1, <2>1
    <2>3. IsPrefix(d, path)
      BY <2>2, PrefixByElements
    <2> QED
      BY <1>1, <2>1, <2>3
  <1>3. IsPrefix(d, path) /\ Len(path) > Len(d) /\ path[Len(d) + 1] = Separator
           => IsPrefix(below, path)
    <2> SUFFICES ASSUME IsPrefix(d, path), Len(path) > Len(d), path[Len(d) + 1] = Separator
                 PROVE  IsPrefix(below, path)
      OBVIOUS
    <2>1. \A k \in 1 .. Len(d) : d[k] = path[k]
      BY PrefixFacts
    <2>2. Len(below) <= Len(path) /\ \A k \in 1 .. Len(below) : below[k] = path[k]
      BY <1>1, <2>1
    <2> QED
      BY <1>1, <2>2, PrefixByElements
  <1> QED
    BY <1>2, <1>3 DEF below

(* What is sent as a path on C: is one on the device behind C:. *)
LEMMA OnlyC ==
  ASSUME StartupInv, NEW i \in Tracing, NEW r \in Records,
         NEW e \in EventOf(life[i].devices, r)
  PROVE  OfDriveC(r) /\ r.path = DeviceC \o Tail(e.file)
  <1>1. PICK m \in Mounts : /\ life[i].devices = Scan(m)
                          /\ PositionC \in DOMAIN m /\ m[PositionC] = DeviceC
    BY TracingScanned
  <1> DEFINE sent == NtToDos(Scan(m), r.path)
  <1>2. e.file = sent /\ OnDrive(sent)
    BY <1>1, SentFacts
  <1>3. r.path \in Seq(Pieces) /\ ~OnDrive(r.path)
    BY RecordAssumption
  <1>4. PICK d \in Best(Scan(m), r.path) :
               LET rest == SubSeq(r.path, Len(d) + 1, Len(r.path))
               IN  /\ r.path = d \o rest /\ rest \in Seq(Pieces)
                   /\ sent \in Seq(Pieces) /\ sent # <<>>
                   /\ Head(sent) = Scan(m)[d] /\ Tail(sent) = rest
    BY <1>2, <1>3, PathFacts
  <1> HIDE DEF sent
  <1>5. d \in DOMAIN Scan(m) /\ d \in Seq(Pieces) /\ IsPrefix(d, r.path)
    BY <1>3, BestFacts
  <1>6. Len(sent) >= 2 /\ sent[1] = DriveC /\ sent[2] = Separator
    BY <1>2, <1>4, OnDriveFacts
  <1>7. d = DeviceC
    <2>1. Scan(m)[d] = DriveC
      BY <1>4, <1>6
    <2> QED
      BY <1>1, <1>5, <2>1, ScanFindsC
  <1> DEFINE rest == SubSeq(r.path, Len(d) + 1, Len(r.path))
  <1>8. r.path = d \o rest /\ rest \in Seq(Pieces) /\ Tail(sent) = rest
    BY <1>4
  <1> HIDE DEF rest
  <1>9. Len(rest) >= 1 /\ rest[1] = Separator
    <2>1. sent \in Seq(Pieces) /\ sent # <<>>
      BY <1>4
    <2>2. Len(Tail(sent)) = Len(sent) - 1 /\ Tail(sent)[1] = sent[2]
      BY <1>6, <2>1
    <2> QED
      BY <1>6, <1>8, <2>1, <2>2
  <1>10. Len(r.path) > Len(d) /\ r.path[Len(d) + 1] = Separator
    BY <1>5, <1>8, <1>9
  <1>11. IsPrefix(Append(d, Separator), r.path)
    BY <1>3, <1>5, <1>10, BelowDevice
  <1> QED
    BY <1>2, <1>7, <1>8, <1>11 DEF OfDriveC

(* A longer device name that begins a path on C: would lie inside of C:'s. *)
LEMMA SeesC ==
  ASSUME StartupInv, NEW i \in Tracing, NEW r \in Records,
         OfDriveC(r), r.pid # 0, r.kind \in Watched, life[i].devices[DeviceC] = DriveC
  PROVE  EventOf(life[i].devices, r) # {}
  <1>1. PICK m \in Mounts : /\ life[i].devices = Scan(m)
                          /\ PositionC \in DOMAIN m /\ m[PositionC] = DeviceC
    BY TracingScanned
  <1> DEFINE sent == NtToDos(Scan(m), r.path)
             c == DeviceC
  <1>2. c \in DOMAIN Scan(m) /\ c \in Devices /\ c \in Seq(Pieces)
    BY <1>1, ScanHasC, DeviceAssumption
  <1>3. r.path \in Seq(Pieces)
    BY RecordAssumption
  <1>4. /\ IsPrefix(Append(c, Separator), r.path)
        /\ IsPrefix(c, r.path) /\ Len(r.path) > Len(c) /\ r.path[Len(c) + 1] = Separator
    BY <1>2, <1>3, BelowDevice DEF OfDriveC
  <1>5. Best(Scan(m), r.path) # {}
    BY <1>2, <1>3, <1>4, BestFacts
  <1>6. PICK d \in Best(Scan(m), r.path) :
               LET rest == SubSeq(r.path, Len(d) + 1, Len(r.path))
               IN  /\ r.path = d \o rest /\ rest \in Seq(Pieces)
                   /\ sent \in Seq(Pieces) /\ sent # <<>>
                   /\ Head(sent) = Scan(m)[d] /\ Tail(sent) = rest
    BY <1>3, <1>5, PathFacts
  <1> HIDE DEF sent, c
  <1>7. d \in DOMAIN Scan(m) /\ d \in Seq(Pieces) /\ IsPrefix(d, r.path) /\ Len(c) <= Len(d)
    BY <1>2, <1>3, <1>4, BestFacts
  <1>8. d \in Devices
    BY <1>7, ScanFindsC
  <1>9. Len(d) = Len(c)
    <2> SUFFICES ASSUME Len(d) > Len(c) PROVE FALSE
      BY <1>2, <1>7
    <2>1. Len(d) <= Len(r.path) /\ \A k \in 1 .. Len(d) : d[k] = r.path[k]
      BY <1>3, <1>7, PrefixFacts
    <2>2. Len(c) <= Len(r.path) /\ \A k \in 1 .. Len(c) : c[k] = r.path[k]
      BY <1>2, <1>3, <1>4, PrefixFacts
    <2>3. \A k \in 1 .. Len(c) : c[k] = d[k]
      BY <1>2, <1>7, <2>1, <2>2
    <2>4. d[Len(c) + 1] = Separator
      BY <1>2, <1>4, <1>7, <2>1
    <2>5. IsPrefix(c, d)
      BY <1>2, <1>7, <2>3, PrefixByElements
    <2>6. IsPrefix(Append(c, Separator), d)
      BY <1>2, <1>7, <2>4, <2>5, BelowDevice
    <2> QED
      BY <1>2, <1>8, <2>6, DeviceAssumption
  <1>10. d = c
    <2>1. \A k \in 1 .. Len(d) : d[k] = r.path[k]
      BY <1>3, <1>7, PrefixFacts
    <2>2. \A k \in 1 .. Len(c) : c[k] = r.path[k]
      BY <1>2, <1>3, <1>4, PrefixFacts
    <2> QED
      BY <1>2, <1>7, <1>9, <2>1, <2>2
  <1> DEFINE rest == SubSeq(r.path, Len(d) + 1, Len(r.path))
  <1>11. r.path = d \o rest /\ rest \in Seq(Pieces) /\ Tail(sent) = rest
    BY <1>6
  <1>12. Head(sent) = DriveC
    BY <1>1, <1>6, <1>10 DEF c
  <1> HIDE DEF rest
  <1>13. Len(rest) >= 1 /\ rest[1] = Separator
    BY <1>4, <1>7, <1>10, <1>11
  <1>14. Len(sent) >= 2 /\ sent[1] = DriveC /\ sent[2] = Separator
    <2>1. sent \in Seq(Pieces) /\ sent # <<>> /\ Tail(sent) = rest
      BY <1>6, <1>11
    <2>2. sent[1] = Head(sent) /\ Len(Tail(sent)) = Len(sent) - 1 /\ Tail(sent)[1] = sent[2]
      BY <1>13, <2>1
    <2> QED
      BY <1>12, <1>13, <2>1, <2>2
  <1>15. OnDrive(sent)
    BY <1>6, <1>14, OnDriveFacts
  <1>16. r.path # <<>>
    BY <1>2, <1>4
  <1> QED
    BY <1>1, <1>15, <1>16 DEF EventOf, sent

-----------------------------------------------------------------------------
(* Where each instance is in Config::load and start_trace, whose pid it has  *)
(* and what it has scanned.                                                  *)
THEOREM StartupInvariant == StartupSpec => []StartupInv
  <1>1. StartupInv /\ [StartupNext]_startupVars => StartupInv'
    BY TypeStep, OrderStep, ScanStep DEF StartupInv
  <1> QED
    BY <1>1, InitInv, PTL DEF StartupSpec

(* Sessions and free names are kept together: see SessionStep. *)
LEMMA SessionsInvariant == StartupSpec => [](OwnSessionKept /\ NameStaysFree)
  <1>1. StartupInv /\ (OwnSessionKept /\ NameStaysFree) /\ [StartupNext]_startupVars
            => (OwnSessionKept /\ NameStaysFree)'
    BY SessionStep
  <1> QED
    BY <1>1, InitInv, StartupInvariant, PTL DEF StartupSpec

(* However many instances start, retry and die, whatever pids come again: no *)
(* start takes a running instance's session away.                            *)
THEOREM SessionsApart == StartupSpec => []OwnSessionKept
  BY SessionsInvariant, PTL

(* A name freed by stopping the stale session stays free for the retry,      *)
(* whatever other instances start in the pause.                              *)
THEOREM FreedNamesFree == StartupSpec => []NameStaysFree
  BY SessionsInvariant, PTL

(* Every instance that runs has read a whole configuration.                  *)
THEOREM ConfigsWhole == StartupSpec => []ConfigWhole
  BY ConfigStep, InitInv, StartupInvariant, PTL DEF StartupSpec

(* Whatever devices there are and whatever is mounted since the scan, what   *)
(* an instance reports is on C:, under the path it has there.                *)
THEOREM OnlyDriveCReported == StartupSpec => []OnlyDriveC
  <1>1. StartupInv => OnlyDriveC
    BY OnlyC DEF OnlyDriveC
  <1> QED
    BY <1>1, StartupInvariant, PTL

(* A write, close, change or deletion on C: is reported, unless a later      *)
(* letter stood for C:'s device in the scan.                                 *)
THEOREM DriveCReported == StartupSpec => []DriveCSeen
  <1>1. StartupInv => DriveCSeen
    BY SeesC DEF DriveCSeen
  <1> QED
    BY <1>1, StartupInvariant, PTL
=============================================================================
