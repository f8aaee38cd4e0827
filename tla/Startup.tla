------------------------------- MODULE Startup -------------------------------
(***************************************************************************)
(* Running instances of DiskSpy on one machine: what each of them does     *)
(* before and beside its pipeline, and what they share.                    *)
(*                                                                         *)
(* Shared are config.toml, the trace sessions of the kernel, which outlive *)
(* the process that started them, the dashboard port and the volumes.      *)
(* Config::load looks for the file, creates it and fills it in separate    *)
(* steps; start_trace retries on a taken name.  An instance may be killed  *)
(* between any two steps.                                                  *)
(***************************************************************************)
EXTENDS Devices

CONSTANTS
    Instances,
    Pids,           \* ids the system gives to processes, again after they end
    Nanos,          \* values of subsec_nanos
    UserTexts,      \* what the user may write into config.toml
    DefaultPort,
    DefaultExcluded,
    ProcessNames,   \* what may be posted to exclude-process
    Records         \* the kernel's records the callback may see

(***************************************************************************)
(* A text of config.toml is a function on the keys it contains; "watch" is *)
(* the heading of its section; one text stands for all that do not parse.  *)
(***************************************************************************)
EmptyText == [k \in {} |-> k]
Missing == [k \in {"missing"} |-> TRUE]

DefaultText ==
    [watch |-> TRUE, port |-> DefaultPort, drives |-> {DriveC}, excluded |-> DefaultExcluded]

Garbled == [k \in {"invalid"} |-> TRUE]

FileTexts == UserTexts \cup {EmptyText, Missing, DefaultText, Garbled}

ASSUME StartupAssumption == 0 \notin Pids

\* Of Windows: the kernel names files by device, never by letter.
ASSUME RecordAssumption ==
    \A r \in Records : r.path \in Seq(Pieces) /\ ~OnDrive(r.path)

VARIABLES
    file,       \* config.toml
    sessions,   \* the names of the trace sessions that run
    mounted,    \* the device behind each letter
    life        \* per instance, where it is and what it holds

startupVars == <<file, sessions, mounted, life>>

Get(text, key, default) == IF key \in DOMAIN text THEN text[key] ELSE default

\* Mutant: a section that is absent is read as an empty one.
ParsedEmpty(text) ==
    [port |-> Get(text, "port", DefaultPort),
     drives |-> Get(text, "drives", {DriveC}),
     excluded |-> Get(text, "excluded", {})]

\* toml::from_str with the defaults of the keys, and of the section as a whole.
Parsed(text) ==
    [port |-> Get(text, "port", DefaultPort),
     drives |-> Get(text, "drives", {DriveC}),
     excluded |-> Get(text, "excluded",
                      IF "watch" \in DOMAIN text THEN {} ELSE DefaultExcluded)]

Defaults == Parsed(DefaultText)

Readable(text) == text \notin {Missing, Garbled}

Off == [stage |-> "off", pid |-> 0, nanos |-> 0, config |-> Defaults, added |-> {},
        devices |-> EmptyText, trace |-> "none", server |-> "none"]

Living == {i \in Instances : life[i].stage # "off"}

Life ==
    [stage : {"off", "checking", "creating", "filling", "reading", "running"},
     pid : Pids \cup {0},
     nanos : Nanos \cup {0},
     config : {Parsed(text) : text \in FileTexts},
     added : SUBSET ProcessNames,
     devices : {Scan(m) : m \in Mounts} \cup {EmptyText},
     trace : {"none", "starting", "taken", "freed", "kept", "tracing", "failed"},
     server : {"none", "serving", "failed"}]

StartupTypeOK ==
    /\ file \in FileTexts
    /\ sessions \subseteq Pids \X Nanos
    /\ mounted \in Mounts
    /\ life \in [Instances -> Life]

StartupInit ==
    /\ file = Missing
    /\ sessions = {}
    /\ mounted \in {m \in Mounts : \E k \in DOMAIN m : Letters[k] = DriveC}
    /\ life = [i \in Instances |-> Off]

-----------------------------------------------------------------------------
(* Config::load.                                                           *)

\* An elevated instance is started; another one exits before it does anything.
Launch(i) ==
    /\ i \notin Living
    /\ \E p \in Pids \ {life[j].pid : j \in Living} :
          life' = [life EXCEPT ![i].stage = "checking", ![i].pid = p]
    /\ UNCHANGED <<file, sessions, mounted>>

LoadChecks(i) ==
    /\ life[i].stage = "checking"
    /\ life' = [life EXCEPT ![i].stage = IF file = Missing THEN "creating" ELSE "reading"]
    /\ UNCHANGED <<file, sessions, mounted>>

\* std::fs::write truncates the file, whatever it has become since the check ...
LoadCreates(i) ==
    /\ life[i].stage = "creating"
    /\ life' = [life EXCEPT ![i].stage = "filling"]
    /\ file' = EmptyText
    /\ UNCHANGED <<sessions, mounted>>

\* What becomes of a file when the text is written to it, or to one it has replaced
\* since: a longer text keeps its end.  (What is mixed so is taken not to parse.)
Overwritten(text) ==
    CASE text = Missing   -> {Missing}
      [] text = EmptyText -> {EmptyText, DefaultText}
      [] OTHER            -> {text, DefaultText, Garbled}

\* ... and then writes the text.
LoadFills(i) ==
    /\ life[i].stage = "filling"
    /\ life' = [life EXCEPT ![i].stage = "reading"]
    /\ file' \in Overwritten(file)
    /\ UNCHANGED <<sessions, mounted>>

LoadReads(i) ==
    /\ life[i].stage = "reading"
    /\ Readable(file)
    /\ life' = [life EXCEPT ![i].stage = "running", ![i].config = Parsed(file)]
    /\ UNCHANGED <<file, sessions, mounted>>

-----------------------------------------------------------------------------
(* The ETW thread: start_trace.                                            *)

\* Mutant: a name is told from others by the time alone.
SessionNameTimed(i) == <<CHOOSE p \in Pids : TRUE, life[i].nanos>>

SessionName(i) == <<life[i].pid, life[i].nanos>>

\* Mutant: main does so before it has read the configuration.
TraceBeginsEarly(i) ==
    /\ i \in Living
    /\ life[i].trace = "none"
    /\ \E n \in Nanos :
          life' = [life EXCEPT ![i].trace = "starting", ![i].nanos = n,
                               ![i].devices = Scan(mounted)]
    /\ UNCHANGED <<file, sessions, mounted>>

\* main scans the devices and spawns the thread, which makes up its name.
TraceBegins(i) ==
    /\ life[i].stage = "running"
    /\ life[i].trace = "none"
    /\ \E n \in Nanos :
          life' = [life EXCEPT ![i].trace = "starting", ![i].nanos = n,
                               ![i].devices = Scan(mounted)]
    /\ UNCHANGED <<file, sessions, mounted>>

\* try_start, the first time or again: the name must be free.
TraceStarts(i) ==
    /\ life[i].trace \in {"starting", "freed", "kept"}
    /\ SessionName(i) \notin sessions
    /\ sessions' = sessions \cup {SessionName(i)}
    /\ life' = [life EXCEPT ![i].trace = "tracing"]
    /\ UNCHANGED <<file, mounted>>

NameTaken(i) ==
    /\ life[i].trace \in {"starting", "freed", "kept"}
    /\ SessionName(i) \in sessions
    /\ life' = [life EXCEPT ![i].trace = IF @ = "starting" THEN "taken" ELSE "failed"]
    /\ UNCHANGED <<file, sessions, mounted>>

\* Any other error ends the thread.
TraceFails(i) ==
    /\ life[i].trace \in {"starting", "freed", "kept"}
    /\ life' = [life EXCEPT ![i].trace = "failed"]
    /\ UNCHANGED <<file, sessions, mounted>>

\* stop_trace_by_name; its result is ignored.
StopStale(i) ==
    /\ life[i].trace = "taken"
    /\ \/ /\ sessions' = sessions \ {SessionName(i)}
          /\ life' = [life EXCEPT ![i].trace = "freed"]
       \/ /\ life' = [life EXCEPT ![i].trace = "kept"]
          /\ UNCHANGED sessions
    /\ UNCHANGED <<file, mounted>>

-----------------------------------------------------------------------------
(* The server: the port, and the configuration as the API sees it.         *)

Binds(i) ==
    /\ life[i].stage = "running"
    /\ life[i].server = "none"
    /\ \A j \in Living : life[j].server = "serving" => life[j].config.port # life[i].config.port
    /\ life' = [life EXCEPT ![i].server = "serving"]
    /\ UNCHANGED <<file, sessions, mounted>>

\* Another instance, or any program, has the port.
BindFails(i) ==
    /\ life[i].stage = "running"
    /\ life[i].server = "none"
    /\ life' = [life EXCEPT ![i].server = "failed"]
    /\ UNCHANGED <<file, sessions, mounted>>

\* POST exclude-process: the handler's Arc is one of several, so make_mut changes
\* a copy, which the end of the request drops.  "added" remembers the answer.
AddExcludeProcess(i, name) ==
    /\ life[i].server = "serving"
    /\ life' = [life EXCEPT ![i].added = @ \cup {name}]
    /\ UNCHANGED <<file, sessions, mounted>>

-----------------------------------------------------------------------------
(* Ends, the user and the machine.  The ETW thread never drops its trace,  *)
(* so no way to end stops the session.                                     *)

\* main returns, which takes a server that has ended (Lifecycle).
Returns(i) ==
    /\ life[i].server = "failed"
    /\ life' = [life EXCEPT ![i] = Off]
    /\ UNCHANGED <<file, sessions, mounted>>

\* The instance is killed, or ends with an error: a bad file, a failed write or database.
Dies(i) ==
    /\ i \in Living
    /\ life' = [life EXCEPT ![i] = Off]
    /\ UNCHANGED <<file, sessions, mounted>>

\* The user writes or deletes config.toml, at any time.
UserEdits ==
    /\ file' \in UserTexts \cup {Missing}
    /\ UNCHANGED <<sessions, mounted, life>>

\* Volumes come, go and get other letters, the system's C: excepted.
Remount ==
    /\ mounted' \in Mounts
    /\ \A k \in DOMAIN Letters : Letters[k] = DriveC =>
          k \in DOMAIN mounted' /\ mounted'[k] = mounted[k]
    /\ UNCHANGED <<file, sessions, life>>

InstanceStep(i) ==
    \/ Launch(i)
    \/ LoadChecks(i)
    \/ LoadCreates(i)
    \/ LoadFills(i)
    \/ LoadReads(i)
    \/ TraceBegins(i)
    \/ TraceStarts(i)
    \/ NameTaken(i)
    \/ TraceFails(i)
    \/ StopStale(i)
    \/ Binds(i)
    \/ BindFails(i)
    \/ \E name \in ProcessNames : AddExcludeProcess(i, name)
    \/ Returns(i)
    \/ Dies(i)

StartupNext ==
    \/ \E i \in Instances : InstanceStep(i)
    \/ UserEdits
    \/ Remount

StartupSpec == StartupInit /\ [][StartupNext]_startupVars

-----------------------------------------------------------------------------
(* The inductive invariant (StartupProofs).                                *)

\* The thread and the server come after the configuration.
InOrder ==
    \A i \in Instances :
        /\ i \in Living => life[i].pid \in Pids
        /\ life[i].trace # "none" => life[i].stage = "running" /\ life[i].nanos \in Nanos
        /\ life[i].server # "none" => life[i].stage = "running"

PidsDistinct == \A i, j \in Living : i # j => life[i].pid # life[j].pid

PositionC == CHOOSE k \in DOMAIN Letters : Letters[k] = DriveC

DeviceC == mounted[PositionC]

\* An instance scanned when the volumes were others, but C: was what it is now.
ScannedC ==
    /\ PositionC \in DOMAIN mounted
    /\ \A i \in Instances :
          life[i].trace # "none" =>
              \E m \in Mounts : /\ life[i].devices = Scan(m)
                               /\ PositionC \in DOMAIN m /\ m[PositionC] = DeviceC

\* Where each instance is and what it owns: what keeps sessions, file and drives apart.
StartupInv == StartupTypeOK /\ InOrder /\ PidsDistinct /\ ScannedC

-----------------------------------------------------------------------------
(* Properties.                                                             *)

\* No instance loses its session to another one's start, although start_trace
\* stops a session it did not start and pids and names are used again.
OwnSessionKept ==
    \A i \in Instances : life[i].trace = "tracing" => SessionName(i) \in sessions

\* A name freed by stopping the stale session is still free when the retry comes,
\* after a pause in which other instances start theirs.
NameStaysFree ==
    \A i \in Instances : life[i].trace = "freed" => SessionName(i) \notin sessions

\* An instance runs with the defaults or with what the user wrote, never with half
\* a file, although others, and the user, may write it between any two steps of its
\* loading, and one may be killed when it has truncated it.
ConfigWhole ==
    \A i \in Instances :
        life[i].stage = "running" =>
            \E text \in UserTexts \cup {DefaultText} :
                Readable(text) /\ life[i].config = Parsed(text)

Tracing == {i \in Instances : life[i].trace = "tracing"}

OfDriveC(record) == IsPrefix(Append(DeviceC, Separator), record.path)

\* Whatever is mounted where since the scan, what an instance reports is on C: and
\* bears its path there: no device name that C:'s begins is taken for it.
OnlyDriveC ==
    \A i \in Tracing, r \in Records : \A e \in EventOf(life[i].devices, r) :
        OfDriveC(r) /\ r.path = DeviceC \o Tail(e.file)

\* A record of a file on C: is reported, also when the name of another lettered
\* device begins that of C:'s, unless a later letter stood for C:'s device in the scan.
DriveCSeen ==
    \A i \in Tracing, r \in Records :
        (/\ OfDriveC(r)
         /\ r.pid # 0 /\ r.kind \in Watched
         /\ life[i].devices[DeviceC] = DriveC)
            => EventOf(life[i].devices, r) # {}

\* "Adds a process basename to the in-memory exclude list."
AddedIsExcluded == \A i \in Instances : life[i].added \subseteq life[i].config.excluded

\* "Active ETW sessions (should be empty on a healthy system after diskspy is stopped)"
StopEndsSession ==
    [][\A i \in Tracing : Returns(i) => SessionName(i) \notin sessions']_startupVars

\* "Can I monitor other drives? Yes. Add them to `drives` in `config.toml`":
\* a file on a volume of its own, which the instance's scan found under the letter of
\* a configured drive.
ConfiguredDrivesSeen ==
    \A i \in Tracing, r \in Records : \A d \in DOMAIN life[i].devices \ {DeviceC} :
        (/\ IsPrefix(Append(d, Separator), r.path)
         /\ life[i].devices[d] \in life[i].config.drives
         /\ r.pid # 0 /\ r.kind \in Watched)
            => EventOf(life[i].devices, r) # {}
=============================================================================
