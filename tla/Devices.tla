------------------------------- MODULE Devices -------------------------------
(***************************************************************************)
(* From a record of the kernel to an event of the raw channel: the map of  *)
(* device names to drive letters, nt_to_dos and the filters of the ETW     *)
(* callback.  A path is a sequence of pieces that compare equal when their *)
(* text does but for case; a device name is a path, and one device name    *)
(* may begin another (HarddiskVolume1, HarddiskVolume10).                  *)
(***************************************************************************)
EXTENDS Naturals, Sequences, FiniteSets, FiniteSetsExt, SequencesExt

CONSTANTS
    Pieces,     \* of paths and of device names
    Letters,    \* the drive letters with their colon, in the order of the scan
    DriveC,     \* the letter the callback asks for
    Devices     \* names of devices

Separator == "\\"

\* The scan goes from A: to Z:, C: among them.
ASSUME LetterAssumption ==
    /\ Letters \in Seq(Pieces)
    /\ Separator \in Pieces
    /\ \A j, k \in DOMAIN Letters : Letters[j] = Letters[k] => j = k
    /\ \E k \in DOMAIN Letters : Letters[k] = DriveC

\* Of Windows: a device has a name, and is no file of another device.
ASSUME DeviceAssumption ==
    /\ Devices \subseteq Seq(Pieces) \ {<<>>}
    /\ \A c, d \in Devices : ~IsPrefix(Append(c, Separator), d)

\* What QueryDosDeviceW answers: the device behind some of the letters.
Mounts == UNION {[L -> Devices] : L \in SUBSET (DOMAIN Letters)}

\* refresh_dos_devices: of two letters of one device the later one is kept.
Scan(mounted) ==
    [d \in {mounted[k] : k \in DOMAIN mounted} |->
        Letters[Max({k \in DOMAIN mounted : mounted[k] = d})]]

\* Mutant: the first device name that fits, here the shortest.
BestShortest(map, path) ==
    LET matching == {d \in DOMAIN map : IsPrefix(d, path)}
    IN  {d \in matching : \A x \in matching : Len(d) <= Len(x)}

\* The longest device name the path begins with, if there is one.
Best(map, path) ==
    LET matching == {d \in DOMAIN map : IsPrefix(d, path)}
    IN  {d \in matching : \A x \in matching : Len(x) <= Len(d)}

NtToDos(map, path) ==
    IF Best(map, path) = {} THEN path
    ELSE LET d == CHOOSE x \in Best(map, path) : TRUE
         IN  <<map[d]>> \o SubSeq(path, Len(d) + 1, Len(path))

\* Mutant: the separator after the colon is not asked for.
OnDriveLoosely(path) == IsPrefix(<<DriveC>>, path)

OnDrive(path) == IsPrefix(<<DriveC, Separator>>, path)

Watched == {"write", "close", "setinfo", "delete"}

\* handle_fileio_event: what it sends for a record, if anything.  Only a write
\* has bytes; an empty path stands for a record without one too.
EventOf(map, record) ==
    LET path == NtToDos(map, record.path)
    IN  IF /\ record.pid # 0
           /\ record.kind \in Watched
           /\ record.path # <<>>
           /\ OnDrive(path)
        THEN {[pid |-> record.pid, file |-> path,
               bytes |-> IF record.kind = "write" THEN record.size ELSE 0]}
        ELSE {}
=============================================================================
