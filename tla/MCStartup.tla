------------------------------ MODULE MCStartup ------------------------------
(* Small instances of Startup for TLC. *)
EXTENDS Startup

CONSTANTS one, two, app, svc

Drives == <<"C:", "D:">>

TextPieces == {"C:", "D:", Separator, "HarddiskVolume", "1", "0", "file"}

\* The name of the first volume begins that of the tenth.
Volume1 == <<"HarddiskVolume", "1">>
Volume10 == <<"HarddiskVolume", "1", "0">>
Volumes == {Volume1, Volume10}

\* Another port and drive and no exclude list in the section; and a slip.
Texts == {[port |-> 8080, watch |-> TRUE, drives |-> {"C:", "D:"}], Garbled}

FileRecords ==
    [pid : {0, 4}, kind : {"write", "close", "read"}, size : {1},
     path : {<<>>} \cup {Append(v, Separator) \o <<"file">> : v \in Volumes}]

InstanceSymmetry == Permutations(Instances)
=============================================================================
