--------------------------- MODULE MCFileRoutes ---------------------------
(* An instance of FileRoutes for TLC.                                      *)
EXTENDS FileRoutes

CONSTANTS alice, bob, midgard, asgard, old

Own(root, u) == [root |-> root, owner |-> u]
At(folder, name, world, ext) == [folder |-> folder, name |-> name, world |-> world, ext |-> ext]

(* alice has backups of two worlds, in two or more pages.  bob's id begins *)
(* with hers, and the name of his world, midgard_backup_auto-old, with     *)
(* that of hers: her deletion of midgard meets his backup.                 *)
MCKeys == <<
    At(Own("mods", "general"), "other", None, "other"),
    At(Own("backups", alice), "root", None, "other"),
    At(Own("backups", alice), "saved", asgard, "db"),
    At(Own("backups", alice), "saved", midgard, "fwl"),
    At(Own("backups", alice), "auto", midgard, "db"),
    At(Own("backups", bob), "saved", old, "db") >>

(* At first there is no automatic backup.                                  *)
MCBuckets == {{o \in Objects : Keys[o].name # "auto"}}

MCLongerIds   == [u \in Users |-> IF u = alice THEN {bob} ELSE {}]
MCBackupNames == [w \in Worlds |-> IF w = midgard THEN {old} ELSE {}]

Asks(destination, operation, prefix, s3Delete) ==
    [destination |-> destination, operation |-> operation, prefix |-> prefix, s3Delete |-> s3Delete]

MCBodies == {
    Asks("worlds_local", "delete", midgard, TRUE),
    Asks("plugins", "write", "otherFile", TRUE),
    Asks("elsewhere", "write", midgard, TRUE),
    Asks("config", "unknown", midgard, TRUE),
    Asks("config", "copy", None, TRUE) }
=============================================================================
