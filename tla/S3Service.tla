----------------------------- MODULE S3Service -----------------------------
(***************************************************************************)
(* src/service/s3.go: the bucket of the files, and ListObjects and         *)
(* DeleteObject as the file routes call them.  S3 reads after it writes:   *)
(* a page shows the bucket as it is when the page is read.                 *)
(*                                                                         *)
(* An object is the position of its key in S3's order of the keys.         *)
(***************************************************************************)
EXTENDS Naturals, Sequences, FiniteSets

CONSTANTS
    Users,       \* discord ids
    None,        \* no user, no world
    Worlds,      \* names of worlds
    Keys,        \* the keys that may occur, in S3's order (a sequence)
    PageSize,    \* most keys in a page (100)
    LongerIds,   \* LongerIds[u]: users whose discord id begins with that of u
    BackupNames  \* BackupNames[w]: worlds whose name begins with "<w>_backup_auto-"

(* "mods/<owner>/", "config/<owner>/" and "valheim-backups-auto/<owner>/"  *)
Folder == [root : {"mods", "config", "backups"}, owner : Users \cup {"general"}]

(* What follows the folder: nothing (the root object of the folder),       *)
(* "<world>.<ext>" (saved), "<world>_backup_auto-<time>.<ext>" (auto), or  *)
(* anything else.                                                          *)
Key == [folder : Folder, name : {"root", "saved", "auto", "other"},
        world : Worlds \cup {None}, ext : {"db", "fwl", "other"}]

ASSUME S3Assumption ==
    /\ None \notin Users /\ None \notin Worlds
    /\ "general" \notin Users   \* a discord id is a number
    /\ Keys \in Seq(Key)
    /\ \A o \in DOMAIN Keys : Keys[o].name \in {"root", "other"} => Keys[o].world = None
    /\ PageSize \in Nat \ {0}
    /\ LongerIds \in [Users -> SUBSET Users]
    /\ BackupNames \in [Worlds -> SUBSET Worlds]

VARIABLE bucket   \* the objects that exist

Objects == DOMAIN Keys

(* A prefix that ends in the name of a folder selects that folder; without *)
(* the slash it selects the folders of longer ids too.                     *)
FolderPrefix(root, owner) ==
    [folders |-> {[root |-> root, owner |-> owner]}, slash |-> TRUE]

IdPrefix(root, u) ==
    [folders |-> {[root |-> root, owner |-> v] : v \in {u} \cup LongerIds[u]}, slash |-> FALSE]

-----------------------------------------------------------------------------
Remaining(prefix, pos) == {o \in bucket : o > pos /\ Keys[o].folder \in prefix.folders}

(* Mutation: only the first page is read.                                  *)
PagesFirst(prefix, pos) ==
    LET left       == Remaining(prefix, pos)
        UpTo(last) == {o \in left : o <= last}
        Page(last) == [contents |-> UpTo(last), last |-> last, more |-> FALSE]
    IN IF left = {}
       THEN {Page(pos)}
       ELSE {Page(last) : last \in {o \in left : Cardinality(UpTo(o)) <= PageSize}}

(* The pages that may follow the key at pos: at most PageSize keys, fewer  *)
(* if S3 likes, and more |-> HasMorePages.  The object whose key is the    *)
(* prefix itself is not returned.                                          *)
Pages(prefix, pos) ==
    LET left       == Remaining(prefix, pos)
        UpTo(last) == {o \in left : o <= last}
        Page(last) == [contents |-> {o \in UpTo(last) : prefix.slash => Keys[o].name # "root"},
                       last     |-> last,
                       more     |-> UpTo(last) # left]
    IN IF left = {}
       THEN {Page(pos)}
       ELSE {Page(last) : last \in {o \in left : Cardinality(UpTo(o)) <= PageSize}}

DeleteObject(o) == bucket' = bucket \ {o}

(* A client uploads to a signed URL, or the backup manager beside the game *)
(* server saves a world.                                                   *)
PutObject(o) == bucket' = bucket \cup {o}
=============================================================================
