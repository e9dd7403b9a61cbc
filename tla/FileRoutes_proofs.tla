------------------------- MODULE FileRoutes_proofs -------------------------
(***************************************************************************)
(* Theorems about FileRoutes: types, the buffers of a listing, and what an *)
(* install request deletes.                                                *)
(***************************************************************************)
EXTENDS FileRoutes, WellFoundedInduction, TLAPS

-----------------------------------------------------------------------------
(* Objects, pages and slices                                               *)

LEMMA ObjectsAreNumbers == Objects = 1 .. Len(Keys) /\ Len(Keys) \in Nat
BY S3Assumption DEF Objects

LEMMA KeyTyped ==
    ASSUME NEW o \in Objects
    PROVE  Keys[o] \in Key /\ o \in Nat /\ o > 0
<1>1. Keys \in Seq(Key)
  BY S3Assumption
<1> QED BY <1>1 DEF Objects

LEMMA PageOf ==
    ASSUME bucket \subseteq Objects, NEW prefix, NEW from \in Nat, NEW page \in Pages(prefix, from)
    PROVE  /\ page.contents \subseteq Remaining(prefix, from)
           /\ page.last \in Nat
           /\ ~prefix.slash => \A o \in Remaining(prefix, from) :
                                   o <= page.last => o \in page.contents
           /\ page.more \/ \A o \in Remaining(prefix, from) : o <= page.last
<1> DEFINE left == Remaining(prefix, from)
           UpTo(last) == {o \in left : o <= last}
           Shown(last) == {o \in UpTo(last) : prefix.slash => Keys[o].name # "root"}
           Page(last) == [contents |-> Shown(last), last |-> last, more |-> UpTo(last) # left]
<1>1. left \subseteq Nat
  BY ObjectsAreNumbers DEF Remaining, Objects
<1>2. PICK last \in left \cup {from} : page = Page(last) /\ (left = {} => last = from)
  <2>1. CASE left = {}
    BY <2>1 DEF Pages
  <2>2. CASE left # {}
    BY <2>2 DEF Pages
  <2> QED BY <2>1, <2>2
<1>3. page.contents = Shown(last) /\ page.last = last /\ (page.more <=> UpTo(last) # left)
  BY <1>2
<1>4. last \in Nat
  BY <1>1, <1>2
<1>5. UpTo(last) = left => \A o \in left : o <= last
  OBVIOUS
<1> HIDE DEF left
<1> QED BY <1>3, <1>4, <1>5 DEF left

LEMMA ExtendTyped ==
    ASSUME NEW s \in Slice, NEW os
    PROVE  Extend(s, os) \in Slice
BY DEF Extend, Slice

LEMMA EmptyTyped == Empty \in Slice
BY DEF Empty, Slice

LEMMA MinOf ==
    ASSUME NEW S \in SUBSET Nat, S # {}
    PROVE  Min(S) \in S
<1>1. PICK n \in S : \A m \in S : <<m, n>> \notin OpToRel(<, Nat)
  BY NatLessThanWellFounded, WFMin
<1>2. \A m \in S : <<m, n>> \notin {ss \in Nat \X Nat : ss[1] < ss[2]}
  BY <1>1 DEF OpToRel
<1>3. ASSUME NEW m \in S, m < n PROVE FALSE
  <2> DEFINE pair == <<m, n>>
  <2>1. pair \in Nat \X Nat /\ pair[1] < pair[2]
    BY <1>3
  <2> HIDE DEF pair
  <2>2. pair \in {ss \in Nat \X Nat : ss[1] < ss[2]}
    BY <2>1
  <2> QED BY <1>2, <2>2 DEF pair
<1>4. \A m \in S : n <= m
  BY <1>3
<1> QED BY <1>4 DEF Min

-----------------------------------------------------------------------------
(* The inductive invariant                                                 *)

ListingTyped ==
    /\ listing \in {"idle", "errors", "200", "aborted"}
    /\ lister \in Users \cup {None}
    /\ worker \in [Workers -> {"idle", "listing", "sending", "done"}]
    /\ pos \in [Workers -> Nat]
    /\ found \in [Workers -> Slice]
    /\ chan \in [Channels -> Seq(Slice)]
    /\ closed \in BOOLEAN

InstallTyped ==
    /\ install \in {"idle", "list", "delete", "job", "201", "400", "500", "aborted"}
    /\ request \in [user : Users, body : Bodies] \cup {NoRequest}
    /\ at \in Nat
    /\ todo \subseteq Objects
    /\ jobs \subseteq Users
    /\ due \subseteq Objects

BucketTyped ==
    /\ bucket \subseteq Objects
    /\ faults \in 0 .. MaxFaults
    /\ writes \in 0 .. MaxWrites
    /\ stayed \subseteq Objects /\ seen \subseteq Objects

(* A channel holds one list for each goroutine that has sent.              *)
Sent(w) == IF worker[w] = "done" THEN 1 ELSE 0

ListsCounted ==
    /\ Len(chan["mods"]) = Sent("general") + Sent("mods")
    /\ Len(chan["configs"]) = Sent("configs")
    /\ Len(chan["backups"]) = Sent("backups")

(* Goroutines run while the handler waits, and are done when it does not.  *)
ListingShape ==
    /\ ListingAtRest => /\ ~closed
                        /\ \A w \in Workers : worker[w] = "idle"
                        /\ \A ch \in Channels : chan[ch] = <<>>
    /\ closed => \A w \in Workers : worker[w] = "done"

ListingInv == ListingTyped /\ ListsCounted /\ ListingShape

(* What is due is found ahead in the folder, or will be deleted.           *)
DuePending ==
    /\ install = "list" => due \cap bucket \subseteq todo \cup {o \in Objects : o > at}
    /\ install = "delete" => due \cap bucket \subseteq todo
    /\ install \in {"job", "201"} => due \cap bucket = {}

(* Only matching files are due, and only such are deleted.                 *)
DueMatches ==
    /\ ~InstallAtRest => request \in [user : Users, body : Bodies]
    /\ install \in {"list", "delete"} =>
        /\ \A o \in due : OwnBackup(o, request.user) /\ Matches(o, request.body.prefix)
        /\ \A o \in todo : /\ Matches(o, request.body.prefix)
                           /\ Keys[o].folder \in IdPrefix("backups", request.user).folders
        /\ install = "delete" => todo # {}

InstallInv == InstallTyped /\ DuePending /\ DueMatches

IInv == ListingInv /\ InstallInv /\ BucketTyped

LEMMA TypesFollow ==
    ASSUME IInv
    PROVE  TypeOK
BY DEF IInv, ListingInv, InstallInv, ListingTyped, InstallTyped, BucketTyped, TypeOK

-----------------------------------------------------------------------------
(* The listing                                                             *)

LEMMA EndListingTypes ==
    ASSUME NEW answer \in {"200", "aborted"}, EndListing(answer)
    PROVE  ListingInv'
<1>1. ListingTyped'
  <2>1. found' \in [Workers -> Slice]
    BY EmptyTyped DEF EndListing
  <2>2. chan' \in [Channels -> Seq(Slice)]
    <3>1. <<>> \in Seq(Slice)
      OBVIOUS
    <3> HIDE DEF Slice
    <3> QED BY <3>1 DEF EndListing
  <2>3. /\ listing' = answer /\ lister' = None /\ closed' = FALSE
        /\ worker' = [w \in Workers |-> "idle"]
        /\ pos' = [w \in Workers |-> 0]
    BY DEF EndListing
  <2>4. worker' \in [Workers -> {"idle", "listing", "sending", "done"}] /\ pos' \in [Workers -> Nat]
    BY <2>3
  <2> QED BY <2>1, <2>2, <2>3, <2>4 DEF ListingTyped
<1>2. /\ \A w \in Workers : worker'[w] = "idle"
      /\ \A ch \in Channels : chan'[ch] = <<>>
      /\ closed' = FALSE
  BY DEF EndListing
<1>3. ListsCounted'
  BY <1>2 DEF ListsCounted, Sent, Workers, Channels
<1>4. ListingShape'
  BY <1>2 DEF ListingShape
<1> QED BY <1>1, <1>3, <1>4 DEF ListingInv

LEMMA ListingUnchanged ==
    ASSUME ListingInv, UNCHANGED listingVars
    PROVE  ListingInv'
<1> USE DEF listingVars
<1>1. ListingTyped'
  BY DEF ListingInv, ListingTyped
<1>2. ListsCounted' /\ ListingShape'
  BY DEF ListingInv, ListsCounted, Sent, ListingShape, ListingAtRest
<1> QED BY <1>1, <1>2 DEF ListingInv

LEMMA StartListingKeeps ==
    ASSUME ListingInv, NEW u \in Users, StartListing(u)
    PROVE  ListingInv'
<1>1. ListingTyped'
  BY DEF StartListing, ListingInv, ListingTyped
<1>2. ListsCounted'
  BY DEF StartListing, ListingInv, ListingShape, ListsCounted, Sent, Workers, Channels
<1>3. ListingShape'
  BY DEF StartListing, ListingInv, ListingShape, ListingAtRest
<1> QED BY <1>1, <1>2, <1>3 DEF ListingInv

LEMMA ListObjectsKeeps ==
    ASSUME ListingInv, bucket \subseteq Objects, NEW w \in Workers, ListObjects(w)
    PROVE  ListingInv'
<1>1. PICK page \in Pages(Prefix(w, lister), pos[w]) :
          /\ found' = [found EXCEPT ![w] = Extend(@, page.contents)]
          /\ pos' = [pos EXCEPT ![w] = page.last]
          /\ worker' = [worker EXCEPT ![w] = IF page.more THEN "listing" ELSE "sending"]
  BY DEF ListObjects
<1>2. worker[w] = "listing" /\ UNCHANGED <<listing, lister, chan, closed>>
  BY DEF ListObjects
<1>3. pos[w] \in Nat
  BY DEF ListingInv, ListingTyped
<1>4. page.last \in Nat
  BY <1>3, PageOf
<1>5. Extend(found[w], page.contents) \in Slice
  BY ExtendTyped DEF ListingInv, ListingTyped
<1>6. ListingTyped'
  <2>1. pos' \in [Workers -> Nat]
    BY <1>1, <1>4 DEF ListingInv, ListingTyped
  <2>2. found' \in [Workers -> Slice]
    BY <1>1, <1>5 DEF ListingInv, ListingTyped
  <2>3. worker' \in [Workers -> {"idle", "listing", "sending", "done"}]
    BY <1>1 DEF ListingInv, ListingTyped
  <2> QED BY <1>2, <2>1, <2>2, <2>3 DEF ListingInv, ListingTyped
<1>7. \A v \in Workers : worker'[v] = "done" <=> worker[v] = "done"
  BY <1>1, <1>2 DEF ListingInv, ListingTyped
<1>8. ListsCounted'
  BY <1>2, <1>7 DEF ListingInv, ListsCounted, Sent, Workers
<1>9. ListingShape'
  BY <1>2, <1>7 DEF ListingInv, ListingShape, ListingAtRest
<1> QED BY <1>6, <1>8, <1>9 DEF ListingInv

LEMMA SendKeeps ==
    ASSUME ListingInv, NEW w \in Workers, Send(w)
    PROVE  ListingInv'
<1>1. /\ worker[w] = "sending"
      /\ chan' = [chan EXCEPT ![Channel(w)] = Append(@, found[w])]
      /\ worker' = [worker EXCEPT ![w] = "done"]
      /\ found' = [found EXCEPT ![w] = Empty]
      /\ pos' = [pos EXCEPT ![w] = 0]
      /\ UNCHANGED <<listing, lister, closed>>
  BY DEF Send
<1>2. Channel(w) \in Channels
  BY DEF Channel, Channels, Workers
<1>3. ListingTyped'
  <2>1. Append(chan[Channel(w)], found[w]) \in Seq(Slice)
    BY <1>2 DEF ListingInv, ListingTyped
  <2>2. chan' \in [Channels -> Seq(Slice)]
    BY <1>1, <2>1 DEF ListingInv, ListingTyped
  <2>3. found' \in [Workers -> Slice] /\ pos' \in [Workers -> Nat]
    BY <1>1, EmptyTyped DEF ListingInv, ListingTyped
  <2>4. worker' \in [Workers -> {"idle", "listing", "sending", "done"}]
    BY <1>1 DEF ListingInv, ListingTyped
  <2> QED BY <1>1, <2>2, <2>3, <2>4 DEF ListingInv, ListingTyped
<1>4. Len(chan'[Channel(w)]) = Len(chan[Channel(w)]) + 1
  BY <1>1, <1>2 DEF ListingInv, ListingTyped
<1>5. \A ch \in Channels : ch # Channel(w) => chan'[ch] = chan[ch]
  BY <1>1 DEF ListingInv, ListingTyped
<1>6. /\ worker'[w] = "done" /\ worker[w] # "done"
      /\ \A v \in Workers : v # w => worker'[v] = worker[v]
  BY <1>1 DEF ListingInv, ListingTyped
<1>7. ListsCounted'
  <2>1. \A v \in Workers : Sent(v)' = IF v = w THEN 1 ELSE Sent(v)
    BY <1>6 DEF Sent
  <2>2. Sent(w) = 0
    BY <1>6 DEF Sent
  <2>3. /\ {"general", "mods", "configs", "backups"} = Workers
        /\ {"mods", "configs", "backups"} = Channels
        /\ ListsCounted
        /\ \A ch \in Channels : Len(chan[ch]) \in Nat
    BY DEF Workers, Channels, ListingInv, ListingTyped
  <2>4. Channel(w) = IF w = "general" THEN "mods" ELSE w
    BY DEF Channel
  <2>5. Len(chan'["mods"]) = Sent("general")' + Sent("mods")'
    <3>1. CASE w \in {"general", "mods"}
      <4>1. Len(chan'["mods"]) = Len(chan["mods"]) + 1
        BY <1>4, <2>4, <3>1
      <4> QED BY <2>1, <2>2, <2>3, <3>1, <4>1 DEF ListsCounted, Sent
    <3>2. CASE w \notin {"general", "mods"}
      <4>1. chan'["mods"] = chan["mods"]
        BY <1>5, <2>3, <2>4, <3>2
      <4> QED BY <2>1, <2>3, <3>2, <4>1 DEF ListsCounted
    <3> QED BY <3>1, <3>2
  <2>6. Len(chan'["configs"]) = Sent("configs")'
    <3>1. CASE w = "configs"
      <4>1. Len(chan'["configs"]) = Len(chan["configs"]) + 1
        BY <1>4, <2>4, <3>1
      <4> QED BY <2>1, <2>2, <2>3, <3>1, <4>1 DEF ListsCounted
    <3>2. CASE w # "configs"
      <4>1. chan'["configs"] = chan["configs"]
        BY <1>5, <2>3, <2>4, <3>2
      <4> QED BY <2>1, <2>3, <3>2, <4>1 DEF ListsCounted
    <3> QED BY <3>1, <3>2
  <2>7. Len(chan'["backups"]) = Sent("backups")'
    <3>1. CASE w = "backups"
      <4>1. Len(chan'["backups"]) = Len(chan["backups"]) + 1
        BY <1>4, <2>4, <3>1
      <4> QED BY <2>1, <2>2, <2>3, <3>1, <4>1 DEF ListsCounted
    <3>2. CASE w # "backups"
      <4>1. chan'["backups"] = chan["backups"]
        BY <1>5, <2>3, <2>4, <3>2
      <4> QED BY <2>1, <2>3, <3>2, <4>1 DEF ListsCounted
    <3> QED BY <3>1, <3>2
  <2> QED BY <2>5, <2>6, <2>7 DEF ListsCounted
<1>8. ListingShape'
  <2>1. ~ListingAtRest /\ ~closed
    BY <1>1 DEF ListingInv, ListingShape
  <2> QED BY <1>1, <2>1 DEF ListingShape, ListingAtRest, ListingInv, ListingTyped
<1> QED BY <1>3, <1>7, <1>8 DEF ListingInv

LEMMA CloseChannelsKeeps ==
    ASSUME ListingInv, CloseChannels
    PROVE  ListingInv'
<1>1. ListingTyped'
  BY DEF CloseChannels, ListingInv, ListingTyped
<1>2. ListsCounted'
  BY DEF CloseChannels, ListingInv, ListsCounted, Sent
<1>3. ListingShape'
  BY DEF CloseChannels, ListingInv, ListingShape, ListingAtRest
<1> QED BY <1>1, <1>2, <1>3 DEF ListingInv

LEMMA ListingWorkKeeps ==
    ASSUME ListingInv, bucket \subseteq Objects, ListingWork
    PROVE  ListingInv'
BY ListObjectsKeeps, SendKeeps, CloseChannelsKeeps, EndListingTypes DEF ListingWork, Respond

(* No goroutine meets a full or a closed channel.                          *)
LEMMA RoomToSend ==
    ASSUME ListingInv
    PROVE  SendsNeverBlock
<1> SUFFICES ASSUME NEW w \in Workers, worker[w] \in {"listing", "sending"}
             PROVE  ~closed /\ Len(chan[Channel(w)]) < Capacity(Channel(w))
  BY DEF SendsNeverBlock
<1>1. worker[w] # "done"
  OBVIOUS
<1>2. ~closed
  BY <1>1 DEF ListingInv, ListingShape
<1>3. Len(chan[Channel(w)]) < Capacity(Channel(w))
  BY <1>1 DEF ListingInv, ListsCounted, Sent, Channel, Capacity, Workers
<1> QED BY <1>2, <1>3

-----------------------------------------------------------------------------
(* The deletion                                                            *)

LEMMA RequestTyped ==
    ASSUME NEW u \in Users, NEW b \in Bodies
    PROVE  /\ [user |-> u, body |-> b] \in [user : Users, body : Bodies]
           /\ [user |-> u, body |-> b].user = u
           /\ [user |-> u, body |-> b].body = b
OBVIOUS

(* What the user means to be rid of is in the folder, and matches.         *)
LEMMA BackupsMatch ==
    ASSUME NEW u \in Users, NEW w \in Worlds, bucket \subseteq Objects, NEW o \in BackupsOf(u, w)
    PROVE  o \in Objects /\ o > 0 /\ OwnBackup(o, u) /\ Matches(o, w)
<1>1. o \in Objects /\ OwnBackup(o, u) /\ Keys[o].world = w /\ Keys[o].ext # "other"
  BY DEF BackupsOf
<1>2. o > 0 /\ Keys[o] \in Key
  BY <1>1, KeyTyped
<1>3. Keys[o].name \in {"saved", "auto"}
  <2>1. Keys[o].name \in {"root", "saved", "auto", "other"}
    BY <1>2 DEF Key
  <2>2. Keys[o].world # None
    BY <1>1, S3Assumption
  <2> QED BY <1>1, <2>1, <2>2, S3Assumption DEF Objects
<1>4. Keys[o].ext \in {"db", "fwl"}
  BY <1>1, <1>2 DEF Key
<1> QED BY <1>1, <1>2, <1>3, <1>4 DEF Matches

LEMMA OwnFolder ==
    ASSUME NEW u, NEW o, OwnBackup(o, u)
    PROVE  Keys[o].folder \in IdPrefix("backups", u).folders
BY DEF OwnBackup, IdPrefix

LEMMA InstallUnchanged ==
    ASSUME InstallInv, UNCHANGED <<bucket, installVars, due>>
    PROVE  InstallInv'
<1> USE DEF installVars
<1>1. InstallTyped'
  BY DEF InstallInv, InstallTyped
<1>2. DuePending'
  BY DEF InstallInv, DuePending
<1>3. DueMatches'
  BY DEF InstallInv, DueMatches, InstallAtRest, OwnBackup, Matches, IdPrefix
<1> QED BY <1>1, <1>2, <1>3 DEF InstallInv

LEMMA StartInstallKeeps ==
    ASSUME InstallInv, bucket \subseteq Objects,
           NEW u \in Clients, NEW b \in Bodies, StartInstall(u, b)
    PROVE  InstallInv'
<1>1. u \in Users
  BY InstallAssumption
<1>2. CASE ~Validate(b)
  <2>1. /\ install' = "400" /\ request' = NoRequest /\ at' = 0
        /\ todo' = {} /\ due' = {} /\ jobs' = jobs
    BY <1>2 DEF StartInstall
  <2>2. InstallTyped'
    BY <2>1 DEF InstallInv, InstallTyped
  <2> QED BY <2>1, <2>2 DEF InstallInv, DuePending, DueMatches, InstallAtRest
<1>3. CASE Validate(b) /\ ~WantsDeletion(b)
  <2>1. /\ install' = "job" /\ request' = [user |-> u, body |-> b] /\ at' = 0
        /\ todo' = {} /\ due' = {} /\ jobs' = jobs
    BY <1>3 DEF StartInstall
  <2>2. InstallTyped'
    BY <1>1, <2>1, RequestTyped DEF InstallInv, InstallTyped
  <2> QED BY <1>1, <2>1, <2>2, RequestTyped DEF InstallInv, DuePending, DueMatches, InstallAtRest
<1>4. CASE Validate(b) /\ WantsDeletion(b)
  <2>1. /\ install' = "list" /\ request' = [user |-> u, body |-> b] /\ at' = 0
        /\ todo' = {} /\ due' = BackupsOf(u, b.prefix) /\ jobs' = jobs
    BY <1>4 DEF StartInstall
  <2>2. b.prefix \in Worlds
    BY <1>4 DEF WantsDeletion
  <2>3. \A o \in due' : o \in Objects /\ o > 0 /\ OwnBackup(o, u) /\ Matches(o, b.prefix)
    BY <1>1, <2>1, <2>2, BackupsMatch
  <2>4. request' \in [user : Users, body : Bodies] /\ request'.user = u /\ request'.body = b
    BY <1>1, <2>1, RequestTyped
  <2>5. InstallTyped'
    BY <2>1, <2>3, <2>4 DEF InstallInv, InstallTyped
  <2>6. DuePending'
    BY <2>1, <2>3 DEF DuePending
  <2>7. DueMatches'
    <3>1. \A o \in due' : OwnBackup(o, request'.user) /\ Matches(o, request'.body.prefix)
      BY <2>3, <2>4
    <3> QED BY <2>1, <2>4, <3>1 DEF DueMatches, InstallAtRest, OwnBackup, Matches
  <2> QED BY <2>5, <2>6, <2>7 DEF InstallInv
<1> QED BY <1>2, <1>3, <1>4

(* A page of backups takes what is due and not past its last key.          *)
LEMMA ListBackupsKeeps ==
    ASSUME InstallInv, bucket \subseteq Objects, ListBackups
    PROVE  InstallInv'
<1> DEFINE prefix == IdPrefix("backups", request.user)
           w == request.body.prefix
<1>1. PICK page \in Pages(prefix, at) :
          /\ at' = page.last
          /\ todo' = todo \cup {o \in page.contents : Matches(o, w)}
          /\ install' = CASE page.more                  -> "list"
                          [] ~page.more /\ todo' # {} -> "delete"
                          [] ~page.more /\ todo' = {} -> "job"
  BY DEF ListBackups
<1>2. install = "list" /\ UNCHANGED <<bucket, request, jobs, faults, due>>
  BY DEF ListBackups
<1>3. /\ request \in [user : Users, body : Bodies]
      /\ at \in Nat /\ todo \subseteq Objects
      /\ \A o \in due : OwnBackup(o, request.user) /\ Matches(o, w)
      /\ \A o \in todo : Matches(o, w) /\ Keys[o].folder \in prefix.folders
      /\ due \cap bucket \subseteq todo \cup {o \in Objects : o > at}
  BY <1>2 DEF InstallInv, InstallTyped, DueMatches, DuePending, InstallAtRest
<1>4. prefix.slash = FALSE
  BY DEF IdPrefix
<1> HIDE DEF prefix
<1>5. /\ page.contents \subseteq Remaining(prefix, at)
      /\ page.last \in Nat
      /\ \A o \in Remaining(prefix, at) : o <= page.last => o \in page.contents
      /\ page.more \/ \A o \in Remaining(prefix, at) : o <= page.last
  BY <1>3, <1>4, PageOf
<1>6. page.contents \subseteq bucket
      /\ \A o \in page.contents : Keys[o].folder \in prefix.folders
  BY <1>5 DEF Remaining
<1>7. ASSUME NEW o \in due \cap bucket
      PROVE  o \in todo' \/ (page.more /\ o > page.last)
  <2>1. CASE o \in todo
    BY <1>1, <2>1
  <2>2. CASE o \notin todo
    <3>1. o \in Objects /\ o > at
      BY <1>3, <2>2
    <3>2. Keys[o].folder \in prefix.folders
      BY <1>3, OwnFolder DEF prefix
    <3>3. o \in Remaining(prefix, at)
      BY <3>1, <3>2 DEF Remaining
    <3>4. o \in Nat
      BY <3>1, KeyTyped
    <3>5. CASE o <= page.last
      BY <1>1, <1>3, <1>5, <3>3, <3>5
    <3>6. CASE ~(o <= page.last)
      BY <1>5, <3>3, <3>4, <3>6
    <3> QED BY <3>5, <3>6
  <2> QED BY <2>1, <2>2
<1>8. todo' \subseteq Objects
  BY <1>1, <1>3, <1>6
<1>9. install' \in {"list", "delete", "job"} /\ (install' = "delete" => todo' # {})
      /\ (install' \in {"delete", "job"} => ~page.more) /\ (install' = "job" => todo' = {})
  BY <1>1
<1>10. InstallTyped'
  BY <1>1, <1>2, <1>5, <1>8, <1>9 DEF InstallInv, InstallTyped
<1>11. DuePending'
  <2>1. due' = due /\ bucket' = bucket /\ at' = page.last
    BY <1>1, <1>2
  <2>2. install' = "list" => due \cap bucket \subseteq todo' \cup {o \in Objects : o > page.last}
    BY <1>7
  <2>3. install' = "delete" => due \cap bucket \subseteq todo'
    BY <1>7, <1>9
  <2>4. install' \in {"job", "201"} => due \cap bucket = {}
    BY <1>7, <1>9
  <2> QED BY <2>1, <2>2, <2>3, <2>4 DEF DuePending
<1>12. DueMatches'
  <2>1. \A o \in todo' : Matches(o, w) /\ Keys[o].folder \in prefix.folders
    BY <1>1, <1>3, <1>6
  <2> QED BY <1>2, <1>3, <1>9, <2>1 DEF DueMatches, InstallAtRest, prefix, OwnBackup, Matches, IdPrefix
<1> QED BY <1>10, <1>11, <1>12 DEF InstallInv

LEMMA DeleteNextKeeps ==
    ASSUME InstallInv, DeleteNext
    PROVE  InstallInv'
<1> DEFINE o == Min(todo)
<1>1. /\ install = "delete" /\ UNCHANGED <<request, at, jobs>>
      /\ todo' = todo \ {o}
      /\ install' = IF todo' = {} THEN "job" ELSE "delete"
      /\ \/ bucket' = bucket \ {o} /\ due' = due
         \/ bucket' = bucket /\ due' = due \ {o}
  BY DEF DeleteNext, DeleteObject
<1> HIDE DEF o
<1>2. /\ due \cap bucket \subseteq todo
      /\ request \in [user : Users, body : Bodies]
      /\ \A p \in due : OwnBackup(p, request.user) /\ Matches(p, request.body.prefix)
      /\ \A p \in todo : /\ Matches(p, request.body.prefix)
                         /\ Keys[p].folder \in IdPrefix("backups", request.user).folders
  BY <1>1 DEF InstallInv, DuePending, DueMatches, InstallAtRest
<1>3. InstallTyped'
  BY <1>1 DEF InstallInv, InstallTyped
<1>4. due' \cap bucket' \subseteq todo'
  BY <1>1, <1>2
<1>5. DuePending'
  BY <1>1, <1>4 DEF DuePending
<1>6. DueMatches'
  <2>1. due' \subseteq due /\ todo' \subseteq todo
    BY <1>1
  <2>2. install' = "delete" => todo' # {}
    BY <1>1
  <2> QED BY <1>1, <1>2, <2>1, <2>2 DEF DueMatches, InstallAtRest, OwnBackup, Matches, IdPrefix
<1> QED BY <1>3, <1>5, <1>6 DEF InstallInv

(* The end of a request, with nothing due if it is answered with 201       *)
LEMMA EndInstallTypes ==
    ASSUME NEW answer \in {"201", "500", "aborted"}, EndInstall(answer),
           jobs' \subseteq Users, due' \subseteq Objects,
           answer = "201" => due' \cap bucket' = {}
    PROVE  InstallInv'
<1>1. InstallTyped'
  BY DEF EndInstall, InstallTyped
<1>2. DuePending' /\ DueMatches'
  BY DEF EndInstall, DuePending, DueMatches, InstallAtRest
<1> QED BY <1>1, <1>2 DEF InstallInv

LEMMA CreateFileJobKeeps ==
    ASSUME InstallInv, CreateFileJob
    PROVE  InstallInv'
<1>1. install = "job" /\ due' = due /\ bucket' = bucket
  BY DEF CreateFileJob
<1>2. due \subseteq Objects /\ jobs \subseteq Users /\ due \cap bucket = {} /\ request.user \in Users
  BY <1>1 DEF InstallInv, InstallTyped, DuePending, DueMatches, InstallAtRest
<1>3. CASE jobs' = jobs \cup {request.user} /\ EndInstall("201")
  BY <1>1, <1>2, <1>3, EndInstallTypes
<1>4. CASE jobs' = jobs /\ EndInstall("500")
  BY <1>1, <1>2, <1>4, EndInstallTypes
<1> QED BY <1>3, <1>4 DEF CreateFileJob

LEMMA InstallAbortedKeeps ==
    ASSUME InstallInv, InstallAborted, bucket' = bucket
    PROVE  InstallInv'
<1>1. CASE InstallAtRest
  BY <1>1, InstallUnchanged DEF InstallAborted
<1>2. CASE ~InstallAtRest
  BY <1>2, EndInstallTypes DEF InstallAborted, InstallInv, InstallTyped
<1> QED BY <1>1, <1>2

(* What is written again is not due any more.                              *)
LEMMA WriteKeeps ==
    ASSUME InstallInv, NEW o \in Objects, PutObject(o), due' = due \ {o}, UNCHANGED installVars
    PROVE  InstallInv'
<1>1. due' \cap bucket' \subseteq due \cap bucket /\ due' \subseteq due
  BY DEF PutObject
<1> USE DEF installVars
<1>2. InstallTyped'
  BY <1>1 DEF InstallInv, InstallTyped
<1>3. DuePending'
  BY <1>1 DEF InstallInv, DuePending
<1>4. DueMatches'
  BY <1>1 DEF InstallInv, DueMatches, InstallAtRest, OwnBackup, Matches, IdPrefix
<1> QED BY <1>2, <1>3, <1>4 DEF InstallInv

-----------------------------------------------------------------------------
(* Every step keeps the invariant.                                         *)

LEMMA InitIInv ==
    ASSUME Init
    PROVE  IInv
<1> USE DEF Init, ListingInit, InstallInit
<1>1. ListingTyped
  <2>1. found \in [Workers -> Slice]
    BY EmptyTyped
  <2>2. chan \in [Channels -> Seq(Slice)]
    <3>1. <<>> \in Seq(Slice)
      OBVIOUS
    <3> HIDE DEF Slice
    <3> QED BY <3>1
  <2>3. worker \in [Workers -> {"idle", "listing", "sending", "done"}] /\ pos \in [Workers -> Nat]
    OBVIOUS
  <2> QED BY <2>1, <2>2, <2>3 DEF ListingTyped
<1>2. ListsCounted
  BY DEF ListsCounted, Sent, Workers, Channels
<1>3. ListingShape
  BY DEF ListingShape
<1>4. InstallInv
  BY DEF InstallInv, InstallTyped, DuePending, DueMatches, InstallAtRest
<1>5. BucketTyped
  BY InstallAssumption, BucketAssumption DEF BucketTyped
<1> QED BY <1>1, <1>2, <1>3, <1>4, <1>5 DEF IInv, ListingInv

(* The histories and the counters                                          *)
LEMMA BucketKeeps ==
    ASSUME BucketTyped, Next
    PROVE  BucketTyped'
<1> USE DEF BucketTyped
<1>1. bucket \subseteq Objects /\ stayed \subseteq Objects /\ seen \subseteq Objects
  OBVIOUS
<1>2. ASSUME NEW u \in Clients, BeginListing(u) PROVE BucketTyped'
  BY <1>2 DEF BeginListing
<1>3. ASSUME NEW u \in Clients, NEW b \in Bodies, BeginInstall(u, b) PROVE BucketTyped'
  BY <1>3 DEF BeginInstall, StartInstall
<1>4. CASE List
  BY <1>4 DEF List
<1>5. CASE Install
  <2>1. bucket' \subseteq bucket /\ faults' \in 0 .. MaxFaults
    BY <1>5, InstallAssumption
    DEF Install, InstallWork, ListBackups, DeleteNext, CreateFileJob, DeleteObject, Fault, NoFault
  <2> QED BY <1>1, <1>5, <2>1 DEF Install, Observed
<1>6. CASE Write
  <2>1. bucket' \subseteq Objects /\ writes' \in 0 .. MaxWrites
    BY <1>6, BucketAssumption DEF Write, PutObject
  <2> QED BY <1>1, <1>6, <2>1 DEF Write, Observed
<1>7. CASE Exit
  BY <1>7, InstallAssumption DEF Exit, Fault
<1> QED BY <1>2, <1>3, <1>4, <1>5, <1>6, <1>7 DEF Next

LEMMA NextIInv ==
    ASSUME IInv, Next
    PROVE  IInv'
<1>1. BucketTyped'
  BY BucketKeeps DEF IInv
<1>2. bucket \subseteq Objects /\ ListingInv /\ InstallInv
  BY DEF IInv, BucketTyped
<1>3. ASSUME NEW u \in Clients, BeginListing(u) PROVE ListingInv' /\ InstallInv'
  <2>1. u \in Users
    BY InstallAssumption
  <2>2. StartListing(u) /\ UNCHANGED <<bucket, installVars, due>>
    BY <1>3 DEF BeginListing
  <2> QED BY <1>2, <2>1, <2>2, StartListingKeeps, InstallUnchanged
<1>4. ASSUME NEW u \in Clients, NEW b \in Bodies, BeginInstall(u, b)
      PROVE  ListingInv' /\ InstallInv'
  <2>1. StartInstall(u, b) /\ UNCHANGED listingVars
    BY <1>4 DEF BeginInstall
  <2>2. ListingInv'
    BY <1>2, <2>1, ListingUnchanged
  <2>3. InstallInv'
    BY <1>2, <2>1, StartInstallKeeps
  <2> QED BY <2>2, <2>3
<1>5. ASSUME List PROVE ListingInv' /\ InstallInv'
  <2>1. ListingWork /\ UNCHANGED <<bucket, installVars, due>>
    BY <1>5 DEF List
  <2>2. ListingInv'
    BY <1>2, <2>1, ListingWorkKeeps
  <2>3. InstallInv'
    BY <1>2, <2>1, InstallUnchanged
  <2> QED BY <2>2, <2>3
<1>6. ASSUME Install PROVE ListingInv' /\ InstallInv'
  <2>1. InstallWork /\ UNCHANGED listingVars
    BY <1>6 DEF Install
  <2>2. ListingInv'
    BY <1>2, <2>1, ListingUnchanged
  <2>3. InstallInv'
    BY <1>2, <2>1, ListBackupsKeeps, DeleteNextKeeps, CreateFileJobKeeps DEF InstallWork
  <2> QED BY <2>2, <2>3
<1>7. ASSUME Write PROVE ListingInv' /\ InstallInv'
  <2>1. PICK o \in Objects : PutObject(o) /\ due' = due \ {o}
    BY <1>7 DEF Write
  <2>2. UNCHANGED listingVars /\ UNCHANGED installVars
    BY <1>7 DEF Write
  <2>3. ListingInv'
    BY <1>2, <2>2, ListingUnchanged
  <2>4. InstallInv'
    BY <1>2, <2>1, <2>2, WriteKeeps
  <2> QED BY <2>3, <2>4
<1>8. ASSUME Exit PROVE ListingInv' /\ InstallInv'
  <2>1. ListingAborted /\ InstallAborted /\ bucket' = bucket
    BY <1>8 DEF Exit
  <2>2. ListingInv'
    BY <1>2, <2>1, ListingUnchanged, EndListingTypes DEF ListingAborted
  <2> QED BY <1>2, <2>1, <2>2, InstallAbortedKeeps
<1>9. ListingInv' /\ InstallInv'
  BY <1>3, <1>4, <1>5, <1>6, <1>7, <1>8 DEF Next
<1> QED BY <1>1, <1>9 DEF IInv

LEMMA StutterIInv ==
    ASSUME IInv, UNCHANGED vars
    PROVE  IInv'
<1>1. UNCHANGED listingVars /\ UNCHANGED installVars
      /\ UNCHANGED <<bucket, due, faults, writes, stayed, seen>>
  BY DEF vars
<1>2. ListingInv' /\ InstallInv'
  BY <1>1, ListingUnchanged, InstallUnchanged DEF IInv
<1>3. BucketTyped'
  BY <1>1 DEF IInv, BucketTyped
<1> QED BY <1>2, <1>3 DEF IInv

(* The invariant holds of every behavior.                                  *)
THEOREM InvariantHolds == Spec => []IInv
<1>1. IInv /\ [Next]_vars => IInv'
  BY NextIInv, StutterIInv
<1> QED BY InitIInv, <1>1, PTL DEF Spec

-----------------------------------------------------------------------------
(* The variables of the listing, of the install handler and of the bucket  *)
(* keep their types: every request that is at work has its user and body.  *)
THEOREM TypeCorrect == Spec => []TypeOK
BY InvariantHolds, TypesFollow, PTL

(* However the four goroutines of GET /api/v1/file interleave and whatever *)
(* the folders hold, no send meets a full or a closed channel              *)
(* (file_handler.go:46-49).                                                *)
THEOREM SendersNeverBlock == Spec => []SendsNeverBlock
<1>1. IInv => SendsNeverBlock
  BY RoomToSend DEF IInv
<1> QED BY InvariantHolds, <1>1, PTL

(* However the pages are cut and whatever is written or deleted meanwhile, *)
(* a deletion answered with 201 has left no backup of the world, but for   *)
(* those a failed call has spared or someone has written again             *)
(* (install_file_job_handler.go:102-143).                                  *)
THEOREM WorldIsGone == Spec => []WorldGone
<1>1. IInv => WorldGone
  BY DEF IInv, InstallInv, DuePending, WorldGone
<1> QED BY InvariantHolds, <1>1, PTL

-----------------------------------------------------------------------------
(* What a listing answers.  A channel holds at most two lists, for which   *)
(* the fold of Response is unrolled.                                       *)

LEMMA MaxTwo == Max({1}) = 1 /\ Max({2}) = 2 /\ Max({1, 2}) = 2
  BY DEF Max

LEMMA PlusTwo ==
    ASSUME NEW q, DOMAIN q = {1, 2}
    PROVE  FoldLeft(Plus, Empty, q) = Plus(Plus(Empty, q[1]), q[2])
<1> DEFINE Rhs(f) == [s \in SUBSET DOMAIN q |->
                        IF s = {} THEN Empty ELSE Plus(f[s \ {Max(s)}], q[Max(s)])]
           iter == CHOOSE f : f = Rhs(f)
           g == [s \in SUBSET DOMAIN q |->
                    IF s = {} THEN Empty
                    ELSE IF s = {1} THEN Plus(Empty, q[1])
                    ELSE IF s = {2} THEN Plus(Empty, q[2])
                    ELSE Plus(Plus(Empty, q[1]), q[2])]
<1>1. FoldLeft(Plus, Empty, q) = iter[DOMAIN q]
  BY DEF FoldLeft, MapThenFoldSet
<1>2. \A s \in SUBSET DOMAIN q : s \in {{}, {1}, {2}, {1, 2}}
  OBVIOUS
<1>3. g = Rhs(g)
  <2>1. ASSUME NEW s \in SUBSET DOMAIN q
        PROVE  g[s] = IF s = {} THEN Empty ELSE Plus(g[s \ {Max(s)}], q[Max(s)])
    <3>1. CASE s = {}
      BY <3>1
    <3>2. CASE s = {1}
      <4>1. s \ {Max(s)} = {} /\ Max(s) = 1 /\ s # {}
        BY <3>2, MaxTwo
      <4>2. g[{}] = Empty /\ g[s] = Plus(Empty, q[1])
        BY <3>2
      <4> QED
        BY <4>1, <4>2
    <3>3. CASE s = {2}
      <4>1. s \ {Max(s)} = {} /\ Max(s) = 2 /\ s # {} /\ s # {1}
        BY <3>3, MaxTwo
      <4>2. g[{}] = Empty /\ g[s] = Plus(Empty, q[2])
        BY <3>3, <4>1
      <4> QED
        BY <4>1, <4>2
    <3>4. CASE s = {1, 2}
      <4>1. s \ {Max(s)} = {1} /\ Max(s) = 2 /\ s # {} /\ s # {1} /\ s # {2}
        BY <3>4, MaxTwo
      <4>2. g[{1}] = Plus(Empty, q[1]) /\ g[s] = Plus(Plus(Empty, q[1]), q[2])
        BY <4>1
      <4> QED
        BY <4>1, <4>2
    <3> QED
      BY <1>2, <3>1, <3>2, <3>3, <3>4
  <2> HIDE DEF g
  <2>2. g = [s \in SUBSET DOMAIN q |-> g[s]]
    BY DEF g
  <2> QED
    BY <2>1, <2>2
<1>4. iter = Rhs(iter)
  <2> HIDE DEF g, Rhs
  <2> QED
    BY <1>3
<1> HIDE DEF iter
<1>5. \A s \in SUBSET DOMAIN q :
          iter[s] = IF s = {} THEN Empty ELSE Plus(iter[s \ {Max(s)}], q[Max(s)])
  BY <1>4
<1>6. iter[{}] = Empty
  BY <1>5
<1>7. iter[{1}] = Plus(Empty, q[1])
  <2>1. {1} \in SUBSET DOMAIN q /\ {1} # {} /\ {1} \ {Max({1})} = {} /\ Max({1}) = 1
    BY MaxTwo
  <2> QED
    BY <1>5, <1>6, <2>1
<1>8. iter[{1, 2}] = Plus(iter[{1}], q[2])
  <2>1. {1, 2} \in SUBSET DOMAIN q /\ {1, 2} # {} /\ {1, 2} \ {Max({1, 2})} = {1} /\ Max({1, 2}) = 2
    BY MaxTwo
  <2> QED
    BY <1>5, <2>1
<1> QED
  BY <1>1, <1>7, <1>8

LEMMA PlusOne ==
    ASSUME NEW q, DOMAIN q = {1}
    PROVE  FoldLeft(Plus, Empty, q) = Plus(Empty, q[1])
<1> DEFINE Rhs(f) == [s \in SUBSET DOMAIN q |->
                        IF s = {} THEN Empty ELSE Plus(f[s \ {Max(s)}], q[Max(s)])]
           iter == CHOOSE f : f = Rhs(f)
           g == [s \in SUBSET DOMAIN q |-> IF s = {} THEN Empty ELSE Plus(Empty, q[1])]
<1>1. FoldLeft(Plus, Empty, q) = iter[DOMAIN q]
  BY DEF FoldLeft, MapThenFoldSet
<1>2. {1} \in SUBSET DOMAIN q /\ {1} # {} /\ {1} \ {Max({1})} = {} /\ Max({1}) = 1
  BY MaxTwo
<1>3. g = Rhs(g)
  <2>1. g[{}] = Empty /\ g[{1}] = Plus(Empty, q[1])
    OBVIOUS
  <2>2. ASSUME NEW s \in SUBSET DOMAIN q
        PROVE  g[s] = IF s = {} THEN Empty ELSE Plus(g[s \ {Max(s)}], q[Max(s)])
    <3>1. s = {} \/ s = {1}
      OBVIOUS
    <3> HIDE DEF g
    <3> QED
      BY <1>2, <2>1, <3>1
  <2>3. g = [s \in SUBSET DOMAIN q |-> g[s]]
    OBVIOUS
  <2> HIDE DEF g
  <2> QED
    BY <2>2, <2>3
<1>4. iter = Rhs(iter)
  <2> HIDE DEF g, Rhs
  <2> QED
    BY <1>3
<1> HIDE DEF iter
<1>5. \A s \in SUBSET DOMAIN q :
          iter[s] = IF s = {} THEN Empty ELSE Plus(iter[s \ {Max(s)}], q[Max(s)])
  BY <1>4
<1>6. iter[{}] = Empty
  BY <1>5
<1>7. iter[{1}] = Plus(Empty, q[1])
  BY <1>2, <1>5, <1>6
<1> QED
  BY <1>1, <1>7

-----------------------------------------------------------------------------
(* The objects that goroutine w is to list                                 *)
Lists(w, o) == Keys[o].folder \in Prefix(w, lister).folders /\ Keys[o].name # "root"

Faithful(s, w) ==
    \A o \in Objects : s[o] \in {0, 1} /\ (s[o] = 1 => o \in seen /\ Lists(w, o))

Good(s, w) == Faithful(s, w) /\ \A o \in stayed : Lists(w, o) => s[o] = 1

(* Up to the key it has read to, a goroutine has collected every object    *)
(* that was there all the time, once, and nothing behind that key.         *)
Gathered(w) ==
    /\ worker[w] = "listing" =>
        /\ Faithful(found[w], w)
        /\ \A o \in Objects : found[w][o] = 1 => o <= pos[w]
        /\ \A o \in stayed : Lists(w, o) /\ o <= pos[w] => found[w][o] = 1
    /\ worker[w] = "sending" => Good(found[w], w)

(* Each goroutine that is done has its list in its channel.                *)
Delivered(slot) ==
    /\ \A w \in Workers : worker[w] = "done" =>
        /\ slot[w] \in 1 .. Len(chan[Channel(w)])
        /\ Good(chan[Channel(w)][slot[w]], w)
    /\ \A v, w \in Workers :
        v # w /\ worker[v] = "done" /\ worker[w] = "done" /\ Channel(v) = Channel(w)
            => slot[v] # slot[w]

ContentsInv ==
    /\ ListingAtRest => \A w \in Workers : found[w] = Empty /\ pos[w] = 0
    /\ ~ListingAtRest =>
        /\ lister \in Users
        /\ ~closed => stayed \subseteq bucket /\ bucket \subseteq seen
        /\ \A w \in Workers : Gathered(w)
        /\ \E slot \in [Workers -> {1, 2}] : Delivered(slot)


(* The bucket may change under a listing that stays where it is.           *)
LEMMA ContentsStay ==
    ASSUME ContentsInv, UNCHANGED listingVars,
           ~ListingAtRest => /\ stayed' \subseteq stayed /\ seen \subseteq seen'
                             /\ ~closed => stayed' \subseteq bucket' /\ bucket' \subseteq seen'
    PROVE  ContentsInv'
<1>1. UNCHANGED <<listing, lister, worker, pos, found, chan, closed>>
  BY DEF listingVars
<1>2. CASE ListingAtRest
  BY <1>1, <1>2 DEF ContentsInv, ListingAtRest
<1>3. CASE ~ListingAtRest
  <2>1. stayed' \subseteq stayed /\ seen \subseteq seen'
    BY <1>3
  <2>2. \A w, o : Lists(w, o)' <=> Lists(w, o)
    BY <1>1 DEF Lists, Prefix, FolderPrefix
  <2>3. ASSUME NEW w \in Workers PROVE Gathered(w)'
    <3>1. Gathered(w)
      BY <1>3 DEF ContentsInv
    <3> QED
      BY <1>1, <2>1, <2>2, <3>1 DEF Gathered, Good, Faithful
  <2>4. PICK slot \in [Workers -> {1, 2}] : Delivered(slot)
    BY <1>3 DEF ContentsInv
  <2>5. Delivered(slot)'
    <3>1. ASSUME NEW w \in Workers, worker'[w] = "done"
          PROVE  /\ slot[w] \in 1 .. Len(chan'[Channel(w)])
                 /\ Good(chan[Channel(w)][slot[w]], w)'
      <4>1. /\ slot[w] \in 1 .. Len(chan[Channel(w)])
            /\ Good(chan[Channel(w)][slot[w]], w)
        BY <1>1, <2>4, <3>1 DEF Delivered
      <4> QED
        BY <1>1, <2>1, <2>2, <4>1 DEF Good, Faithful
    <3>2. \A v, w \in Workers :
              v # w /\ worker'[v] = "done" /\ worker'[w] = "done" /\ Channel(v) = Channel(w)
                  => slot[v] # slot[w]
      BY <1>1, <2>4 DEF Delivered
    <3> QED
      BY <3>1, <3>2 DEF Delivered
  <2> QED
    BY <1>1, <1>3, <2>3, <2>4, <2>5 DEF ContentsInv, ListingAtRest
<1> QED
  BY <1>2, <1>3

LEMMA BeginListingContents ==
    ASSUME ListingInv, ContentsInv, bucket \subseteq Objects, NEW u \in Users, BeginListing(u)
    PROVE  ContentsInv'
<1>1. /\ ListingAtRest /\ listing' = "errors" /\ lister' = u
      /\ worker' = [w \in Workers |-> "listing"]
      /\ UNCHANGED <<pos, found, chan, closed, bucket>>
      /\ stayed' = bucket /\ seen' = bucket
  BY DEF BeginListing, StartListing
<1>2. \A w \in Workers : found'[w] = Empty /\ pos'[w] = 0
  BY <1>1 DEF ContentsInv
<1>3. \A o \in Objects : Empty[o] = 0 /\ ~(o <= 0)
  BY KeyTyped DEF Empty
<1>4. ASSUME NEW w \in Workers PROVE Gathered(w)'
  BY <1>1, <1>2, <1>3 DEF Gathered, Faithful
<1>5. ASSUME NEW slot \in [Workers -> {1, 2}] PROVE Delivered(slot)'
  BY <1>1 DEF Delivered
<1>6. ~closed
  BY <1>1 DEF ListingInv, ListingShape
<1>7. [w \in Workers |-> 1] \in [Workers -> {1, 2}]
  OBVIOUS
<1> QED
  BY <1>1, <1>4, <1>5, <1>7 DEF ContentsInv, ListingAtRest

(* A page of a folder, without its root object                             *)
LEMMA FolderPage ==
    ASSUME bucket \subseteq Objects, NEW prefix, prefix.slash, NEW from \in Nat,
           NEW page \in Pages(prefix, from)
    PROVE  /\ page.last \in Nat /\ from <= page.last
           /\ page.contents = {o \in Remaining(prefix, from) :
                                  o <= page.last /\ Keys[o].name # "root"}
           /\ page.more \/ \A o \in Remaining(prefix, from) : o <= page.last
<1> DEFINE left == Remaining(prefix, from)
           UpTo(last) == {o \in left : o <= last}
           Shown(last) == {o \in UpTo(last) : prefix.slash => Keys[o].name # "root"}
           Page(last) == [contents |-> Shown(last), last |-> last, more |-> UpTo(last) # left]
<1>1. left \subseteq Nat /\ \A o \in left : o > from
  BY ObjectsAreNumbers DEF Remaining, Objects
<1>2. PICK last \in left \cup {from} : page = Page(last)
  <2>1. CASE left = {}
    BY <2>1 DEF Pages
  <2>2. CASE left # {}
    BY <2>2 DEF Pages
  <2> QED
    BY <2>1, <2>2
<1>3. page.contents = Shown(last) /\ page.last = last /\ (page.more <=> UpTo(last) # left)
  BY <1>2
<1>4. last \in Nat /\ from <= last
  BY <1>1, <1>2
<1>5. UpTo(last) = left => \A o \in left : o <= last
  OBVIOUS
<1>6. Shown(last) = {o \in left : o <= last /\ Keys[o].name # "root"}
  OBVIOUS
<1> HIDE DEF left
<1> QED
  BY <1>3, <1>4, <1>5, <1>6 DEF left

LEMMA PrefixSlash == ASSUME NEW w \in Workers, NEW u PROVE Prefix(w, u).slash
  BY DEF Workers, Prefix, FolderPrefix

LEMMA ListObjectsContents ==
    ASSUME ListingInv, ContentsInv, bucket \subseteq Objects, ~ListingAtRest,
           NEW w \in Workers, ListObjects(w), UNCHANGED <<bucket, stayed, seen>>
    PROVE  ContentsInv'
<1>1. PICK page \in Pages(Prefix(w, lister), pos[w]) :
          /\ found' = [found EXCEPT ![w] = Extend(@, page.contents)]
          /\ pos' = [pos EXCEPT ![w] = page.last]
          /\ worker' = [worker EXCEPT ![w] = IF page.more THEN "listing" ELSE "sending"]
  BY DEF ListObjects
<1>2. worker[w] = "listing" /\ UNCHANGED <<listing, lister, chan, closed>>
  BY DEF ListObjects
<1>3. PICK last, os : last = page.last /\ os = page.contents
  OBVIOUS
<1>4. /\ pos[w] \in Nat /\ last \in Nat /\ pos[w] <= last
      /\ os = {o \in Remaining(Prefix(w, lister), pos[w]) : o <= last /\ Keys[o].name # "root"}
      /\ page.more \/ \A o \in Remaining(Prefix(w, lister), pos[w]) : o <= last
  BY <1>3, FolderPage, PrefixSlash DEF ListingInv, ListingTyped
<1>5. /\ \A o \in Objects : found'[w][o] = IF o \in os THEN found[w][o] + 1 ELSE found[w][o]
      /\ pos'[w] = last
      /\ worker'[w] = IF page.more THEN "listing" ELSE "sending"
  BY <1>1, <1>3 DEF Extend, ListingInv, ListingTyped
<1>6. \A v \in Workers : v # w => /\ found'[v] = found[v] /\ pos'[v] = pos[v]
                                  /\ worker'[v] = worker[v]
  BY <1>1 DEF ListingInv, ListingTyped
<1>7. ~closed /\ stayed \subseteq bucket /\ bucket \subseteq seen
  BY <1>2 DEF ListingInv, ListingShape, ContentsInv
<1>8. \A v, o : Lists(v, o)' <=> Lists(v, o)
  BY <1>2 DEF Lists, Prefix, FolderPrefix
<1>9. /\ Faithful(found[w], w)
      /\ \A o \in Objects : found[w][o] = 1 => o <= pos[w]
      /\ \A o \in stayed : Lists(w, o) /\ o <= pos[w] => found[w][o] = 1
  BY <1>2 DEF ContentsInv, Gathered
<1>10. \A o : o \in os <=> o \in bucket /\ o > pos[w] /\ Lists(w, o) /\ o <= last
  BY <1>4 DEF Remaining, Lists
<1>11. \A o \in Objects : o \in Nat
  BY KeyTyped
<1>12. ASSUME NEW o \in Objects
       PROVE  /\ found'[w][o] \in {0, 1}
              /\ found'[w][o] = 1 => o \in seen /\ Lists(w, o) /\ o <= last
              /\ o \in stayed /\ Lists(w, o) /\ o <= last => found'[w][o] = 1
  <2>1. found[w][o] \in {0, 1} /\ (found[w][o] = 1 => o \in seen /\ Lists(w, o) /\ o <= pos[w])
    BY <1>9 DEF Faithful
  <2>2. CASE o \in os
    <3>1. found[w][o] = 0
      BY <1>4, <1>10, <1>11, <2>1, <2>2
    <3> QED
      BY <1>5, <1>7, <1>10, <2>2, <3>1
  <2>3. CASE o \notin os
    <3>1. found'[w][o] = found[w][o]
      BY <1>5, <2>3
    <3>2. o \in stayed /\ Lists(w, o) /\ o <= last => o <= pos[w]
      BY <1>4, <1>7, <1>10, <1>11, <2>3
    <3> QED
      BY <1>4, <1>9, <1>11, <2>1, <3>1, <3>2
  <2> QED
    BY <2>2, <2>3
<1>13. ~page.more => \A o \in stayed : Lists(w, o) => o <= last
  <2> SUFFICES ASSUME ~page.more, NEW o \in stayed, Lists(w, o) PROVE o <= last
    OBVIOUS
  <2>1. o \in bucket /\ o \in Nat
    BY <1>7, <1>11
  <2>2. CASE o <= pos[w]
    BY <1>4, <2>1, <2>2
  <2>3. CASE o > pos[w]
    BY <1>4, <2>1, <2>3 DEF Remaining, Lists
  <2> QED
    BY <1>4, <2>1, <2>2, <2>3
<1>14. stayed \subseteq Objects
  BY <1>7
<1>15. ASSUME NEW v \in Workers PROVE Gathered(v)'
  <2>1. Gathered(v)
    BY DEF ContentsInv
  <2>2. CASE v # w
    BY <1>6, <1>8, <2>1, <2>2 DEF Gathered, Good, Faithful
  <2>3. CASE v = w /\ page.more
    BY <1>5, <1>8, <1>12, <1>14, <2>3 DEF Gathered, Faithful
  <2>4. CASE v = w /\ ~page.more
    BY <1>5, <1>8, <1>12, <1>13, <1>14, <2>4 DEF Gathered, Good, Faithful
  <2> QED
    BY <2>2, <2>3, <2>4
<1>16. PICK slot \in [Workers -> {1, 2}] : Delivered(slot)
  BY DEF ContentsInv
<1>17. Delivered(slot)'
  <2>1. \A v \in Workers : worker'[v] = "done" <=> worker[v] = "done"
    BY <1>2, <1>5, <1>6
  <2> QED
    BY <1>2, <1>8, <1>16, <2>1 DEF Delivered, Good, Faithful
<1> QED
  BY <1>2, <1>7, <1>15, <1>16, <1>17 DEF ContentsInv, ListingAtRest

LEMMA SendContents ==
    ASSUME ListingInv, ContentsInv, ~ListingAtRest, NEW w \in Workers, Send(w),
           UNCHANGED <<bucket, stayed, seen>>
    PROVE  ContentsInv'
<1>1. /\ worker[w] = "sending" /\ Len(chan[Channel(w)]) < Capacity(Channel(w))
      /\ chan' = [chan EXCEPT ![Channel(w)] = Append(@, found[w])]
      /\ worker' = [worker EXCEPT ![w] = "done"]
      /\ found' = [found EXCEPT ![w] = Empty]
      /\ UNCHANGED <<listing, lister, closed>>
      /\ pos' = [pos EXCEPT ![w] = 0]
  BY DEF Send
<1>2. \A v \in Workers : Channel(v) \in Channels
  BY DEF Channel, Channels, Workers
<1>3. \A v \in Workers : v # w => /\ worker'[v] = worker[v] /\ found'[v] = found[v]
                                  /\ pos'[v] = pos[v]
  BY <1>1 DEF ListingInv, ListingTyped
<1>4. worker'[w] = "done"
  BY <1>1 DEF ListingInv, ListingTyped
<1>5. \A v, o : Lists(v, o)' <=> Lists(v, o)
  BY <1>1 DEF Lists, Prefix, FolderPrefix
<1>6. PICK q, s, n : q = chan[Channel(w)] /\ s = found[w] /\ n = Len(q) + 1
  OBVIOUS
<1>7. q \in Seq(Slice) /\ s \in Slice /\ n \in {1, 2}
  <2>1. q \in Seq(Slice) /\ s \in Slice
    BY <1>2, <1>6 DEF ListingInv, ListingTyped
  <2>2. Len(q) \in Nat /\ Len(q) < 2
    BY <1>1, <1>6, <2>1 DEF Capacity
  <2> QED
    BY <1>6, <2>1, <2>2
<1>8. chan'[Channel(w)] = Append(q, s)
  BY <1>1, <1>2, <1>6 DEF ListingInv, ListingTyped
<1>9. \A ch \in Channels : ch # Channel(w) => chan'[ch] = chan[ch]
  BY <1>1 DEF ListingInv, ListingTyped
<1>10. /\ Len(Append(q, s)) = n /\ Append(q, s)[n] = s
       /\ \A i \in 1 .. Len(q) : i \in 1 .. n /\ i # n /\ Append(q, s)[i] = q[i]
  <2> HIDE DEF Slice
  <2> QED
    BY <1>6, <1>7
<1>11. Good(s, w)
  BY <1>1, <1>6 DEF ContentsInv, Gathered
<1>12. PICK slot \in [Workers -> {1, 2}] : Delivered(slot)
  BY DEF ContentsInv
<1>13. PICK new \in [Workers -> {1, 2}] : new = [slot EXCEPT ![w] = n]
  BY <1>7
<1>14. new[w] = n /\ \A v \in Workers : v # w => new[v] = slot[v]
  BY <1>13
<1>15. ASSUME NEW v \in Workers, worker'[v] = "done"
       PROVE  /\ new[v] \in 1 .. Len(chan'[Channel(v)])
              /\ Good(chan[Channel(v)][new[v]], v)'
  <2>1. CASE v = w
    <3>1. new[v] \in 1 .. Len(chan'[Channel(v)]) /\ chan'[Channel(v)][new[v]] = s
      BY <1>7, <1>8, <1>10, <1>14, <2>1
    <3> QED
      BY <1>1, <1>5, <1>11, <2>1, <3>1 DEF Good, Faithful
  <2>2. CASE v # w
    <3>1. slot[v] \in 1 .. Len(chan[Channel(v)]) /\ Good(chan[Channel(v)][slot[v]], v)
      BY <1>3, <1>12, <1>15, <2>2 DEF Delivered
    <3>2. /\ slot[v] \in 1 .. Len(chan'[Channel(v)])
          /\ chan'[Channel(v)][slot[v]] = chan[Channel(v)][slot[v]]
      BY <1>2, <1>6, <1>8, <1>9, <1>10, <3>1
    <3> QED
      BY <1>1, <1>5, <1>14, <2>2, <3>1, <3>2 DEF Good, Faithful
  <2> QED
    BY <2>1, <2>2
<1>16. ASSUME NEW u \in Workers, NEW v \in Workers, u # v,
              worker'[u] = "done", worker'[v] = "done", Channel(u) = Channel(v)
       PROVE  new[u] # new[v]
  <2>1. \A x \in Workers : x # w /\ worker'[x] = "done" => slot[x] \in 1 .. Len(chan[Channel(x)])
    BY <1>3, <1>12 DEF Delivered
  <2>2. CASE u # w /\ v # w
    BY <1>3, <1>12, <1>14, <1>16, <2>2 DEF Delivered
  <2>3. CASE u = w
    BY <1>6, <1>10, <1>14, <1>16, <2>1, <2>3
  <2>4. CASE v = w
    BY <1>6, <1>10, <1>14, <1>16, <2>1, <2>4
  <2> QED
    BY <2>2, <2>3, <2>4
<1>17. Delivered(new)'
  BY <1>15, <1>16 DEF Delivered
<1>18. ASSUME NEW v \in Workers PROVE Gathered(v)'
  <2>1. Gathered(v)
    BY DEF ContentsInv
  <2>2. CASE v = w
    BY <1>4, <2>2 DEF Gathered
  <2>3. CASE v # w
    BY <1>3, <1>5, <2>1, <2>3 DEF Gathered, Good, Faithful
  <2> QED
    BY <2>2, <2>3
<1> QED
  BY <1>1, <1>17, <1>18 DEF ContentsInv, ListingAtRest

LEMMA CloseChannelsContents ==
    ASSUME ListingInv, ContentsInv, CloseChannels, UNCHANGED <<bucket, stayed, seen>>
    PROVE  ContentsInv'
<1>1. /\ ~ListingAtRest /\ ~ListingAtRest' /\ closed'
      /\ UNCHANGED <<listing, lister, worker, pos, found, chan>>
  BY DEF CloseChannels, ListingAtRest
<1>2. \A v, o : Lists(v, o)' <=> Lists(v, o)
  BY <1>1 DEF Lists, Prefix, FolderPrefix
<1>3. ASSUME NEW v \in Workers PROVE Gathered(v)'
  <2>1. Gathered(v)
    BY <1>1 DEF ContentsInv
  <2> QED
    BY <1>1, <1>2, <2>1 DEF Gathered, Good, Faithful
<1>4. PICK slot \in [Workers -> {1, 2}] : Delivered(slot)
  BY <1>1 DEF ContentsInv
<1>5. Delivered(slot)'
  BY <1>1, <1>2, <1>4 DEF Delivered, Good, Faithful
<1> QED
  BY <1>1, <1>3, <1>4, <1>5 DEF ContentsInv

LEMMA EndListingContents ==
    ASSUME NEW answer \in {"200", "aborted"}, EndListing(answer)
    PROVE  ContentsInv'
  BY DEF EndListing, ContentsInv, ListingAtRest

LEMMA NextContents ==
    ASSUME IInv, ContentsInv, [Next]_vars
    PROVE  ContentsInv'
<1>1. /\ ListingInv /\ bucket \subseteq Objects
      /\ stayed \subseteq Objects /\ seen \subseteq Objects
  BY DEF IInv, BucketTyped
<1>2. ~ListingAtRest => listing = "errors"
  BY <1>1 DEF ListingInv, ListingTyped, ListingAtRest
<1>3. ASSUME NEW u \in Clients, BeginListing(u) PROVE ContentsInv'
  BY <1>1, <1>3, InstallAssumption, BeginListingContents
<1>4. ASSUME NEW u \in Clients, NEW b \in Bodies, BeginInstall(u, b) PROVE ContentsInv'
  <2>1. UNCHANGED <<bucket, stayed, seen>> /\ UNCHANGED listingVars
    BY <1>4 DEF BeginInstall, StartInstall
  <2> QED
    BY <2>1, ContentsStay DEF ContentsInv
<1>5. CASE List
  <2>1. UNCHANGED bucket /\ ListingWork
    BY <1>5 DEF List
  <2>2. CASE Respond
    BY <2>2, EndListingContents DEF Respond
  <2>3. CASE (\E w \in Workers : ListObjects(w) \/ Send(w)) \/ CloseChannels
    <3>1. ~ListingAtRest
      BY <1>1, <2>3
      DEF ListObjects, Send, CloseChannels, ListingInv, ListingShape, ListingAtRest
    <3>2. listing' = listing
      BY <2>3 DEF ListObjects, Send, CloseChannels
    <3>3. UNCHANGED <<bucket, stayed, seen>>
      BY <1>2, <1>5, <3>1, <3>2 DEF List
    <3> QED
      BY <1>1, <2>3, <3>1, <3>3, ListObjectsContents, SendContents, CloseChannelsContents
  <2> QED
    BY <2>1, <2>2, <2>3 DEF ListingWork
<1>6. CASE Install \/ Write
  <2>1. UNCHANGED listingVars /\ Observed
    BY <1>6 DEF Install, Write
  <2>2. ~ListingAtRest => /\ stayed' \subseteq stayed /\ seen \subseteq seen'
                          /\ ~closed => stayed' \subseteq bucket' /\ bucket' \subseteq seen'
    BY <1>2, <2>1 DEF Observed
  <2> QED
    BY <2>1, <2>2, ContentsStay
<1>7. CASE Exit
  <2>1. CASE ListingAtRest
    BY <1>7, <2>1, ContentsStay DEF Exit, ListingAborted
  <2>2. CASE ~ListingAtRest
    BY <1>7, <2>2, EndListingContents DEF Exit, ListingAborted
  <2> QED
    BY <2>1, <2>2
<1>8. CASE UNCHANGED vars
  <2>1. UNCHANGED <<bucket, stayed, seen>> /\ UNCHANGED listingVars
    BY <1>8 DEF vars
  <2> QED
    BY <2>1, ContentsStay DEF ContentsInv
<1> QED
  BY <1>3, <1>4, <1>5, <1>6, <1>7, <1>8 DEF Next

-----------------------------------------------------------------------------
LEMMA ListsBelong ==
    ASSUME NEW o \in Objects, lister \in Users
    PROVE  /\ Belongs(o, "mods", lister) /\ Keys[o].name # "root"
                  <=> Lists("general", o) \/ Lists("mods", o)
           /\ ~(Lists("general", o) /\ Lists("mods", o))
           /\ Belongs(o, "configs", lister) /\ Keys[o].name # "root" <=> Lists("configs", o)
           /\ Belongs(o, "backups", lister) /\ Keys[o].name # "root" <=> Lists("backups", o)
<1>1. PICK f \in Folder : f = Keys[o].folder
  BY KeyTyped DEF Key
<1>2. PICK root, owner : f = [root |-> root, owner |-> owner]
  BY DEF Folder
<1>3. lister # "general"
  BY S3Assumption
<1> QED
  BY <1>1, <1>2, <1>3 DEF Lists, Prefix, FolderPrefix, Belongs

LEMMA AnswerFaithful ==
    ASSUME ListingInv, ContentsInv, closed, stayed \subseteq Objects
    PROVE  ListingFaithful
<1>1. ~ListingAtRest /\ lister \in Users /\ \A w \in Workers : worker[w] = "done"
  BY DEF ListingInv, ListingShape, ContentsInv
<1>2. PICK slot \in [Workers -> {1, 2}] : Delivered(slot)
  BY <1>1 DEF ContentsInv
<1>3. /\ Len(chan["mods"]) = 2 /\ Len(chan["configs"]) = 1 /\ Len(chan["backups"]) = 1
      /\ chan["mods"] \in Seq(Slice) /\ chan["configs"] \in Seq(Slice)
      /\ chan["backups"] \in Seq(Slice)
  BY <1>1 DEF ListingInv, ListingTyped, ListsCounted, Sent, Workers, Channels
<1>4. \A w \in Workers : /\ slot[w] \in 1 .. Len(chan[Channel(w)])
                         /\ Good(chan[Channel(w)][slot[w]], w)
  BY <1>1, <1>2 DEF Delivered
<1>5. /\ Good(chan["configs"][1], "configs") /\ Good(chan["backups"][1], "backups")
      /\ chan["configs"][1] \in Slice /\ chan["backups"][1] \in Slice
  <2>1. slot["configs"] = 1 /\ slot["backups"] = 1
    BY <1>3, <1>4 DEF Channel, Workers
  <2> QED
    BY <1>3, <1>4, <2>1 DEF Channel, Workers
<1>6. PICK s, t : /\ s \in Slice /\ t \in Slice
                  /\ s = chan["mods"][1] /\ t = chan["mods"][2]
                  /\ \/ Good(s, "general") /\ Good(t, "mods")
                     \/ Good(t, "general") /\ Good(s, "mods")
  <2>1. slot["general"] # slot["mods"]
    BY <1>1, <1>2 DEF Delivered, Channel, Workers
  <2>2. chan["mods"][1] \in Slice /\ chan["mods"][2] \in Slice
    BY <1>3
  <2>3. /\ Good(chan["mods"][slot["general"]], "general")
        /\ Good(chan["mods"][slot["mods"]], "mods")
        /\ slot["general"] \in {1, 2} /\ slot["mods"] \in {1, 2}
    BY <1>4 DEF Channel, Workers
  <2> QED
    BY <2>1, <2>2, <2>3
<1>7. ASSUME NEW o \in Objects
      PROVE  /\ Response["mods"][o] = s[o] + t[o]
             /\ Response["configs"][o] = chan["configs"][1][o]
             /\ Response["backups"][o] = chan["backups"][1][o]
  <2>1. DOMAIN chan["mods"] = {1, 2} /\ DOMAIN chan["configs"] = {1}
    BY <1>3
  <2>2. Response["mods"] = Plus(Plus(Empty, s), t)
    BY <1>6, <2>1, PlusTwo DEF Response, Channels
  <2>3. Response["configs"] = Plus(Empty, chan["configs"][1])
    BY <2>1, PlusOne DEF Response, Channels
  <2>4. Response["backups"] = chan["backups"][1]
    BY <1>3 DEF Response, Channels
  <2>5. s[o] \in Nat /\ t[o] \in Nat /\ chan["configs"][1][o] \in Nat
    BY <1>5, <1>6 DEF Slice
  <2> QED
    BY <2>2, <2>3, <2>4, <2>5 DEF Plus, Empty
<1>8. ASSUME NEW o \in Objects, NEW heading \in Channels
      PROVE  /\ Response[heading][o] <= 1
             /\ Response[heading][o] = 1 =>
                    o \in seen /\ Belongs(o, heading, lister) /\ Keys[o].name # "root"
             /\ Belongs(o, heading, lister) /\ o \in stayed /\ Keys[o].name # "root" =>
                    Response[heading][o] = 1
  <2>1. CASE heading = "mods"
    <3>1. s[o] \in {0, 1} /\ t[o] \in {0, 1} /\ (s[o] = 1 \/ t[o] = 1 => o \in seen)
      BY <1>6 DEF Good, Faithful
    <3>2. \/ /\ s[o] = 1 => Lists("general", o)
             /\ t[o] = 1 => Lists("mods", o)
             /\ o \in stayed => /\ Lists("general", o) => s[o] = 1
                                /\ Lists("mods", o) => t[o] = 1
          \/ /\ t[o] = 1 => Lists("general", o)
             /\ s[o] = 1 => Lists("mods", o)
             /\ o \in stayed => /\ Lists("general", o) => t[o] = 1
                                /\ Lists("mods", o) => s[o] = 1
      BY <1>6 DEF Good, Faithful
    <3>3. Response["mods"][o] = s[o] + t[o]
      BY <1>7
    <3>4. /\ Belongs(o, "mods", lister) /\ Keys[o].name # "root"
                <=> Lists("general", o) \/ Lists("mods", o)
          /\ ~(Lists("general", o) /\ Lists("mods", o))
      BY <1>1, ListsBelong
    <3>5. ~(s[o] = 1 /\ t[o] = 1)
      BY <3>2, <3>4
    <3>6. Response["mods"][o] \in {0, 1} /\ (Response["mods"][o] = 1 <=> s[o] = 1 \/ t[o] = 1)
      BY <3>1, <3>3, <3>5
    <3>7. Response["mods"][o] = 1 => o \in seen /\ (Lists("general", o) \/ Lists("mods", o))
      BY <3>1, <3>2, <3>6
    <3>8. o \in stayed /\ (Lists("general", o) \/ Lists("mods", o)) => Response["mods"][o] = 1
      BY <3>2, <3>6
    <3>9. Response["mods"][o] <= 1
      BY <3>6
    <3> QED
      BY <2>1, <3>4, <3>7, <3>8, <3>9
  <2>2. CASE heading = "configs"
    <3>1. /\ Response[heading][o] \in {0, 1}
          /\ Response[heading][o] = 1 => o \in seen /\ Lists("configs", o)
          /\ o \in stayed /\ Lists("configs", o) => Response[heading][o] = 1
      BY <1>5, <1>7, <2>2 DEF Good, Faithful
    <3> QED
      BY <1>1, <2>2, <3>1, ListsBelong
  <2>3. CASE heading = "backups"
    <3>1. /\ Response[heading][o] \in {0, 1}
          /\ Response[heading][o] = 1 => o \in seen /\ Lists("backups", o)
          /\ o \in stayed /\ Lists("backups", o) => Response[heading][o] = 1
      BY <1>5, <1>7, <2>3 DEF Good, Faithful
    <3> QED
      BY <1>1, <2>3, <3>1, ListsBelong
  <2> QED
    BY <2>1, <2>2, <2>3 DEF Channels
<1> QED
  BY <1>8 DEF ListingFaithful

(* A listing answers with each object of its user at most once and under   *)
(* its heading, with all that were there throughout and none that never    *)
(* were, in pages of any size, whatever is written and deleted meanwhile   *)
(* and in whatever order the four goroutines send.                         *)
THEOREM ListingsAreFaithful == Spec => []ListingFaithful
<1>1. Init => IInv /\ ContentsInv
  <2>1. Init => ContentsInv
    BY DEF Init, ListingInit, ContentsInv, ListingAtRest
  <2> QED
    BY <2>1, InitIInv
<1>2. IInv /\ ContentsInv /\ [Next]_vars => IInv' /\ ContentsInv'
  BY NextContents, NextIInv, StutterIInv
<1>3. IInv /\ ContentsInv => ListingFaithful
  BY AnswerFaithful DEF IInv, BucketTyped, ListingFaithful
<1> QED
  BY <1>1, <1>2, <1>3, PTL DEF Spec
=============================================================================
