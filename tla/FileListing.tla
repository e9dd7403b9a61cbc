---------------------------- MODULE FileListing ----------------------------
(***************************************************************************)
(* src/handler/file/file_handler.go: GET /api/v1/file lists the mods,      *)
(* backups and configurations of a user.  Four goroutines list one folder  *)
(* each and send what they found into three buffered channels; a fifth     *)
(* closes all channels when they are done; the handler reads the channels  *)
(* after errorChan was closed.  ListObjects never returns an error, so     *)
(* errorChan stays empty.                                                  *)
(***************************************************************************)
EXTENDS S3Service, SequencesExt

VARIABLES
    listing,    \* the handler: "errors" while it receives from errorChan
    lister,     \* the user of the request
    worker,     \* worker[w]: next step of a goroutine
    pos,        \* pos[w]: last key of the page it has read
    found,      \* found[w]: the objects it has collected
    chan,       \* chan[ch]: contents of a channel
    closed      \* the channels are closed

listingVars == <<listing, lister, worker, pos, found, chan, closed>>

Workers  == {"general", "mods", "configs", "backups"}
Channels == {"mods", "configs", "backups"}

(* Mutation: modsChan has room for one list.                               *)
CapacityOne(ch) == 1

(* The buffers of modsChan, configsChan and backupsChan                    *)
Capacity(ch) == IF ch = "mods" THEN 2 ELSE 1

Channel(w) == IF w = "general" THEN "mods" ELSE w

Prefix(w, u) ==
    CASE w = "general" -> FolderPrefix("mods", "general")
      [] w = "mods"    -> FolderPrefix("mods", u)
      [] w = "configs" -> FolderPrefix("config", u)
      [] w = "backups" -> FolderPrefix("backups", u)

(* A slice of objects is how often it contains each: nobody depends on the *)
(* order.                                                                  *)
Slice == [Objects -> Nat]
Empty == [o \in Objects |-> 0]
Plus(s, t)    == [o \in Objects |-> s[o] + t[o]]
Extend(s, os) == [o \in Objects |-> IF o \in os THEN s[o] + 1 ELSE s[o]]

-----------------------------------------------------------------------------
ListingAtRest == listing \in {"idle", "200", "aborted"}

ListingInit ==
    /\ listing = "idle"
    /\ lister = None
    /\ worker = [w \in Workers |-> "idle"]
    /\ pos = [w \in Workers |-> 0]
    /\ found = [w \in Workers |-> Empty]
    /\ chan = [ch \in Channels |-> <<>>]
    /\ closed = FALSE

(* The request is over, and its goroutines and channels are gone.          *)
EndListing(answer) ==
    /\ listing' = answer
    /\ lister' = None
    /\ worker' = [w \in Workers |-> "idle"]
    /\ pos' = [w \in Workers |-> 0]
    /\ found' = [w \in Workers |-> Empty]
    /\ chan' = [ch \in Channels |-> <<>>]
    /\ closed' = FALSE

(* The request arrives behind AuthMiddleware, and starts the goroutines.   *)
StartListing(u) ==
    /\ ListingAtRest
    /\ listing' = "errors"
    /\ lister' = u
    /\ worker' = [w \in Workers |-> "listing"]
    /\ UNCHANGED <<pos, found, chan, closed>>

(* One page of ListObjects                                                 *)
ListObjects(w) ==
    /\ worker[w] = "listing"
    /\ \E page \in Pages(Prefix(w, lister), pos[w]) :
        /\ found' = [found EXCEPT ![w] = Extend(@, page.contents)]
        /\ pos' = [pos EXCEPT ![w] = page.last]
        /\ worker' = [worker EXCEPT ![w] = IF page.more THEN "listing" ELSE "sending"]
    /\ UNCHANGED <<listing, lister, chan, closed>>

(* Mutation: a goroutine that found nothing returns before wg.Done.        *)
SendUnlessEmpty(w) ==
    /\ worker[w] = "sending"
    /\ found[w] # Empty
    /\ chan' = [chan EXCEPT ![Channel(w)] = Append(@, found[w])]
    /\ worker' = [worker EXCEPT ![w] = "done"]
    /\ found' = [found EXCEPT ![w] = Empty]
    /\ pos' = [pos EXCEPT ![w] = 0]
    /\ UNCHANGED <<listing, lister, closed>>

(* The channel has room; then wg.Done.                                     *)
Send(w) ==
    /\ worker[w] = "sending"
    /\ Len(chan[Channel(w)]) < Capacity(Channel(w))
    /\ chan' = [chan EXCEPT ![Channel(w)] = Append(@, found[w])]
    /\ worker' = [worker EXCEPT ![w] = "done"]
    /\ found' = [found EXCEPT ![w] = Empty]
    /\ pos' = [pos EXCEPT ![w] = 0]
    /\ UNCHANGED <<listing, lister, closed>>

(* wg.Wait returns.  The four channels close one after the other, but the  *)
(* handler is woken by the last of them.                                   *)
CloseChannels ==
    /\ listing = "errors" /\ ~closed
    /\ \A w \in Workers : worker[w] = "done"
    /\ closed' = TRUE
    /\ UNCHANGED <<listing, lister, worker, pos, found, chan>>

(* Mutation: one list is received from modsChan.                           *)
ResponseFirstMods ==
    [ch \in Channels |-> IF chan[ch] = <<>> THEN Empty ELSE Head(chan[ch])]

(* modsChan and configsChan are read to the end, backupsChan once.         *)
Response ==
    [ch \in Channels |-> IF ch = "backups"
                         THEN IF chan[ch] = <<>> THEN Empty ELSE Head(chan[ch])
                         ELSE FoldLeft(Plus, Empty, chan[ch])]

(* errorChan yields nil.  Nobody else uses the channels any more: they are *)
(* read and the answer, Response, is written.                              *)
Respond ==
    /\ listing = "errors" /\ closed
    /\ EndListing("200")

ListingWork == (\E w \in Workers : ListObjects(w) \/ Send(w)) \/ CloseChannels \/ Respond

(* The process has exited.                                                 *)
ListingAborted ==
    IF ListingAtRest THEN UNCHANGED listingVars ELSE EndListing("aborted")
=============================================================================
