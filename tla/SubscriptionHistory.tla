------------------------ MODULE SubscriptionHistory ------------------------
(***************************************************************************)
(* UserAccounts with a history of its subscriptions: what became of the    *)
(* created event, the only one that writes a subscription to the row of    *)
(* its customer (webhook.go:42).                                           *)
(***************************************************************************)
EXTENDS UserAccounts

VARIABLES
    written,   \* subscriptions that were once in a row
    lost       \* those whose event a failed call or a restart has taken

historyVars == <<vars, written, lost>>

(* The created event waits at Stripe, in the queue or in the consumer.     *)
OnItsWay(s) ==
    \/ \E e \in outbox \cup consumer.event : e.type = "created" /\ e.sub = s
    \/ \E i \in 1 .. Len(queue) : queue[i].type = "created" /\ queue[i].sub = s

InRow(s) == \E row \in users : row.sub = s

HistoryInit == Init /\ written = {} /\ lost = {}

HistoryNext ==
    /\ Next
    /\ written' = written \cup {s \in Subscriptions : InRow(s)'}
    /\ lost' = lost \cup {s \in Subscriptions :
                             faults' < faults /\ OnItsWay(s) /\ ~OnItsWay(s)' /\ ~InRow(s)'}

HistorySpec     == HistoryInit /\ [][HistoryNext]_historyVars
FairHistorySpec == HistorySpec /\ Fairness

-----------------------------------------------------------------------------
(* No subscription is forgotten: until it is in a row its created event is *)
(* at Stripe, in the queue or in the consumer, whatever events come before *)
(* and between, however often they come and whoever else saves the row;    *)
(* only a call that fails, or a restart, at the event itself may lose it.  *)
NothingForgotten ==
    \A s \in subs : s.id \in written \cup lost \/ OnItsWay(s.id)

(* And so a subscription that was paid for is written to a row, unless its *)
(* own event was lost: another call may have failed.                       *)
SubscriptionRecorded ==
    \A s \in Subscriptions :
        (\E e \in outbox : e.type = "created" /\ e.sub = s) ~> s \in written \cup lost
=============================================================================
