-------------------------- MODULE WebSocketManager --------------------------
(***************************************************************************)
(* src/websocket.go: the status feed of /api/v1/ws.                        *)
(*                                                                         *)
(* Each connection is served by a handler goroutine (pc), which declares a *)
(* RabbitMQ queue of its own, binds it to the discord id of the client and *)
(* reads the websocket until the client leaves; by a forwarder goroutine   *)
(* (forwarder), which moves the messages of the queue to the websocket;    *)
(* and by the one goroutine of Run (manager), which keeps the map of       *)
(* clients and is reached over the unbuffered channels register and        *)
(* unregister.  All connections share one AMQP channel, which is never     *)
(* opened again once it is closed.                                         *)
(***************************************************************************)
EXTENDS Naturals, Sequences

CONSTANTS
    Conns,        \* websocket connections, each used once
    Users,        \* discord ids
    None,         \* no connection, or no discord id
    MaxMessages   \* bound: messages published on the exchange

ASSUME SocketAssumption ==
    /\ None \notin Users /\ None \notin Conns
    /\ MaxMessages \in Nat

VARIABLES
    pc,          \* pc[c]: next step of the handler
    socket,      \* socket[c]: the websocket; "gone" once the client has left it
    id,          \* id[c]: the discord id in the query string
    binding,     \* binding[c]: routing key of the queue, None before QueueBind
    queue,       \* queue[c]: messages in the queue or in the consumer's buffer
    forwarder,   \* forwarder[c]: the goroutine that ranges over msgs
    held,        \* held[c]: message it is writing
    clients,     \* WebSocketManager.clients
    manager,     \* client whose unregister message Run is serving
    channelUp,   \* the shared AMQP channel is open
    published,   \* number of messages published on the exchange
    sent,        \* history: sent[c] is what connected client c should receive
    out          \* history: out[c] is what connected client c has received

brokerVars  == <<binding, queue, channelUp, published>>
forwardVars == <<forwarder, held>>
history     == <<sent, out>>
vars == <<pc, socket, id, clients, manager, brokerVars, forwardVars, history>>

-----------------------------------------------------------------------------
(* A message is routed by its key. json.Unmarshal rejects malformed ones.  *)
Message == [n : 1 .. MaxMessages, key : Users, wellFormed : BOOLEAN]

HandlerLabels == {"idle", "declare", "bind", "consume", "register", "reading",
                  "unregister", "close", "done"}

TypeOK ==
    /\ pc \in [Conns -> HandlerLabels]
    /\ socket \in [Conns -> {"none", "open", "gone", "closed"}]
    /\ id \in [Conns -> Users \cup {None}]
    /\ binding \in [Conns -> Users \cup {None}]
    /\ queue \in [Conns -> Seq(Message)]
    /\ forwarder \in [Conns -> {"none", "ranging", "writing", "returned"}]
    /\ held \in [Conns -> Seq(Message)]
    /\ clients \subseteq Conns
    /\ manager \in Conns \cup {None}
    /\ channelUp \in BOOLEAN
    /\ published \in 0 .. MaxMessages
    /\ sent \in [Conns -> Seq(Message)]
    /\ out \in [Conns -> Seq(Message)]

(* NewWebSocketManager has declared the exchange, and Run is in its select.*)
Init ==
    /\ pc = [c \in Conns |-> "idle"]
    /\ socket = [c \in Conns |-> "none"]
    /\ id = [c \in Conns |-> None]
    /\ binding = [c \in Conns |-> None]
    /\ queue = [c \in Conns |-> <<>>]
    /\ forwarder = [c \in Conns |-> "none"]
    /\ held = [c \in Conns |-> <<>>]
    /\ clients = {}
    /\ manager = None
    /\ channelUp = TRUE
    /\ published = 0
    /\ sent = [c \in Conns |-> <<>>]
    /\ out = [c \in Conns |-> <<>>]

At(c, label) == pc[c] = label
Goto(c, label) == pc' = [pc EXCEPT ![c] = label]
Close(c) == socket' = [socket EXCEPT ![c] = "closed"]

-----------------------------------------------------------------------------
(* HandleWebSocket                                                         *)

(* Mutation: a request without an id, the empty string, is served too.     *)
ConnectUnnamed(c, u) ==
    /\ At(c, "idle")
    /\ \E name \in {u, ""} : id' = [id EXCEPT ![c] = name]
    /\ socket' = [socket EXCEPT ![c] = "open"]
    /\ Goto(c, "declare")
    /\ UNCHANGED <<clients, manager, brokerVars, forwardVars, history>>

(* The request names a discord id and the upgrade succeeds.                *)
Connect(c, u) ==
    /\ At(c, "idle")
    /\ id' = [id EXCEPT ![c] = u]
    /\ socket' = [socket EXCEPT ![c] = "open"]
    /\ Goto(c, "declare")
    /\ UNCHANGED <<clients, manager, brokerVars, forwardVars, history>>

DeclareQueue(c) ==
    /\ At(c, "declare")
    /\ channelUp
    /\ Goto(c, "bind")
    /\ UNCHANGED <<socket, id, clients, manager, brokerVars, forwardVars, history>>

(* Mutation: the queue is bound to somebody else's key.                    *)
BindQueueAnyKey(c) ==
    /\ At(c, "bind")
    /\ channelUp
    /\ \E u \in Users : binding' = [binding EXCEPT ![c] = u]
    /\ Goto(c, "consume")
    /\ UNCHANGED <<socket, id, clients, manager, queue, channelUp, published, forwardVars, history>>

BindQueue(c) ==
    /\ At(c, "bind")
    /\ channelUp
    /\ binding' = [binding EXCEPT ![c] = id[c]]
    /\ Goto(c, "consume")
    /\ UNCHANGED <<socket, id, clients, manager, queue, channelUp, published, forwardVars, history>>

Consume(c) ==
    /\ At(c, "consume")
    /\ channelUp
    /\ Goto(c, "register")
    /\ UNCHANGED <<socket, id, clients, manager, brokerVars, forwardVars, history>>

(* A call on the closed channel fails, and the websocket is closed.  (An   *)
(* AMQP error closes the channel: ChannelCloses, then this.)               *)
BrokerCallFails(c) ==
    /\ pc[c] \in {"declare", "bind", "consume"}
    /\ ~channelUp
    /\ Close(c)
    /\ Goto(c, "done")
    /\ UNCHANGED <<id, clients, manager, brokerVars, forwardVars, history>>

(* Run, in its select, receives the client and adds it to the map; the     *)
(* handler goes on, starts the forwarder and reads.                        *)
Register(c) ==
    /\ At(c, "register")
    /\ manager = None
    /\ clients' = clients \cup {c}
    /\ forwarder' = [forwarder EXCEPT ![c] = "ranging"]
    /\ Goto(c, "reading")
    /\ UNCHANGED <<socket, id, manager, held, brokerVars, history>>

(* ReadMessage returns an error: what clients send before they leave is    *)
(* read and ignored.                                                       *)
ReadFails(c) ==
    /\ At(c, "reading")
    /\ socket[c] # "open"
    /\ Goto(c, "unregister")
    /\ UNCHANGED <<socket, id, clients, manager, brokerVars, forwardVars, history>>

(* Mutation: the handler does not wait for a busy manager.                 *)
UnregisterOrDrop(c) ==
    /\ At(c, "unregister")
    /\ manager' = IF manager = None THEN c ELSE manager
    /\ Goto(c, "close")
    /\ UNCHANGED <<socket, id, clients, brokerVars, forwardVars, history>>

Unregister(c) ==
    /\ At(c, "unregister")
    /\ manager = None
    /\ manager' = c
    /\ Goto(c, "close")
    /\ UNCHANGED <<socket, id, clients, brokerVars, forwardVars, history>>

CloseConn(c) ==
    /\ At(c, "close")
    /\ Close(c)
    /\ Goto(c, "done")
    /\ UNCHANGED <<id, clients, manager, brokerVars, forwardVars, history>>

-----------------------------------------------------------------------------
(* Run: the rest of the unregister case                                    *)

(* Mutation: the mutex stays locked.                                       *)
RemoveClientLocked ==
    /\ manager \in clients
    /\ clients' = clients \ {manager}
    /\ Close(manager)
    /\ UNCHANGED <<pc, id, manager, brokerVars, forwardVars, history>>

RemoveClient ==
    /\ manager # None
    /\ IF manager \in clients
       THEN clients' = clients \ {manager} /\ Close(manager)
       ELSE UNCHANGED <<clients, socket>>
    /\ manager' = None
    /\ UNCHANGED <<pc, id, brokerVars, forwardVars, history>>

-----------------------------------------------------------------------------
(* The forwarder                                                           *)

(* Mutation: a message that cannot be unmarshalled ends the loop.          *)
ReceiveOrReturn(c) ==
    LET m == Head(queue[c]) IN
    /\ forwarder[c] = "ranging"
    /\ queue[c] # <<>>
    /\ queue' = [queue EXCEPT ![c] = Tail(@)]
    /\ IF m.wellFormed
       THEN /\ held' = [held EXCEPT ![c] = <<m>>]
            /\ forwarder' = [forwarder EXCEPT ![c] = "writing"]
       ELSE /\ forwarder' = [forwarder EXCEPT ![c] = "returned"]
            /\ UNCHANGED held
    /\ UNCHANGED <<pc, socket, id, clients, manager, binding, channelUp, published, history>>

Receive(c) ==
    LET m == Head(queue[c]) IN
    /\ forwarder[c] = "ranging"
    /\ queue[c] # <<>>
    /\ queue' = [queue EXCEPT ![c] = Tail(@)]
    /\ IF m.wellFormed
       THEN /\ held' = [held EXCEPT ![c] = <<m>>]
            /\ forwarder' = [forwarder EXCEPT ![c] = "writing"]
       ELSE UNCHANGED <<held, forwarder>>
    /\ UNCHANGED <<pc, socket, id, clients, manager, binding, channelUp, published, history>>

(* A write to a client that has left may still succeed.                    *)
WriteJSON(c) ==
    /\ forwarder[c] = "writing"
    /\ socket[c] # "closed"
    /\ out' = IF socket[c] = "open" THEN [out EXCEPT ![c] = @ \o held[c]] ELSE out
    /\ held' = [held EXCEPT ![c] = <<>>]
    /\ forwarder' = [forwarder EXCEPT ![c] = "ranging"]
    /\ UNCHANGED <<pc, socket, id, clients, manager, brokerVars, sent>>

(* Mutation: the loop goes on after a failed write.                        *)
WriteFailsUnnoticed(c) ==
    /\ forwarder[c] = "writing"
    /\ socket[c] # "open"
    /\ held' = [held EXCEPT ![c] = <<>>]
    /\ forwarder' = [forwarder EXCEPT ![c] = "ranging"]
    /\ UNCHANGED <<pc, socket, id, clients, manager, brokerVars, history>>

WriteFails(c) ==
    /\ forwarder[c] = "writing"
    /\ socket[c] # "open"
    /\ held' = [held EXCEPT ![c] = <<>>]
    /\ forwarder' = [forwarder EXCEPT ![c] = "returned"]
    /\ UNCHANGED <<pc, socket, id, clients, manager, brokerVars, history>>

(* A closed AMQP channel closes msgs.                                      *)
RangeEnds(c) ==
    /\ forwarder[c] = "ranging"
    /\ ~channelUp
    /\ forwarder' = [forwarder EXCEPT ![c] = "returned"]
    /\ UNCHANGED <<pc, socket, id, clients, manager, held, brokerVars, history>>

-----------------------------------------------------------------------------
(* Clients, the sidecars that publish, and RabbitMQ                        *)

(* The histories end with the connection, and with the AMQP channel.       *)
ClientLeaves(c) ==
    /\ socket[c] = "open"
    /\ socket' = [socket EXCEPT ![c] = "gone"]
    /\ out' = [out EXCEPT ![c] = <<>>]
    /\ sent' = [sent EXCEPT ![c] = <<>>]
    /\ UNCHANGED <<pc, id, clients, manager, brokerVars, forwardVars>>

(* The direct exchange copies a message to every queue bound to its key.   *)
(* It is meant for the connected clients of its id whose queue is bound,   *)
(* and is of use to them when it is well-formed.                           *)
Publish(u, wellFormed) ==
    LET m == [n |-> published + 1, key |-> u, wellFormed |-> wellFormed]
        Meant(c) == id[c] = u /\ binding[c] # None /\ socket[c] = "open" /\ wellFormed
    IN
    /\ published < MaxMessages
    /\ channelUp
    /\ published' = published + 1
    /\ queue' = [c \in Conns |-> IF binding[c] = u THEN Append(queue[c], m) ELSE queue[c]]
    /\ sent' = [c \in Conns |-> IF Meant(c) THEN Append(sent[c], m) ELSE sent[c]]
    /\ UNCHANGED <<pc, socket, id, clients, manager, binding, channelUp, forwardVars, out>>

(* The connection breaks, or a call is answered with an AMQP error:        *)
(* what the consumers have not delivered is dropped.                       *)
ChannelCloses ==
    /\ channelUp
    /\ channelUp' = FALSE
    /\ queue' = [c \in Conns |-> <<>>]
    /\ out' = [c \in Conns |-> <<>>]
    /\ sent' = [c \in Conns |-> <<>>]
    /\ UNCHANGED <<pc, socket, id, clients, manager, binding, published, forwardVars>>

-----------------------------------------------------------------------------
Handler(c) ==
    \/ DeclareQueue(c) \/ BindQueue(c) \/ Consume(c) \/ BrokerCallFails(c)
    \/ Register(c) \/ ReadFails(c) \/ Unregister(c) \/ CloseConn(c)

Forwarder(c) == Receive(c) \/ WriteJSON(c) \/ WriteFails(c) \/ RangeEnds(c)

Next ==
    \/ \E c \in Conns : \/ \E u \in Users : Connect(c, u)
                        \/ Handler(c)
                        \/ Forwarder(c)
                        \/ ClientLeaves(c)
    \/ RemoveClient
    \/ \E u \in Users, wellFormed \in BOOLEAN : Publish(u, wellFormed)
    \/ ChannelCloses

Spec == Init /\ [][Next]_vars

(* The Go scheduler runs every goroutine that can run. Clients may stay.   *)
FairSpec ==
    /\ Spec
    /\ \A c \in Conns : WF_vars(Handler(c)) /\ WF_vars(Forwarder(c))
    /\ WF_vars(RemoveClient)

-----------------------------------------------------------------------------
(* "This function keeps track of client state like who is connected and    *)
(* disconnected": the map holds exactly the clients whose handler reads,   *)
(* or is about to hand them to Run, or whose removal Run has accepted.     *)
ClientsTracked ==
    \A c \in Conns :
        c \in clients <=> pc[c] \in {"reading", "unregister"} \/ manager = c

(* The well-formed messages of a queue, in order                           *)
WellFormed(q) ==
    LET upTo[i \in 0 .. Len(q)] ==
            IF i = 0 THEN <<>>
            ELSE IF q[i].wellFormed THEN Append(upTo[i - 1], q[i]) ELSE upTo[i - 1]
    IN  upTo[Len(q)]

(* "Client's will only consume their messages since they are only sent to  *)
(* their discord id": a connected client has received the well-formed      *)
(* messages published to its id since its queue was bound and no others,   *)
(* each once and in order, but for those still on their way.               *)
StreamIntact ==
    \A c \in Conns :
        socket[c] = "open" /\ channelUp =>
            out[c] \o held[c] \o WellFormed(queue[c]) = sent[c]

(* A message for a client that stays connected reaches it, malformed       *)
(* messages before it notwithstanding, as long as the AMQP channel lives.  *)
Delivered ==
    \A c \in Conns : \A n \in 1 .. MaxMessages :
        Len(sent[c]) >= n ~> Len(out[c]) >= n \/ socket[c] # "open" \/ ~channelUp

(* Once a client has left, its handler returns: Run accepts every client   *)
(* that unregisters, however many leave at once.                           *)
HandlersReturn == \A c \in Conns : (socket[c] \in {"gone", "closed"} ~> pc[c] = "done")

(* Nobody cancels the consumer of a client that has left.  Its forwarder   *)
(* ends all the same as soon as there is a well-formed message it cannot   *)
(* write, or the AMQP channel closes.                                      *)
ForwarderReleased ==
    \A c \in Conns :
        LET Something == \/ held[c] # <<>>
                         \/ \E i \in DOMAIN queue[c] : queue[c][i].wellFormed
                         \/ ~channelUp
        IN socket[c] = "closed" /\ forwarder[c] \in {"ranging", "writing"} /\ Something
               ~> forwarder[c] = "returned"
=============================================================================
