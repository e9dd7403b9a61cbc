----------------------- MODULE WebSocketManager_proofs -----------------------
(***************************************************************************)
(* Theorems about WebSocketManager, for every set of connections and ids   *)
(* and every number of messages.                                           *)
(***************************************************************************)
EXTENDS WebSocketManager, SequenceTheorems, WellFoundedInduction, TLAPS

(* Run serves a client whose handler has already gone on: it is no longer  *)
(* reading, so that its removal from the map is due.                       *)
ManagerInv == manager # None => pc[manager] \in {"close", "done"}

IInv == TypeOK /\ ClientsTracked /\ ManagerInv

LEMMA InitIInv == Init => IInv
  BY SocketAssumption
     DEF Init, IInv, TypeOK, ClientsTracked, ManagerInv, HandlerLabels

-----------------------------------------------------------------------------
(* Types                                                                   *)

LEMMA HandlerType ==
    ASSUME TypeOK, NEW c \in Conns, Handler(c) PROVE TypeOK'
<1> USE DEF TypeOK, HandlerLabels, Goto, At, Close, brokerVars, forwardVars, history
<1>1. CASE DeclareQueue(c)
  BY <1>1 DEF DeclareQueue
<1>2. CASE BindQueue(c)
  BY <1>2 DEF BindQueue
<1>3. CASE Consume(c)
  BY <1>3 DEF Consume
<1>4. CASE BrokerCallFails(c)
  BY <1>4 DEF BrokerCallFails
<1>5. CASE Register(c)
  BY <1>5 DEF Register
<1>6. CASE ReadFails(c)
  BY <1>6 DEF ReadFails
<1>7. CASE Unregister(c)
  BY <1>7 DEF Unregister
<1>8. CASE CloseConn(c)
  BY <1>8 DEF CloseConn
<1> QED
  BY <1>1, <1>2, <1>3, <1>4, <1>5, <1>6, <1>7, <1>8 DEF Handler

LEMMA ForwarderType ==
    ASSUME TypeOK, NEW c \in Conns, Forwarder(c) PROVE TypeOK'
<1> USE DEF TypeOK, brokerVars, forwardVars, history
<1>1. CASE Receive(c)
  <2>1. queue[c] \in Seq(Message) /\ queue[c] # <<>>
    BY <1>1 DEF Receive
  <2>2. Head(queue[c]) \in Message /\ Tail(queue[c]) \in Seq(Message)
    BY <2>1
  <2>3. <<Head(queue[c])>> \in Seq(Message)
    BY <2>2
  <2> QED
    BY <1>1, <2>2, <2>3 DEF Receive
<1>2. CASE WriteJSON(c)
  <2>1. out[c] \o held[c] \in Seq(Message)
    OBVIOUS
  <2>2. <<>> \in Seq(Message)
    OBVIOUS
  <2> QED
    BY <1>2, <2>1, <2>2 DEF WriteJSON
<1>3. CASE WriteFails(c)
  BY <1>3 DEF WriteFails
<1>4. CASE RangeEnds(c)
  BY <1>4 DEF RangeEnds
<1> QED
  BY <1>1, <1>2, <1>3, <1>4 DEF Forwarder

LEMMA PublishType ==
    ASSUME TypeOK, NEW u \in Users, NEW wellFormed \in BOOLEAN, Publish(u, wellFormed)
    PROVE  TypeOK'
<1> DEFINE m == [n |-> published + 1, key |-> u, wellFormed |-> wellFormed]
<1>1. m \in Message /\ published' \in 0 .. MaxMessages
  BY SocketAssumption DEF Publish, Message, TypeOK
<1>2. \A s \in Seq(Message) : Append(s, m) \in Seq(Message)
  BY <1>1
<1>3. queue' \in [Conns -> Seq(Message)] /\ sent' \in [Conns -> Seq(Message)]
  BY <1>2 DEF Publish, TypeOK
<1>4. UNCHANGED <<pc, socket, id, clients, manager, binding, channelUp, forwardVars, out>>
  BY DEF Publish
<1> QED
  BY <1>1, <1>3, <1>4 DEF TypeOK, forwardVars

LEMMA EnvironmentType ==
    ASSUME TypeOK,
           \/ \E c \in Conns : ClientLeaves(c) \/ \E u \in Users : Connect(c, u)
           \/ RemoveClient
           \/ ChannelCloses
    PROVE  TypeOK'
<1>1. ASSUME NEW c \in Conns, NEW u \in Users, Connect(c, u) PROVE TypeOK'
  BY <1>1 DEF Connect, Goto, HandlerLabels, TypeOK, brokerVars, forwardVars, history
<1>2. ASSUME NEW c \in Conns, ClientLeaves(c) PROVE TypeOK'
  BY <1>2 DEF ClientLeaves, TypeOK, brokerVars, forwardVars
<1>3. CASE RemoveClient
  BY <1>3 DEF RemoveClient, Close, TypeOK, brokerVars, forwardVars, history
<1>4. CASE ChannelCloses
  <2>1. <<>> \in Seq(Message)
    OBVIOUS
  <2>2. /\ queue' \in [Conns -> Seq(Message)]
        /\ out' \in [Conns -> Seq(Message)]
        /\ sent' \in [Conns -> Seq(Message)]
    BY <1>4, <2>1 DEF ChannelCloses
  <2>3. /\ channelUp' \in BOOLEAN
        /\ UNCHANGED <<pc, socket, id, clients, manager, binding, published, forwardVars>>
    BY <1>4 DEF ChannelCloses
  <2> QED
    BY <2>2, <2>3 DEF TypeOK, forwardVars
<1> QED
  BY <1>1, <1>2, <1>3, <1>4

-----------------------------------------------------------------------------
(* The map of clients                                                      *)

LEMMA HandlerTracked ==
    ASSUME TypeOK, ClientsTracked, ManagerInv, NEW c \in Conns, Handler(c)
    PROVE  ClientsTracked' /\ ManagerInv'
<1> USE SocketAssumption DEF TypeOK, ClientsTracked, ManagerInv, At, Goto
<1>1. CASE DeclareQueue(c) \/ BindQueue(c) \/ Consume(c) \/ BrokerCallFails(c)
  <2>1. PICK label \in {"bind", "consume", "register", "done"} : pc' = [pc EXCEPT ![c] = label]
    BY <1>1 DEF DeclareQueue, BindQueue, Consume, BrokerCallFails
  <2>2. pc[c] \in {"declare", "bind", "consume"} /\ UNCHANGED <<clients, manager>>
    BY <1>1 DEF DeclareQueue, BindQueue, Consume, BrokerCallFails
  <2> QED
    BY <2>1, <2>2
<1>2. CASE Register(c)
  BY <1>2 DEF Register
<1>3. CASE ReadFails(c)
  BY <1>3 DEF ReadFails
<1>4. CASE Unregister(c)
  BY <1>4 DEF Unregister
<1>5. CASE CloseConn(c)
  BY <1>5 DEF CloseConn
<1> QED
  BY <1>1, <1>2, <1>3, <1>4, <1>5 DEF Handler

LEMMA ManagerTracked ==
    ASSUME TypeOK, ClientsTracked, ManagerInv, RemoveClient
    PROVE  ClientsTracked' /\ ManagerInv'
  BY SocketAssumption DEF TypeOK, ClientsTracked, ManagerInv, RemoveClient, Close

LEMMA ConnectTracked ==
    ASSUME TypeOK, ClientsTracked, ManagerInv, NEW c \in Conns, NEW u \in Users, Connect(c, u)
    PROVE  ClientsTracked' /\ ManagerInv'
  BY SocketAssumption DEF TypeOK, ClientsTracked, ManagerInv, Connect, At, Goto

LEMMA OthersTracked ==
    ASSUME ClientsTracked, ManagerInv, UNCHANGED <<pc, clients, manager>>
    PROVE  ClientsTracked' /\ ManagerInv'
  BY DEF ClientsTracked, ManagerInv

-----------------------------------------------------------------------------
LEMMA NextIInv == IInv /\ [Next]_vars => IInv'
<1> SUFFICES ASSUME IInv, [Next]_vars PROVE IInv'
  OBVIOUS
<1>1. TypeOK /\ ClientsTracked /\ ManagerInv
  BY DEF IInv
<1>2. ASSUME NEW c \in Conns, Handler(c) PROVE IInv'
  BY <1>1, <1>2, HandlerType, HandlerTracked DEF IInv
<1>3. ASSUME NEW c \in Conns, Forwarder(c) PROVE IInv'
  <2>1. UNCHANGED <<pc, clients, manager>>
    BY <1>3 DEF Forwarder, Receive, WriteJSON, WriteFails, RangeEnds
  <2> QED
    BY <1>1, <1>3, <2>1, ForwarderType, OthersTracked DEF IInv
<1>4. ASSUME NEW c \in Conns, NEW u \in Users, Connect(c, u) PROVE IInv'
  BY <1>1, <1>4, EnvironmentType, ConnectTracked DEF IInv
<1>5. CASE RemoveClient
  BY <1>1, <1>5, EnvironmentType, ManagerTracked DEF IInv
<1>6. CASE \/ \E c \in Conns : ClientLeaves(c)
           \/ \E u \in Users, wellFormed \in BOOLEAN : Publish(u, wellFormed)
           \/ ChannelCloses
  <2>1. UNCHANGED <<pc, clients, manager>>
    BY <1>6 DEF ClientLeaves, Publish, ChannelCloses
  <2> QED
    BY <1>1, <1>6, <2>1, EnvironmentType, PublishType, OthersTracked DEF IInv
<1>7. CASE UNCHANGED vars
  BY <1>1, <1>7
     DEF vars, brokerVars, forwardVars, history, IInv, TypeOK, ClientsTracked, ManagerInv
<1> QED
  BY <1>2, <1>3, <1>4, <1>5, <1>6, <1>7 DEF Next

(* The map of clients holds exactly the connected clients, up to one that  *)
(* Run is removing: no client that has gone stays in it, and none that     *)
(* reads is missing, for any number of clients that come and go at once.   *)
THEOREM MapIsExact == Spec => [](TypeOK /\ ClientsTracked)
<1>1. IInv => TypeOK /\ ClientsTracked
  BY DEF IInv
<1> QED
  BY <1>1, InitIInv, NextIInv, PTL DEF Spec

(* Every state is well-typed: in particular Run serves a known connection, *)
(* and the forwarder of a connection holds well-typed messages.            *)
THEOREM TypeCorrect == Spec => []TypeOK
  BY MapIsExact, PTL

-----------------------------------------------------------------------------
(* The well-formed messages of a queue                                     *)

(* Induction over natural numbers, by a least counterexample               *)
Less == {p \in Nat \X Nat : p[1] < p[2]}

LEMMA LeastNatural ==
    ASSUME NEW T, T \subseteq Nat, T # {}
    PROVE  \E m \in T : \A n \in T : m <= n
<1>1. IsWellFoundedOn(Less, Nat)
  BY NatLessThanWellFounded DEF OpToRel, Less
<1>2. PICK m \in T : \A y \in T : ~ (<<y, m>> \in Less)
  BY <1>1, WFMin
<1>3. \A y \in T : ~(y < m)
  BY <1>2 DEF Less
<1> QED
  BY <1>3

(* g[i] is what WellFormed makes of the first i messages of q.             *)
Step(q, i, s) == IF q[i].wellFormed THEN Append(s, q[i]) ELSE s
Prefixes(q, n, g) ==
    /\ g \in [0 .. n -> Seq(Message)]
    /\ g[0] = <<>>
    /\ \A i \in 1 .. n : g[i] = Step(q, i, g[i - 1])

LEMMA PrefixesExist ==
    ASSUME NEW q \in Seq(Message) PROVE \E g : Prefixes(q, Len(q), g)
<1> DEFINE Bad == {n \in 0 .. Len(q) : ~\E g : Prefixes(q, n, g)}
<1>1. Len(q) \in Nat
  OBVIOUS
<1>2. CASE Bad = {}
  BY <1>1, <1>2
<1>3. CASE Bad # {}
  <2>0. Bad \subseteq Nat
    OBVIOUS
  <2> HIDE DEF Bad
  <2>1. PICK n \in Bad : \A k \in Bad : n <= k
    BY <2>0, <1>3, LeastNatural
  <2>2. n \in 0 .. Len(q) /\ ~\E g : Prefixes(q, n, g)
    BY <2>1 DEF Bad
  <2>3. CASE n = 0
    <3> DEFINE g == [i \in 0 .. 0 |-> <<>>]
    <3>1. Prefixes(q, 0, g)
      <4>1. <<>> \in Seq(Message)
        OBVIOUS
      <4> QED
        BY <4>1 DEF Prefixes
    <3> QED
      BY <2>2, <2>3, <3>1
  <2>4. CASE n # 0
    <3>1. n - 1 \in 0 .. Len(q) /\ n - 1 \notin Bad
      BY <1>1, <2>1, <2>2, <2>4
    <3>2. PICK h : Prefixes(q, n - 1, h)
      BY <3>1 DEF Bad
    <3> DEFINE g == [i \in 0 .. n |-> IF i = n THEN Step(q, n, h[n - 1]) ELSE h[i]]
    <3>3. h[n - 1] \in Seq(Message) /\ q[n] \in Message
      BY <1>1, <2>2, <2>4, <3>2 DEF Prefixes
    <3>4. Step(q, n, h[n - 1]) \in Seq(Message)
      BY <3>3 DEF Step
    <3>5. g \in [0 .. n -> Seq(Message)]
      BY <2>2, <3>2, <3>4 DEF Prefixes
    <3>6. g[0] = <<>>
      BY <1>1, <2>2, <2>4, <3>2 DEF Prefixes
    <3>7. ASSUME NEW i \in 1 .. n PROVE g[i] = Step(q, i, g[i - 1])
      <4>1. i - 1 \in 0 .. n - 1 /\ i \in 0 .. n /\ i - 1 \in 0 .. n
        BY <2>2
      <4>2. g[i - 1] = h[i - 1]
        BY <2>2, <4>1
      <4>3. CASE i = n
        BY <4>1, <4>2, <4>3
      <4>4. CASE i # n
        BY <2>2, <3>2, <4>1, <4>2, <4>4 DEF Prefixes
      <4> QED
        BY <4>3, <4>4
    <3> HIDE DEF g
    <3>8. Prefixes(q, n, g)
      BY <3>5, <3>6, <3>7 DEF Prefixes
    <3> QED
      BY <2>2, <3>8
  <2> QED
    BY <2>3, <2>4
<1> QED
  BY <1>2, <1>3

(* A function that satisfies the same equations has the same values.       *)
LEMMA PrefixesUnique ==
    ASSUME NEW q \in Seq(Message), NEW g, Prefixes(q, Len(q), g), NEW f,
           f[0] = <<>>, \A i \in 1 .. Len(q) : f[i] = Step(q, i, f[i - 1])
    PROVE  f[Len(q)] = g[Len(q)]
<1> DEFINE Bad == {n \in 0 .. Len(q) : f[n] # g[n]}
<1>1. Len(q) \in Nat
  OBVIOUS
<1>2. CASE Bad = {}
  BY <1>1, <1>2
<1>3. CASE Bad # {}
  <2>0. Bad \subseteq Nat
    OBVIOUS
  <2> HIDE DEF Bad
  <2>1. PICK n \in Bad : \A k \in Bad : n <= k
    BY <2>0, <1>3, LeastNatural
  <2>2. n \in 0 .. Len(q) /\ f[n] # g[n] /\ n # 0
    BY <2>1 DEF Prefixes, Bad
  <2>3. n - 1 \in 0 .. Len(q) /\ n - 1 \notin Bad
    BY <1>1, <2>1, <2>2
  <2>4. f[n - 1] = g[n - 1] /\ n \in 1 .. Len(q)
    BY <1>1, <2>2, <2>3 DEF Bad
  <2> QED
    BY <2>2, <2>4 DEF Prefixes
<1> QED
  BY <1>2, <1>3

LEMMA WellFormedIs ==
    ASSUME NEW q \in Seq(Message), NEW g, Prefixes(q, Len(q), g)
    PROVE  WellFormed(q) = g[Len(q)] /\ WellFormed(q) \in Seq(Message)
<1> DEFINE Rhs(f) == [i \in 0 .. Len(q) |->
                        IF i = 0 THEN <<>>
                        ELSE IF q[i].wellFormed THEN Append(f[i - 1], q[i]) ELSE f[i - 1]]
           upTo == CHOOSE f : f = Rhs(f)
<1>1. Len(q) \in Nat
  OBVIOUS
<1>2. g = Rhs(g)
  <2>1. g = [i \in 0 .. Len(q) |-> g[i]]
    BY DEF Prefixes
  <2>2. \A i \in 0 .. Len(q) :
           g[i] = IF i = 0 THEN <<>>
                  ELSE IF q[i].wellFormed THEN Append(g[i - 1], q[i]) ELSE g[i - 1]
    <3>1. g[0] = <<>> /\ \A i \in 1 .. Len(q) : g[i] = Step(q, i, g[i - 1])
      BY DEF Prefixes
    <3>2. \A i \in 0 .. Len(q) : i = 0 \/ i \in 1 .. Len(q)
      BY <1>1
    <3> QED
      BY <3>1, <3>2, Zenon DEF Step
  <2> QED
    BY <2>1, <2>2
<1>3. upTo = Rhs(upTo)
  <2> HIDE DEF Rhs
  <2> QED
    BY <1>2
<1>4. WellFormed(q) = upTo[Len(q)]
  BY DEF WellFormed
<1> HIDE DEF upTo
<1>5. upTo[0] = <<>> /\ \A i \in 1 .. Len(q) : upTo[i] = Step(q, i, upTo[i - 1])
  <2>1. \A i \in 0 .. Len(q) :
           upTo[i] = IF i = 0 THEN <<>>
                     ELSE IF q[i].wellFormed THEN Append(upTo[i - 1], q[i]) ELSE upTo[i - 1]
    BY <1>3
  <2>2. 0 \in 0 .. Len(q) /\ \A i \in 1 .. Len(q) : i \in 0 .. Len(q) /\ i # 0
    BY <1>1
  <2> QED
    BY <2>1, <2>2, Zenon DEF Step
<1>6. upTo[Len(q)] = g[Len(q)]
  BY <1>5, PrefixesUnique
<1> QED
  BY <1>1, <1>4, <1>6 DEF Prefixes

LEMMA WellFormedType ==
    ASSUME NEW q \in Seq(Message) PROVE WellFormed(q) \in Seq(Message)
  BY PrefixesExist, WellFormedIs

LEMMA WellFormedEmpty == WellFormed(<<>>) = <<>>
<1>1. <<>> \in Seq(Message) /\ Len(<<>>) = 0
  OBVIOUS
<1>2. PICK g : Prefixes(<<>>, Len(<<>>), g)
  BY <1>1, PrefixesExist
<1>3. WellFormed(<<>>) = g[0]
  BY <1>1, <1>2, WellFormedIs
<1> QED
  BY <1>2, <1>3 DEF Prefixes

(* A message that arrives comes last.                                      *)
LEMMA WellFormedAppend ==
    ASSUME NEW q \in Seq(Message), NEW m \in Message
    PROVE  WellFormed(Append(q, m)) =
               IF m.wellFormed THEN Append(WellFormed(q), m) ELSE WellFormed(q)
<1> DEFINE p == Append(q, m)
<1>1. p \in Seq(Message) /\ Len(p) = Len(q) + 1 /\ p[Len(q) + 1] = m /\ Len(q) \in Nat
  BY AppendProperties
<1>2. \A i \in 1 .. Len(q) : p[i] = q[i]
  BY AppendProperties
<1> HIDE DEF p
<1>3. PICK g : Prefixes(q, Len(q), g)
  BY PrefixesExist
<1>4. PICK h : Prefixes(p, Len(q) + 1, h)
  BY <1>1, PrefixesExist
<1>5. h[Len(q)] = g[Len(q)]
  <2>1. h[0] = <<>> /\ \A i \in 1 .. Len(q) : h[i] = Step(p, i, h[i - 1])
    BY <1>1, <1>4 DEF Prefixes
  <2>2. \A i \in 1 .. Len(q) : h[i] = Step(q, i, h[i - 1])
    BY <1>2, <2>1 DEF Step
  <2> QED
    BY <1>3, <2>1, <2>2, PrefixesUnique
<1>6. h[Len(q) + 1] = Step(p, Len(q) + 1, h[Len(q)])
  <2>1. Len(q) + 1 \in 1 .. Len(q) + 1 /\ (Len(q) + 1) - 1 = Len(q)
    BY <1>1
  <2> QED
    BY <1>4, <2>1 DEF Prefixes
<1>7. WellFormed(q) = g[Len(q)]
  BY <1>3, WellFormedIs
<1>8. WellFormed(p) = h[Len(q) + 1]
  BY <1>1, <1>4, WellFormedIs
<1>9. WellFormed(p) = IF m.wellFormed THEN Append(WellFormed(q), m) ELSE WellFormed(q)
  BY <1>1, <1>5, <1>6, <1>7, <1>8 DEF Step
<1> QED
  BY <1>9 DEF p

LEMMA ConcatAppend ==
    ASSUME NEW s \in Seq(Message), NEW t \in Seq(Message), NEW m \in Message
    PROVE  s \o Append(t, m) = Append(s \o t, m)
<1>1. <<m>> \in Seq(Message) /\ s \o t \in Seq(Message)
  BY ConcatProperties
<1>2. s \o (t \o <<m>>) = (s \o t) \o <<m>>
  BY <1>1, ConcatAssociative
<1>3. Append(t, m) = t \o <<m>>
  BY AppendIsConcat
<1>4. Append(s \o t, m) = (s \o t) \o <<m>>
  BY <1>1, AppendIsConcat
<1> QED
  BY <1>2, <1>3, <1>4

(* The message that the forwarder takes came first.                        *)
LEMMA WellFormedTail ==
    ASSUME NEW q \in Seq(Message), q # <<>>
    PROVE  WellFormed(q) =
               (IF Head(q).wellFormed THEN <<Head(q)>> ELSE <<>>) \o WellFormed(Tail(q))
<1> DEFINE m == Head(q)
           t == Tail(q)
           first == IF m.wellFormed THEN <<m>> ELSE <<>>
<1>1. /\ m \in Message /\ t \in Seq(Message) /\ Len(q) \in Nat
      /\ Len(q) = Len(t) + 1 /\ Len(t) \in Nat /\ q[1] = m
  BY HeadTailProperties, LenProperties
<1>2. \A i \in 1 .. Len(t) : t[i] = q[i + 1]
  BY HeadTailProperties
<1>3. first \in Seq(Message)
  <2>1. <<m>> \in Seq(Message) /\ <<>> \in Seq(Message)
    BY <1>1
  <2> QED
    BY <2>1
<1> HIDE DEF m, t
<1>4. PICK g : Prefixes(t, Len(t), g)
  BY <1>1, PrefixesExist
<1>5. PICK h : Prefixes(q, Len(q), h)
  BY PrefixesExist
<1>6. \A i \in 0 .. Len(t) : g[i] \in Seq(Message)
  BY <1>4 DEF Prefixes
<1> DEFINE f == [i \in 0 .. Len(q) |-> IF i = 0 THEN <<>> ELSE first \o g[i - 1]]
<1>7. f[0] = <<>>
  BY <1>1
<1>8. ASSUME NEW i \in 1 .. Len(q) PROVE f[i] = Step(q, i, f[i - 1])
  <2>1. f[i] = first \o g[i - 1] /\ i - 1 \in 0 .. Len(q)
    BY <1>1
  <2>2. CASE i = 1
    <3>1. f[i - 1] = <<>> /\ g[i - 1] = <<>>
      BY <1>4, <1>7, <2>2 DEF Prefixes
    <3>2. f[i] = first
      BY <1>3, <2>1, <3>1, ConcatEmptySeq
    <3>3. Append(<<>>, m) = <<m>>
      BY <1>1, EmptySeq, AppendIsConcat, ConcatEmptySeq
    <3> QED
      BY <1>1, <2>2, <3>1, <3>2, <3>3 DEF Step
  <2>3. CASE i # 1
    <3>1. /\ i - 1 \in 1 .. Len(t) /\ i - 2 \in 0 .. Len(t)
          /\ (i - 1) - 1 = i - 2 /\ (i - 1) + 1 = i /\ i - 1 # 0
      BY <1>1, <2>3
    <3>2. f[i - 1] = first \o g[i - 2]
      BY <2>1, <3>1
    <3>3. g[i - 1] = IF q[i].wellFormed THEN Append(g[i - 2], q[i]) ELSE g[i - 2]
      <4>1. g[i - 1] = Step(t, i - 1, g[(i - 1) - 1])
        BY <1>4, <3>1 DEF Prefixes
      <4>2. t[i - 1] = q[i]
        BY <1>2, <3>1
      <4> QED
        BY <3>1, <4>1, <4>2, Zenon DEF Step
    <3>4. q[i] \in Message
      BY ElementOfSeq
    <3>5. g[i - 2] \in Seq(Message)
      BY <1>6, <3>1
    <3> HIDE DEF f, first
    <3>6. first \o Append(g[i - 2], q[i]) = Append(first \o g[i - 2], q[i])
      BY <1>3, <3>4, <3>5, ConcatAppend
    <3> QED
      BY <2>1, <3>2, <3>3, <3>6 DEF Step
  <2> QED
    BY <2>2, <2>3
<1>9. f[Len(q)] = h[Len(q)]
  <2> HIDE DEF f
  <2> QED
    BY <1>5, <1>7, <1>8, PrefixesUnique
<1>10. f[Len(q)] = first \o g[Len(t)]
  <2>1. Len(q) # 0 /\ Len(q) - 1 = Len(t) /\ Len(q) \in 0 .. Len(q)
    BY <1>1
  <2>2. \A i \in 0 .. Len(q) : i # 0 => f[i] = first \o g[i - 1]
    OBVIOUS
  <2> HIDE DEF f
  <2> QED
    BY <2>1, <2>2
<1>11. WellFormed(q) = h[Len(q)] /\ WellFormed(t) = g[Len(t)]
  BY <1>1, <1>4, <1>5, WellFormedIs
<1>12. WellFormed(q) = first \o WellFormed(t)
  BY <1>9, <1>10, <1>11, Zenon
<1> QED
  BY <1>12 DEF m, t

-----------------------------------------------------------------------------
(* The stream of messages                                                  *)

(* How far a handler has got, with what its queue and forwarder can hold   *)
ConnInv(c) ==
    /\ pc[c] = "idle" => socket[c] = "none" /\ sent[c] = <<>> /\ out[c] = <<>>
    /\ pc[c] \in {"idle", "declare", "bind", "consume", "register"} => forwarder[c] = "none"
    /\ pc[c] \in {"idle", "declare", "bind"} => binding[c] = None
    /\ binding[c] \in {None, id[c]}
    /\ binding[c] = None => queue[c] = <<>>
    /\ forwarder[c] # "writing" => held[c] = <<>>

StreamInv == StreamIntact /\ \A c \in Conns : ConnInv(c)

LEMMA InitStream == Init => StreamInv
<1> SUFFICES ASSUME Init PROVE StreamInv
  OBVIOUS
<1>1. \A c \in Conns : ConnInv(c) /\ socket[c] # "open"
  BY DEF Init, ConnInv
<1> QED
  BY <1>1 DEF StreamInv, StreamIntact

(* What a step on one connection must not spoil                            *)
LEMMA NothingMoves ==
    ASSUME StreamIntact, UNCHANGED <<queue, held, out, sent, channelUp>>,
           \A c \in Conns : socket'[c] = "open" => socket[c] = "open"
    PROVE  StreamIntact'
  BY DEF StreamIntact

LEMMA HandlerStream ==
    ASSUME TypeOK, StreamInv, NEW c \in Conns, Handler(c) PROVE StreamInv'
<1> USE DEF At, Goto, Close
<1>1. UNCHANGED <<id, queue, held, out, sent, channelUp>>
  BY DEF Handler, DeclareQueue, BindQueue, Consume, BrokerCallFails, Register, ReadFails,
         Unregister, CloseConn, brokerVars, forwardVars, history
<1>2. socket' = socket \/ socket' = [socket EXCEPT ![c] = "closed"]
  BY DEF Handler, DeclareQueue, BindQueue, Consume, BrokerCallFails, Register, ReadFails,
         Unregister, CloseConn
<1>3. StreamIntact'
  BY <1>1, <1>2, NothingMoves DEF TypeOK, StreamInv
<1>4. ASSUME NEW d \in Conns PROVE ConnInv(d)'
  <2>1. ConnInv(d)
    BY DEF StreamInv
  <2> USE DEF TypeOK, HandlerLabels, ConnInv, brokerVars, forwardVars, history
  <2>2. CASE DeclareQueue(c)
    BY <2>1, <2>2 DEF DeclareQueue
  <2>3. CASE BindQueue(c)
    BY <2>1, <2>3, SocketAssumption DEF BindQueue
  <2>4. CASE Consume(c) \/ BrokerCallFails(c) \/ ReadFails(c) \/ Unregister(c) \/ CloseConn(c)
    BY <2>1, <2>4 DEF Consume, BrokerCallFails, ReadFails, Unregister, CloseConn
  <2>5. CASE Register(c)
    <3>1. ConnInv(c) /\ pc[c] = "register"
      BY <2>5 DEF Register, StreamInv
    <3> QED
      BY <2>1, <2>5, <3>1 DEF Register
  <2> QED
    BY <2>2, <2>3, <2>4, <2>5 DEF Handler
<1> QED
  BY <1>3, <1>4 DEF StreamInv

(* The forwarder moves a message from the queue to its hand ...            *)
LEMMA ReceiveStream ==
    ASSUME TypeOK, StreamInv, NEW c \in Conns, Receive(c) PROVE StreamInv'
<1> DEFINE m == Head(queue[c])
<1>1. /\ m \in Message /\ Tail(queue[c]) \in Seq(Message) /\ held[c] = <<>>
      /\ queue[c] \in Seq(Message) /\ queue[c] # <<>>
  BY HeadTailProperties DEF Receive, TypeOK, StreamInv, ConnInv
<1>2. ASSUME NEW d \in Conns PROVE ConnInv(d)'
  <2>1. ConnInv(d)
    BY DEF StreamInv
  <2> QED
    BY <1>1, <2>1 DEF Receive, TypeOK, ConnInv, history
<1>3. held'[c] = IF m.wellFormed THEN <<m>> ELSE <<>>
  BY <1>1 DEF Receive, TypeOK
<1>4. queue'[c] = Tail(queue[c])
  BY DEF Receive, TypeOK
<1>5. UNCHANGED <<socket, channelUp, out, sent>>
  BY DEF Receive, history
<1>6. out[c] \in Seq(Message)
  BY DEF TypeOK
<1>7. out[c] \o held[c] \o WellFormed(queue[c]) = out[c] \o held'[c] \o WellFormed(queue'[c])
  <2> DEFINE w == WellFormed(Tail(queue[c]))
             h == IF m.wellFormed THEN <<m>> ELSE <<>>
  <2>1. w \in Seq(Message) /\ h \in Seq(Message)
    <3>1. <<m>> \in Seq(Message) /\ <<>> \in Seq(Message)
      BY <1>1
    <3> QED
      BY <1>1, <3>1, WellFormedType
  <2>2. WellFormed(queue[c]) = h \o w
    BY <1>1, WellFormedTail
  <2>3. out[c] \o held[c] = out[c]
    BY <1>1, <1>6, ConcatEmptySeq
  <2> HIDE DEF w, h
  <2>4. out[c] \o (h \o w) = (out[c] \o h) \o w
    <3> DEFINE o == out[c]
    <3>1. o \in Seq(Message)
      BY <1>6
    <3> HIDE DEF o
    <3>2. o \o (h \o w) = (o \o h) \o w
      BY <2>1, <3>1, ConcatAssociative
    <3> QED
      BY <3>2 DEF o
  <2> QED
    BY <1>3, <1>4, <2>2, <2>3, <2>4 DEF w, h
<1>8. ASSUME NEW d \in Conns, d # c PROVE held'[d] = held[d] /\ queue'[d] = queue[d]
  BY <1>8 DEF Receive, TypeOK
<1>9. StreamIntact'
  BY <1>5, <1>7, <1>8 DEF StreamInv, StreamIntact
<1> QED
  BY <1>2, <1>9 DEF StreamInv

(* ... and from there to the client.                                       *)
LEMMA WriteStream ==
    ASSUME TypeOK, StreamInv, NEW c \in Conns, WriteJSON(c) PROVE StreamInv'
<1>1. ASSUME NEW d \in Conns PROVE ConnInv(d)'
  <2>1. ConnInv(d)
    BY DEF StreamInv
  <2>2. pc[c] # "idle"
    BY DEF WriteJSON, StreamInv, ConnInv
  <2> QED
    BY <2>1, <2>2 DEF WriteJSON, TypeOK, ConnInv, brokerVars
<1>2. /\ UNCHANGED <<socket, channelUp, queue, sent>>
      /\ held'[c] = <<>>
      /\ socket[c] = "open" => out'[c] = out[c] \o held[c]
  BY DEF WriteJSON, TypeOK, brokerVars
<1>3. ASSUME NEW d \in Conns, d # c PROVE held'[d] = held[d] /\ out'[d] = out[d]
  BY <1>3 DEF WriteJSON, TypeOK
<1>4. (out[c] \o held[c]) \o <<>> = out[c] \o held[c]
  <2>1. out[c] \o held[c] \in Seq(Message)
    BY ConcatProperties DEF TypeOK
  <2> QED
    BY <2>1, ConcatEmptySeq
<1>5. StreamIntact'
  BY <1>2, <1>3, <1>4 DEF StreamInv, StreamIntact
<1> QED
  BY <1>1, <1>5 DEF StreamInv

LEMMA ForwarderStops ==
    ASSUME TypeOK, StreamInv, NEW c \in Conns, WriteFails(c) \/ RangeEnds(c)
    PROVE  StreamInv'
<1>1. ASSUME NEW d \in Conns PROVE ConnInv(d)'
  <2>1. ConnInv(d) /\ ConnInv(c)
    BY DEF StreamInv
  <2> QED
    BY <2>1 DEF WriteFails, RangeEnds, TypeOK, ConnInv, brokerVars, history
<1>2. UNCHANGED <<socket, channelUp, queue, sent, out>>
  BY DEF WriteFails, RangeEnds, brokerVars, history
<1>3. ASSUME NEW d \in Conns, socket[d] = "open", channelUp PROVE held'[d] = held[d]
  BY <1>3 DEF WriteFails, RangeEnds, TypeOK
<1>4. StreamIntact'
  BY <1>2, <1>3 DEF StreamInv, StreamIntact
<1> QED
  BY <1>1, <1>4 DEF StreamInv

(* A message reaches the queues of its id: it is owed to their clients.    *)
LEMMA PublishStream ==
    ASSUME TypeOK, StreamInv, NEW u \in Users, NEW wellFormed \in BOOLEAN,
           Publish(u, wellFormed)
    PROVE  StreamInv'
<1> DEFINE m == [n |-> published + 1, key |-> u, wellFormed |-> wellFormed]
           Meant(c) == id[c] = u /\ binding[c] # None /\ socket[c] = "open" /\ wellFormed
<1>1. m \in Message /\ m.wellFormed = wellFormed
  BY SocketAssumption DEF Publish, Message, TypeOK
<1>2. UNCHANGED <<pc, socket, id, binding, channelUp, forwarder, held, out>>
  BY DEF Publish, forwardVars
<1>3. \A c \in Conns :
          /\ queue'[c] = IF binding[c] = u THEN Append(queue[c], m) ELSE queue[c]
          /\ sent'[c] = IF Meant(c) THEN Append(sent[c], m) ELSE sent[c]
  BY DEF Publish
<1> HIDE DEF m
<1>4. ASSUME NEW c \in Conns PROVE ConnInv(c)'
  <2>1. ConnInv(c)
    BY DEF StreamInv
  <2> QED
    BY <1>2, <1>3, <2>1, SocketAssumption DEF ConnInv
<1>5. ASSUME NEW c \in Conns, socket[c] = "open", channelUp
      PROVE  out[c] \o held[c] \o WellFormed(queue'[c]) = sent'[c]
  <2>1. /\ queue[c] \in Seq(Message)
        /\ out[c] \o held[c] \in Seq(Message)
        /\ WellFormed(queue[c]) \in Seq(Message)
    BY ConcatProperties, WellFormedType DEF TypeOK
  <2>2. out[c] \o held[c] \o WellFormed(queue[c]) = sent[c]
    BY <1>5 DEF StreamInv, StreamIntact
  <2>3. Meant(c) <=> binding[c] = u /\ wellFormed
    BY <1>5, SocketAssumption DEF StreamInv, ConnInv
  <2>4. CASE binding[c] = u /\ wellFormed
    <3>1. WellFormed(queue'[c]) = Append(WellFormed(queue[c]), m)
      BY <1>1, <1>3, <2>1, <2>4, WellFormedAppend
    <3> QED
      BY <1>1, <1>3, <2>1, <2>2, <2>3, <2>4, <3>1, ConcatAppend
  <2>5. CASE binding[c] = u /\ ~wellFormed
    <3>1. WellFormed(queue'[c]) = WellFormed(queue[c])
      BY <1>1, <1>3, <2>1, <2>5, WellFormedAppend
    <3> QED
      BY <1>3, <2>2, <2>3, <2>5, <3>1
  <2>6. CASE binding[c] # u
    BY <1>3, <2>2, <2>3, <2>6
  <2> QED
    BY <2>4, <2>5, <2>6
<1>6. StreamIntact'
  BY <1>2, <1>5 DEF StreamIntact
<1> QED
  BY <1>4, <1>6 DEF StreamInv

LEMMA ConnectStream ==
    ASSUME TypeOK, StreamInv, NEW c \in Conns, NEW u \in Users, Connect(c, u)
    PROVE  StreamInv'
<1>1. ConnInv(c) /\ pc[c] = "idle"
  BY DEF StreamInv, Connect, At
<1>2. UNCHANGED <<binding, queue, channelUp, forwarder, held, sent, out>>
  BY DEF Connect, brokerVars, forwardVars, history
<1>3. ASSUME NEW d \in Conns PROVE ConnInv(d)'
  <2>1. ConnInv(d)
    BY DEF StreamInv
  <2> QED
    BY <1>1, <1>2, <2>1 DEF Connect, Goto, TypeOK, ConnInv
<1>4. out[c] \o held[c] \o WellFormed(queue[c]) = sent[c]
  <2>1. out[c] = <<>> /\ held[c] = <<>> /\ queue[c] = <<>> /\ sent[c] = <<>>
    BY <1>1 DEF ConnInv
  <2>2. <<>> \o <<>> \o <<>> = <<>>
    BY EmptySeq, ConcatEmptySeq
  <2> QED
    BY <2>1, <2>2, WellFormedEmpty
<1>5. \A d \in Conns : d # c => socket'[d] = socket[d]
  BY DEF Connect, TypeOK
<1>6. StreamIntact'
  BY <1>2, <1>4, <1>5 DEF StreamInv, StreamIntact
<1> QED
  BY <1>3, <1>6 DEF StreamInv

LEMMA LeaveStream ==
    ASSUME TypeOK, StreamInv, NEW c \in Conns, ClientLeaves(c) PROVE StreamInv'
<1>1. ASSUME NEW d \in Conns PROVE ConnInv(d)'
  <2>1. ConnInv(d) /\ pc[c] # "idle"
    BY DEF StreamInv, ConnInv, ClientLeaves
  <2> QED
    BY <2>1 DEF ClientLeaves, TypeOK, ConnInv, brokerVars, forwardVars
<1>2. \A d \in Conns : socket'[d] = "open" => d # c /\ socket[d] = "open"
  BY DEF ClientLeaves, TypeOK
<1>3. /\ UNCHANGED <<channelUp, queue, held>>
      /\ \A d \in Conns : d # c => out'[d] = out[d] /\ sent'[d] = sent[d]
  BY DEF ClientLeaves, TypeOK, brokerVars, forwardVars
<1>4. StreamIntact'
  BY <1>2, <1>3 DEF StreamInv, StreamIntact
<1> QED
  BY <1>1, <1>4 DEF StreamInv

LEMMA BrokerStream ==
    ASSUME IInv, StreamInv, RemoveClient \/ ChannelCloses PROVE StreamInv'
<1> USE DEF IInv
<1>1. CASE RemoveClient
  <2>1. /\ UNCHANGED <<pc, id, binding, queue, channelUp, forwarder, held, sent, out>>
        /\ socket' = socket \/ socket' = [socket EXCEPT ![manager] = "closed"]
    BY <1>1 DEF RemoveClient, Close, brokerVars, forwardVars, history
  <2>2. pc[manager] # "idle"
    BY <1>1 DEF RemoveClient, ManagerInv
  <2>3. StreamIntact'
    BY <2>1, NothingMoves DEF TypeOK, StreamInv
  <2>4. ASSUME NEW c \in Conns PROVE ConnInv(c)'
    <3>1. ConnInv(c) /\ (pc[c] = "idle" => socket'[c] = socket[c])
      BY <2>1, <2>2 DEF TypeOK, StreamInv
    <3> QED
      BY <2>1, <3>1 DEF ConnInv
  <2> QED
    BY <2>3, <2>4 DEF StreamInv
<1>2. CASE ChannelCloses
  <2>1. ~channelUp'
    BY <1>2 DEF ChannelCloses
  <2>2. /\ UNCHANGED <<pc, socket, id, binding, forwarder, held>>
        /\ \A c \in Conns : queue'[c] = <<>> /\ out'[c] = <<>> /\ sent'[c] = <<>>
    BY <1>2 DEF ChannelCloses, forwardVars
  <2>3. ASSUME NEW c \in Conns PROVE ConnInv(c)'
    BY <2>2 DEF StreamInv, ConnInv
  <2> QED
    BY <2>1, <2>3 DEF StreamInv, StreamIntact
<1> QED
  BY <1>1, <1>2

LEMMA NextStream == IInv /\ StreamInv /\ [Next]_vars => StreamInv'
<1> SUFFICES ASSUME IInv, StreamInv, [Next]_vars PROVE StreamInv'
  OBVIOUS
<1>1. TypeOK
  BY DEF IInv
<1>2. ASSUME NEW c \in Conns, NEW u \in Users, Connect(c, u) PROVE StreamInv'
  BY <1>1, <1>2, ConnectStream
<1>3. ASSUME NEW c \in Conns, Handler(c) PROVE StreamInv'
  BY <1>1, <1>3, HandlerStream
<1>4. ASSUME NEW c \in Conns, Forwarder(c) PROVE StreamInv'
  BY <1>1, <1>4, ReceiveStream, WriteStream, ForwarderStops DEF Forwarder
<1>5. ASSUME NEW c \in Conns, ClientLeaves(c) PROVE StreamInv'
  BY <1>1, <1>5, LeaveStream
<1>6. CASE RemoveClient \/ ChannelCloses
  BY <1>6, BrokerStream
<1>7. ASSUME NEW u \in Users, NEW wellFormed \in BOOLEAN, Publish(u, wellFormed)
      PROVE  StreamInv'
  BY <1>1, <1>7, PublishStream
<1>8. CASE UNCHANGED vars
  BY <1>8 DEF vars, brokerVars, forwardVars, history, StreamInv, StreamIntact, ConnInv
<1> QED
  BY <1>2, <1>3, <1>4, <1>5, <1>6, <1>7, <1>8 DEF Next

(* Whatever the goroutines do and however many clients share the channel,  *)
(* a connected client has received the well-formed messages published to   *)
(* its id since its queue was bound, and no others, each once and in       *)
(* order; those it still lacks are held by its forwarder or in its queue.  *)
THEOREM StreamsAreIntact == Spec => []StreamIntact
<1>1. Init => IInv /\ StreamInv
  BY InitIInv, InitStream
<1>2. IInv /\ StreamInv /\ [Next]_vars => IInv' /\ StreamInv'
  BY NextIInv, NextStream
<1>3. StreamInv => StreamIntact
  BY DEF StreamInv
<1> QED
  BY <1>1, <1>2, <1>3, PTL DEF Spec
=============================================================================
