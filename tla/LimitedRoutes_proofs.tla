------------------------ MODULE LimitedRoutes_proofs ------------------------
(***************************************************************************)
(* Theorems about LimitedRoutes: types, the limits as Stripe names them,   *)
(* and what users get within them.  The loop over the features is made of  *)
(* steps, so that what it computes is an invariant.                        *)
(***************************************************************************)
EXTENDS LimitedRoutes, TLAPS

-----------------------------------------------------------------------------
(* Optional fields and the world made of a body                            *)

LEMMA SomeOf ==
    ASSUME NEW S, NEW o \in Optional(S), o # {}
    PROVE  Some(o) \in S
BY DEF Optional, Some

LEMMA SomeSingleton ==
    ASSUME NEW x
    PROVE  Some({x}) = x
BY DEF Some

LEMMA AtMostBounded ==
    ASSUME NEW o \in Optional(Int), NEW limit \in Int
    PROVE  AtMost(o, limit) \in Int /\ AtMost(o, limit) <= limit
<1>1. CASE o = {}
  BY <1>1 DEF AtMost
<1>2. CASE o # {}
  <2>1. Some(o) \in Int
    BY <1>2, SomeOf
  <2> QED BY <1>2, <2>1 DEF AtMost
<1> QED BY <1>1, <1>2

LEMMA DefaultTyped ==
    ASSUME NEW S, NEW o \in Optional(S), NEW value \in S
    PROVE  Default(o, value) \in S
BY SomeOf DEF Default

(* Clipping keeps the type of a body and bounds its backups.               *)
LEMMA Clipped ==
    ASSUME NEW b \in CreateServerRequest, NEW max \in Int, ~ClipPanics(b)
    PROVE  /\ Clip(b, max) \in CreateServerRequest
           /\ Clip(b, max).BackupCount # {}
           /\ Some(Clip(b, max).BackupCount) <= max
<1>1. b.BackupCount # {} /\ b.BackupCount \in Optional(Int)
  BY DEF ClipPanics, CreateServerRequest
<1>2. Some(b.BackupCount) \in Int
  BY <1>1, SomeOf
<1>3. CASE Some(b.BackupCount) > max
  <2>1. Clip(b, max) = [b EXCEPT !.BackupCount = {max}]
    BY <1>3 DEF Clip
  <2>2. {max} \in Optional(Int)
    BY DEF Optional
  <2>3. Clip(b, max).BackupCount = {max}
    BY <2>1 DEF CreateServerRequest
  <2>4. Clip(b, max) \in CreateServerRequest
    BY <2>1, <2>2 DEF CreateServerRequest
  <2>5. Some({max}) = max
    BY SomeSingleton
  <2> QED BY <2>3, <2>4, <2>5
<1>4. CASE ~(Some(b.BackupCount) > max)
  BY <1>1, <1>2, <1>4 DEF Clip
<1> QED BY <1>3, <1>4

LEMMA WorldMade ==
    ASSUME NEW b \in CreateServerRequest, NEW max \in Int, ~ClipPanics(b)
    PROVE  LET w == MakeWorld(Clip(b, max)) IN
           /\ w \in World
           /\ w.backups <= max
           /\ w.cpu <= CpuLimit
           /\ w.memory <= MemoryLimit
<1> DEFINE c == Clip(b, max)
<1>1. c \in CreateServerRequest /\ c.BackupCount # {} /\ Some(c.BackupCount) <= max
  BY Clipped
<1> HIDE DEF c
<1>2. /\ c.CpuRequest \in Optional(Int) /\ c.MemoryRequest \in Optional(Int)
      /\ c.BackupCount \in Optional(Int) /\ c.settings \in Optional(Settings)
      /\ c.Modifiers \in Seq(Modifier)
  BY <1>1 DEF CreateServerRequest
<1>3. /\ AtMost(c.CpuRequest, CpuLimit) \in Int
      /\ AtMost(c.CpuRequest, CpuLimit) <= CpuLimit
  BY <1>2, AtMostBounded, EnvironmentAssumption
<1>4. /\ AtMost(c.MemoryRequest, MemoryLimit) \in Int
      /\ AtMost(c.MemoryRequest, MemoryLimit) <= MemoryLimit
  BY <1>2, AtMostBounded, EnvironmentAssumption
<1>5. Default(c.BackupCount, 3) \in Int /\ Default(c.BackupCount, 3) <= max
  <2>1. Default(c.BackupCount, 3) \in Int
    BY <1>2, DefaultTyped
  <2>2. Default(c.BackupCount, 3) = Some(c.BackupCount)
    BY <1>1 DEF Default
  <2> QED BY <1>1, <2>1, <2>2
<1>6. Default(c.settings, Defaults) \in Settings
  BY <1>2, DefaultTyped, EnvironmentAssumption
<1>7. MakeWorld(c) \in World
  BY <1>2, <1>3, <1>4, <1>5, <1>6 DEF MakeWorld, World
<1>8. /\ MakeWorld(c).backups = Default(c.BackupCount, 3)
      /\ MakeWorld(c).cpu = AtMost(c.CpuRequest, CpuLimit)
      /\ MakeWorld(c).memory = AtMost(c.MemoryRequest, MemoryLimit)
  BY DEF MakeWorld
<1> QED BY <1>3, <1>4, <1>5, <1>7, <1>8 DEF c

-----------------------------------------------------------------------------
(* One turn of the loop over the features                                  *)

LEMMA WithTyped ==
    ASSUME NEW l \in Limits, NEW f \in Feature
    PROVE  With(l, f) \in Limits
<1>1. Atoi(f) \in Int
  BY DEF Atoi, Feature
<1> QED BY <1>1 DEF With, Limits, Feature

LEMMA WithBackups ==
    ASSUME NEW l \in Limits, NEW f \in Feature
    PROVE  With(l, f).MaxBackups = IF f.phrase = "Backups" THEN Atoi(f) ELSE l.MaxBackups
<1>1. ASSUME f.phrase = "Backups"
      PROVE  With(l, f) = [l EXCEPT !.MaxBackups = Atoi(f)]
  BY <1>1 DEF With, Upload
<1>2. ASSUME f.phrase # "Backups"
      PROVE  With(l, f).MaxBackups = l.MaxBackups
  BY <1>2 DEF With, Limits, Feature, Amounts
<1> QED BY <1>1, <1>2 DEF Limits

(* The limits after n + 1 features are those after n, with the last one.   *)
LEMMA OneMore ==
    ASSUME NEW p \in Seq(Feature), NEW n \in Nat, n < Len(p), NEW phrase
    PROVE  Advertised(p, n + 1, phrase) =
               IF p[n + 1].phrase = phrase THEN Atoi(p[n + 1]) ELSE Advertised(p, n, phrase)
<1> DEFINE At(k) == {i \in 1 .. k : p[i].phrase = phrase}
<1>1. CASE p[n + 1].phrase = phrase
  <2>1. n + 1 \in At(n + 1) /\ \A i \in At(n + 1) : i \in Int /\ i <= n + 1
    BY <1>1
  <2>2. Max(At(n + 1)) = n + 1
    <3> HIDE DEF At
    <3> QED BY <2>1 DEF Max
  <2> QED BY <1>1, <2>1, <2>2 DEF Advertised
<1>2. CASE p[n + 1].phrase # phrase
  <2>1. At(n + 1) = At(n)
    BY <1>2
  <2>2. Advertised(p, n + 1, phrase) = IF At(n + 1) = {} THEN 0 ELSE Atoi(p[Max(At(n + 1))])
    BY DEF Advertised
  <2>3. Advertised(p, n, phrase) = IF At(n) = {} THEN 0 ELSE Atoi(p[Max(At(n))])
    BY DEF Advertised
  <2> HIDE DEF At
  <2> QED BY <1>2, <2>1, <2>2, <2>3
<1> QED BY <1>1, <1>2

LEMMA OneMoreUpload ==
    ASSUME NEW p \in Seq(Feature), NEW n \in Nat, n < Len(p)
    PROVE  AdvertisesUpload(p, n + 1) =
               IF p[n + 1].phrase = Upload THEN TRUE ELSE AdvertisesUpload(p, n)
<1>1. CASE p[n + 1].phrase = Upload
  <2>1. \E i \in 1 .. n + 1 : p[i].phrase = Upload
    BY <1>1
  <2> QED BY <1>1, <2>1 DEF AdvertisesUpload
<1>2. CASE p[n + 1].phrase # Upload
  <2>1. (\E i \in 1 .. n + 1 : p[i].phrase = Upload) <=> \E i \in 1 .. n : p[i].phrase = Upload
    BY <1>2
  <2>2. AdvertisesUpload(p, n + 1) = AdvertisesUpload(p, n)
    BY <2>1 DEF AdvertisesUpload
  <2> QED BY <1>2, <2>2
<1> QED BY <1>1, <1>2

LEMMA NoneYet ==
    ASSUME NEW p
    PROVE  AdvertisedLimits(p, 0) = NoLimits
<1>1. \A phrase : Advertised(p, 0, phrase) = 0
  BY DEF Advertised
<1>2. AdvertisesUpload(p, 0) = FALSE
  BY DEF AdvertisesUpload
<1> QED BY <1>1, <1>2 DEF AdvertisedLimits, NoLimits

LEMMA LoopTurn ==
    ASSUME NEW p \in Seq(Feature), NEW n \in Nat, n < Len(p)
    PROVE  With(AdvertisedLimits(p, n), p[n + 1]) = AdvertisedLimits(p, n + 1)
<1> DEFINE f == p[n + 1]
<1>1. f \in Feature
  OBVIOUS
<1>2. \A phrase : Advertised(p, n + 1, phrase) =
          IF f.phrase = phrase THEN Atoi(f) ELSE Advertised(p, n, phrase)
  BY OneMore
<1>3. AdvertisesUpload(p, n + 1) = IF f.phrase = Upload THEN TRUE ELSE AdvertisesUpload(p, n)
  BY OneMoreUpload
<1> HIDE DEF f
<1>4. f.phrase \in Amounts \cup {Upload, "other"}
  BY <1>1 DEF Feature
<1> DEFINE old == AdvertisedLimits(p, n)
           new == AdvertisedLimits(p, n + 1)
<1>5. old = [MemoryLimit |-> Advertised(p, n, "GB RAM"), CpuLimit |-> Advertised(p, n, "CPU Cores"),
             MaxBackups |-> Advertised(p, n, "Backups"), MaxWorlds |-> Advertised(p, n, "Worlds"),
             ExistingWorldUpload |-> AdvertisesUpload(p, n)]
  BY DEF AdvertisedLimits
<1>6. new = [MemoryLimit |-> Advertised(p, n + 1, "GB RAM"), CpuLimit |-> Advertised(p, n + 1, "CPU Cores"),
             MaxBackups |-> Advertised(p, n + 1, "Backups"), MaxWorlds |-> Advertised(p, n + 1, "Worlds"),
             ExistingWorldUpload |-> AdvertisesUpload(p, n + 1)]
  BY DEF AdvertisedLimits
<1> HIDE DEF old, new
<1>7. ASSUME f.phrase = "GB RAM" PROVE With(old, f) = new
  BY <1>2, <1>3, <1>5, <1>6, <1>7 DEF With, Upload
<1>8. ASSUME f.phrase = "CPU Cores" PROVE With(old, f) = new
  BY <1>2, <1>3, <1>5, <1>6, <1>8 DEF With, Upload
<1>9. ASSUME f.phrase = "Backups" PROVE With(old, f) = new
  BY <1>2, <1>3, <1>5, <1>6, <1>9 DEF With, Upload
<1>10. ASSUME f.phrase = "Worlds" PROVE With(old, f) = new
  BY <1>2, <1>3, <1>5, <1>6, <1>10 DEF With, Upload
<1>11. ASSUME f.phrase = Upload PROVE With(old, f) = new
  BY <1>2, <1>3, <1>5, <1>6, <1>11 DEF With, Upload
<1>12. ASSUME f.phrase = "other" PROVE With(old, f) = new
  BY <1>2, <1>3, <1>5, <1>6, <1>12 DEF With, Upload
<1>13. With(old, f) = new
  BY <1>4, <1>7, <1>8, <1>9, <1>10, <1>11, <1>12 DEF Amounts
<1> QED BY <1>13 DEF f, old, new

-----------------------------------------------------------------------------
(* The inductive invariant                                                 *)

(* The limits are those of the features that the loop has seen, of all of  *)
(* them when it has ended without a failure.                               *)
LimitsKnown ==
    /\ limits = AdvertisedLimits(product, read)
    /\ pc = "use" /\ ~failed => read = Len(product)

(* A number of backups that is not zero is that of a feature.              *)
BackupsNamed ==
    limits.MaxBackups # 0 =>
        \E i \in 1 .. read : /\ product[i].phrase = "Backups"
                             /\ product[i].isNumber
                             /\ product[i].number = limits.MaxBackups

(* The product is that of a plan in force during the request.              *)
ProductInForce ==
    product = <<>> \/ \E items \in plans \ {None} : \E i \in DOMAIN items : items[i] = product

(* What a request under way has and has not read                           *)
Asking ==
    /\ ~AtRest => subscription \in plans /\ request \in Requests
    /\ pc = "subscription" => /\ product = <<>> /\ read = 0
                              /\ request.hasId => subscription # None

(* Which requests have read a product                                      *)
ProductRead ==
    pc \in {"features", "use"} =>
        /\ ~request.hasId => product = <<>>
        /\ request.hasId => \E items \in plans \ {None} : \E i \in DOMAIN items : items[i] = product

DeploymentFits == \A d \in deployment : d.cpu <= CpuLimit /\ d.memory <= MemoryLimit

IInv ==
    /\ TypeOK /\ LimitsKnown /\ BackupsNamed /\ ProductInForce /\ Asking
    /\ ProductRead /\ DeploymentFits /\ NamedWorldsEarned

LEMMA NoFeatures == <<>> \in Seq(Feature) /\ Len(<<>>) = 0 /\ 0 \in 0 .. Len(<<>>)
OBVIOUS

LEMMA ProductTyped ==
    ASSUME TypeOK
    PROVE  product \in Seq(Feature) /\ read \in Nat /\ Len(product) \in Nat
<1>1. product \in Products \cup {<<>>}
  BY DEF TypeOK
<1>2. product \in Seq(Feature)
  BY <1>1, NoFeatures, LimitedAssumption
<1>3. Len(product) \in Nat
  BY <1>2
<1> QED BY <1>2, <1>3 DEF TypeOK

LEMMA FaultsTyped ==
    ASSUME TypeOK, NoFault \/ Fault
    PROVE  faults' \in 0 .. MaxFaults /\ failed' \in BOOLEAN
<1>1. CASE NoFault
  BY <1>1 DEF NoFault, TypeOK
<1>2. CASE Fault
  <2>1. faults' = faults - 1 /\ faults > 0 /\ failed' = TRUE
    BY <1>2 DEF Fault
  <2>2. faults \in 0 .. MaxFaults /\ MaxFaults \in Nat
    BY LimitedAssumption DEF TypeOK
  <2> QED BY <2>1, <2>2
<1> QED BY <1>1, <1>2

LEMMA InForceGrows ==
    ASSUME NEW items
    PROVE  plans' = plans \cup {items} => InForce \subseteq InForce'
BY DEF InForce

(* What the limits grant is a feature of a plan in force.                  *)
LEMMA FeatureInForce ==
    ASSUME TypeOK, ProductInForce, NEW i \in 1 .. read
    PROVE  product[i] \in InForce
<1>1. product \in Seq(Feature) /\ i \in DOMAIN product
  BY ProductTyped DEF TypeOK
<1>2. product # <<>>
  BY <1>1
<1>3. PICK items \in plans \ {None} : \E k \in DOMAIN items : items[k] = product
  BY <1>2 DEF ProductInForce
<1>4. PICK k \in DOMAIN items : items[k] = product
  BY <1>3
<1>5. items[k][i] \in {items[k][j] : j \in DOMAIN items[k]}
  BY <1>1, <1>4
<1> QED BY <1>3, <1>4, <1>5 DEF InForce

LEMMA BackupsInForce ==
    ASSUME IInv, limits.MaxBackups # 0
    PROVE  \E f \in InForce :
               f.phrase = "Backups" /\ f.isNumber /\ f.number = limits.MaxBackups
BY FeatureInForce DEF IInv, BackupsNamed

LEMMA UploadInForce ==
    ASSUME IInv, limits.ExistingWorldUpload
    PROVE  \E f \in InForce : f.phrase = Upload
<1>1. AdvertisesUpload(product, read)
  BY DEF IInv, LimitsKnown, AdvertisedLimits
<1> QED BY <1>1, FeatureInForce DEF IInv, AdvertisesUpload

LEMMA InitIInv ==
    ASSUME Init
    PROVE  IInv
<1>1. TypeOK
  <2>1. NoLimits \in Limits
    BY DEF NoLimits, Limits
  <2>2. product \in Products \cup {<<>>} /\ read \in 0 .. Len(product)
    BY NoFeatures DEF Init
  <2>3. faults \in 0 .. MaxFaults /\ changes \in 0 .. MaxChanges
    BY LimitedAssumption DEF Init
  <2>4. /\ deployment \subseteq Deployments /\ plans \subseteq Subscriptions \cup {None}
        /\ urls \subseteq File /\ limits \in Limits
    BY <2>1 DEF Init
  <2> QED BY <2>2, <2>3, <2>4 DEF Init, TypeOK, Answers
<1>2. LimitsKnown
  BY NoneYet DEF Init, LimitsKnown
<1>3. BackupsNamed /\ ProductInForce /\ Asking /\ ProductRead /\ DeploymentFits /\ NamedWorldsEarned
  BY DEF Init, BackupsNamed, NoLimits, ProductInForce, Asking, ProductRead, AtRest, Answers,
         DeploymentFits, NamedWorldsEarned
<1> QED BY <1>1, <1>2, <1>3 DEF IInv

-----------------------------------------------------------------------------
(* Each action preserves it.                                               *)

LEMMA ArriveKeeps ==
    ASSUME IInv, NEW r \in Requests, Arrive(r)
    PROVE  IInv'
<1> USE DEF IInv
<1>0. NoLimits \in Limits
  BY DEF NoLimits, Limits
<1>1. TypeOK'
  BY <1>0, NoFeatures DEF TypeOK, Arrive, serverVars, Answers
<1>2. LimitsKnown'
  BY NoneYet DEF LimitsKnown, Arrive
<1>3. BackupsNamed' /\ ProductInForce' /\ NamedWorldsEarned'
  BY DEF BackupsNamed, ProductInForce, NamedWorldsEarned, Arrive, NoLimits
<1>4. Asking' /\ ProductRead'
  BY DEF Asking, ProductRead, Arrive, AtRest, Answers
<1>5. DeploymentFits'
  BY DEF DeploymentFits, Arrive, serverVars
<1> QED BY <1>1, <1>2, <1>3, <1>4, <1>5

LEMMA GetSubscriptionKeeps ==
    ASSUME IInv, GetSubscription
    PROVE  IInv'
<1> USE DEF IInv
<1>1. /\ pc = "subscription" /\ product = <<>> /\ read = 0
      /\ request \in Requests /\ subscription \in plans
      /\ request.hasId => subscription # None
  <2>1. pc = "subscription"
    BY DEF GetSubscription
  <2> QED BY <2>1 DEF Asking, AtRest, Answers
<1>2. /\ product' = <<>> \/ (Len(subscription) = 1 /\ product' = subscription[1] /\ subscription # None)
      /\ pc' \in {"use", "500", "features"}
      /\ pc' = "use" => product' = <<>>
      /\ ~request.hasId => product' = <<>>
      /\ request.hasId /\ pc' \in {"features", "use"} =>
             Len(subscription) = 1 /\ product' = subscription[1]
  BY <1>1 DEF GetSubscription
<1>3. UNCHANGED <<subscription, changes, plans, row, deployment, request, read, limits, urls>>
  BY DEF GetSubscription, stripeVars, serverVars
<1>4. product' \in Products \cup {<<>>}
  BY <1>2, LimitedAssumption DEF TypeOK
<1>5. faults' \in 0 .. MaxFaults /\ failed' \in BOOLEAN
  BY FaultsTyped DEF GetSubscription
<1>6. read' \in 0 .. Len(product')
  <2>1. product' \in Seq(Feature)
    BY <1>4, NoFeatures, LimitedAssumption
  <2>2. Len(product') \in Nat
    BY <2>1
  <2> QED BY <1>1, <1>3, <2>2
<1>7. TypeOK'
  BY <1>2, <1>3, <1>4, <1>5, <1>6 DEF TypeOK, Answers
<1>8. LimitsKnown'
  <2>1. limits' = NoLimits /\ read' = 0
    BY <1>1, <1>3, NoneYet DEF LimitsKnown
  <2>2. limits' = AdvertisedLimits(product', read')
    BY <2>1, NoneYet
  <2>3. pc' = "use" => read' = Len(product')
    BY <1>2, <2>1
  <2> QED BY <2>2, <2>3 DEF LimitsKnown
<1>9. BackupsNamed'
  <2>1. limits' = NoLimits
    BY <1>1, <1>3, NoneYet DEF LimitsKnown
  <2> QED BY <2>1 DEF BackupsNamed, NoLimits
<1>10. ASSUME Len(subscription) = 1, product' = subscription[1], subscription # None
       PROVE  \E items \in plans' \ {None} : \E i \in DOMAIN items : items[i] = product'
  <2>1. subscription \in Seq(Products)
    BY <1>10, LimitedAssumption DEF TypeOK
  <2>2. 1 \in DOMAIN subscription /\ subscription \in plans' \ {None}
    BY <1>1, <1>3, <1>10, <2>1
  <2> QED BY <1>10, <2>2
<1>11. Asking' /\ ProductInForce' /\ ProductRead'
  <2>1. Asking'
    BY <1>1, <1>2, <1>3 DEF Asking, AtRest
  <2>2. ProductInForce'
    BY <1>2, <1>10 DEF ProductInForce
  <2>3. ProductRead'
    BY <1>1, <1>2, <1>3, <1>10 DEF ProductRead
  <2> QED BY <2>1, <2>2, <2>3
<1>12. DeploymentFits' /\ NamedWorldsEarned'
  BY <1>3 DEF DeploymentFits, NamedWorldsEarned, InForce
<1> QED BY <1>7, <1>8, <1>9, <1>11, <1>12

LEMMA ReadFeatureKeeps ==
    ASSUME IInv, ReadFeature
    PROVE  IInv'
<1> USE DEF IInv
<1>1. UNCHANGED <<subscription, changes, plans, row, deployment, request, product, urls>>
  BY DEF ReadFeature, stripeVars, serverVars
<1>2. pc = "features" /\ pc' \in {"features", "use"} /\ request \in Requests /\ subscription \in plans
  BY DEF ReadFeature, Asking, AtRest, Answers
<1>3. product \in Seq(Feature) /\ read \in Nat /\ Len(product) \in Nat
  BY ProductTyped
<1>4. faults' \in 0 .. MaxFaults /\ failed' \in BOOLEAN
  BY FaultsTyped DEF ReadFeature
<1>5. Asking' /\ ProductRead'
  BY <1>1, <1>2 DEF Asking, ProductRead, AtRest
<1>6. DeploymentFits' /\ NamedWorldsEarned' /\ ProductInForce'
  BY <1>1 DEF DeploymentFits, NamedWorldsEarned, InForce, ProductInForce
<1>7. CASE read < Len(product) /\ read' = read + 1 /\ limits' = With(limits, product[read + 1])
           /\ UNCHANGED pc
  <2> DEFINE f == product[read + 1]
  <2>1. f \in Feature
    BY <1>3, <1>7
  <2>2. limits' \in Limits
    BY <1>7, <2>1, WithTyped DEF TypeOK
  <2>3. TypeOK'
    BY <1>1, <1>2, <1>3, <1>4, <1>7, <2>2 DEF TypeOK, Answers
  <2>4. LimitsKnown'
    <3>1. limits' = AdvertisedLimits(product, read + 1)
      BY <1>3, <1>7, LoopTurn DEF LimitsKnown
    <3> QED BY <1>1, <1>2, <1>7, <3>1 DEF LimitsKnown
  <2>5. BackupsNamed'
    <3>1. CASE f.phrase = "Backups"
      <4>1. limits'.MaxBackups = Atoi(f)
        BY <1>7, <2>1, <3>1, WithBackups DEF TypeOK
      <4>2. limits'.MaxBackups # 0 => f.isNumber /\ f.number = limits'.MaxBackups
        BY <4>1, <2>1 DEF Atoi, Feature
      <4>3. read + 1 \in 1 .. read'
        BY <1>3, <1>7
      <4> QED BY <1>1, <3>1, <4>2, <4>3 DEF BackupsNamed
    <3>2. CASE f.phrase # "Backups"
      <4>1. limits'.MaxBackups = limits.MaxBackups
        BY <1>7, <2>1, <3>2, WithBackups DEF TypeOK
      <4>2. 1 .. read \subseteq 1 .. read'
        BY <1>3, <1>7
      <4> QED BY <1>1, <4>1, <4>2 DEF BackupsNamed
    <3> QED BY <3>1, <3>2
  <2> QED BY <1>5, <1>6, <2>3, <2>4, <2>5
<1>8. CASE (read = Len(product) \/ failed') /\ pc' = "use" /\ UNCHANGED <<read, limits>>
  <2>1. TypeOK'
    BY <1>1, <1>4, <1>8 DEF TypeOK, Answers
  <2>2. LimitsKnown'
    BY <1>1, <1>8 DEF LimitsKnown
  <2>3. BackupsNamed'
    BY <1>1, <1>8 DEF BackupsNamed
  <2> QED BY <1>5, <1>6, <2>1, <2>2, <2>3
<1> QED BY <1>7, <1>8 DEF ReadFeature, Fault

(* A step that answers leaves what was read, and does not go on.           *)
LEMMA AnswerKeeps ==
    ASSUME IInv, pc' \in Answers,
           UNCHANGED <<subscription, changes, plans, request, product, read, limits>>,
           faults' \in 0 .. MaxFaults, failed' \in BOOLEAN, row' \in BOOLEAN,
           deployment' \subseteq Deployments, DeploymentFits',
           urls' \subseteq File, NamedWorldsEarned'
    PROVE  IInv'
<1> USE DEF IInv
<1>1. TypeOK'
  BY DEF TypeOK
<1>2. LimitsKnown' /\ Asking' /\ ProductRead'
  BY DEF LimitsKnown, Asking, ProductRead, AtRest, Answers
<1>3. BackupsNamed' /\ ProductInForce'
  BY DEF BackupsNamed, ProductInForce
<1> QED BY <1>1, <1>2, <1>3

LEMMA ClippingPanicsKeeps ==
    ASSUME IInv, ClippingPanics
    PROVE  IInv'
<1>1. /\ pc' = "aborted"
      /\ UNCHANGED <<subscription, changes, plans, request, product, read, limits>>
      /\ UNCHANGED <<row, deployment, urls, faults, failed>>
  BY DEF ClippingPanics, Answer, stripeVars, serverVars
<1>2. DeploymentFits' /\ NamedWorldsEarned'
  BY <1>1 DEF IInv, DeploymentFits, NamedWorldsEarned, InForce
<1>3. /\ faults' \in 0 .. MaxFaults /\ failed' \in BOOLEAN /\ row' \in BOOLEAN
      /\ deployment' \subseteq Deployments /\ urls' \subseteq File
  BY <1>1 DEF IInv, TypeOK
<1>4. pc' \in Answers
  BY <1>1 DEF Answers
<1> QED BY <1>1, <1>2, <1>3, <1>4, AnswerKeeps

(* The world of a create or patch has its type and its bounds.             *)
LEMMA RequestedWorldFits ==
    ASSUME IInv, pc = "use", request.op \in {"create", "patch"}, ~ClipPanics(request.body)
    PROVE  /\ RequestedWorld \in World
           /\ RequestedWorld.backups <= limits.MaxBackups
           /\ RequestedWorld.cpu <= CpuLimit
           /\ RequestedWorld.memory <= MemoryLimit
<1>1. request \in Requests
  BY DEF IInv, Asking, AtRest, Answers
<1>2. request.body \in CreateServerRequest
  BY <1>1, LimitedAssumption DEF Requests
<1>3. limits.MaxBackups \in Int
  BY DEF IInv, TypeOK, Limits
<1> QED BY <1>2, <1>3, WorldMade DEF RequestedWorld

LEMMA CreateMakes ==
    ASSUME IInv, Create
    PROVE  \A d \in deployment' :
               /\ d \in Deployments
               /\ d.cpu <= CpuLimit /\ d.memory <= MemoryLimit
               /\ d \notin deployment => d.args.backups <= limits.MaxBackups
<1> DEFINE w == RequestedWorld
           made == [args |-> w, cpu |-> w.cpu, memory |-> w.memory,
                    maxBackups |-> limits.MaxBackups]
<1>1. /\ w \in World /\ w.backups <= limits.MaxBackups
      /\ w.cpu <= CpuLimit /\ w.memory <= MemoryLimit
  BY RequestedWorldFits DEF Create
<1>2. deployment' \subseteq {made} \/ deployment' = deployment
  BY DEF Create
<1>3. w.cpu \in Int /\ w.memory \in Int /\ limits.MaxBackups \in Int
  BY <1>1 DEF World, IInv, TypeOK, Limits
<1> HIDE DEF w
<1>4. made \in Deployments
  BY <1>1, <1>3 DEF Deployments
<1>5. made.args = w /\ made.cpu = w.cpu /\ made.memory = w.memory
  OBVIOUS
<1>6. CASE deployment' = deployment
  BY <1>6 DEF IInv, TypeOK, DeploymentFits
<1> HIDE DEF made
<1>7. CASE deployment' \subseteq {made}
  BY <1>1, <1>4, <1>5, <1>7
<1> QED BY <1>2, <1>6, <1>7

LEMMA CreateKeeps ==
    ASSUME IInv, Create
    PROVE  IInv'
<1>1. /\ pc' \in Answers /\ row' \in BOOLEAN
      /\ UNCHANGED <<subscription, changes, plans, request, product, read, limits, urls>>
      /\ NoFault \/ Fault
  BY DEF Create, Answer, Answers, stripeVars, IInv, TypeOK
<1>2. deployment' \subseteq Deployments /\ DeploymentFits'
  BY CreateMakes DEF DeploymentFits
<1>3. NamedWorldsEarned' /\ urls' \subseteq File
  BY <1>1 DEF IInv, NamedWorldsEarned, InForce, TypeOK
<1>4. faults' \in 0 .. MaxFaults /\ failed' \in BOOLEAN
  BY <1>1, FaultsTyped DEF IInv
<1> QED BY <1>1, <1>2, <1>3, <1>4, AnswerKeeps

LEMMA PatchMakes ==
    ASSUME IInv, Patch
    PROVE  \A d \in deployment' :
               /\ d \in Deployments
               /\ d.cpu <= CpuLimit /\ d.memory <= MemoryLimit
               /\ d \notin deployment => d.args.backups <= limits.MaxBackups
<1> DEFINE w == RequestedWorld
<1>1. w \in World /\ w.backups <= limits.MaxBackups
  BY RequestedWorldFits DEF Patch
<1> HIDE DEF w
<1>2. CASE deployment' = {[d EXCEPT !.args = w] : d \in deployment}
  <2> SUFFICES ASSUME NEW d \in deployment
               PROVE  LET e == [d EXCEPT !.args = w] IN
                      /\ e \in Deployments
                      /\ e.cpu <= CpuLimit /\ e.memory <= MemoryLimit
                      /\ e.args.backups <= limits.MaxBackups
    BY <1>2
  <2>1. d \in Deployments /\ d.cpu <= CpuLimit /\ d.memory <= MemoryLimit
    BY DEF IInv, TypeOK, DeploymentFits
  <2> QED BY <1>1, <2>1 DEF Deployments
<1>3. CASE deployment' = deployment
  BY <1>3 DEF IInv, TypeOK, DeploymentFits
<1> QED BY <1>2, <1>3 DEF Patch, w

LEMMA PatchKeeps ==
    ASSUME IInv, Patch
    PROVE  IInv'
<1>1. /\ pc' \in Answers
      /\ UNCHANGED <<subscription, changes, plans, row, request, product, read, limits, urls>>
      /\ NoFault \/ Fault
  BY DEF Patch, Answer, Answers, stripeVars
<1>2. deployment' \subseteq Deployments /\ DeploymentFits'
  BY PatchMakes DEF DeploymentFits
<1>3. NamedWorldsEarned' /\ urls' \subseteq File /\ row' \in BOOLEAN
  BY <1>1 DEF IInv, NamedWorldsEarned, InForce, TypeOK
<1>4. faults' \in 0 .. MaxFaults /\ failed' \in BOOLEAN
  BY <1>1, FaultsTyped DEF IInv
<1> QED BY <1>1, <1>2, <1>3, <1>4, AnswerKeeps

LEMMA UploadFilesKeeps ==
    ASSUME IInv, UploadFiles
    PROVE  IInv'
<1> DEFINE files == {request.body[i] : i \in DOMAIN request.body}
<1>1. /\ pc' \in Answers /\ pc = "use" /\ request.op = "upload"
      /\ UNCHANGED <<subscription, changes, plans, row, deployment, request, product, read, limits>>
      /\ NoFault \/ Fault
      /\ urls' = urls \/ (urls' = files /\ \A f \in files : ~Refused(f))
  BY DEF UploadFiles, Answer, Answers, stripeVars, serverVars
<1>2. request.body \in Seq(File)
  <2>1. request \in Requests
    BY <1>1 DEF IInv, Asking, AtRest, Answers
  <2>2. request.body \in Uploads
    BY <1>1, <2>1 DEF Requests
  <2> QED BY <2>2, LimitedAssumption
<1>3. urls' \subseteq File
  BY <1>1, <1>2 DEF IInv, TypeOK
<1>4. InForce' = InForce
  BY <1>1 DEF InForce
<1>5. NamedWorldsEarned'
  <2>1. CASE urls' = urls
    BY <1>4, <2>1 DEF IInv, NamedWorldsEarned, WorldFile
  <2>2. CASE \A f \in urls' : ~Refused(f)
    <3>1. (\E f \in urls' : WorldFile(f)) => limits.ExistingWorldUpload
      BY <2>2 DEF Refused
    <3> QED BY <1>4, <3>1, UploadInForce DEF NamedWorldsEarned
  <2> QED BY <1>1, <2>1, <2>2
<1>6. DeploymentFits' /\ deployment' \subseteq Deployments /\ row' \in BOOLEAN
  BY <1>1 DEF IInv, DeploymentFits, TypeOK
<1>7. faults' \in 0 .. MaxFaults /\ failed' \in BOOLEAN
  BY <1>1, FaultsTyped DEF IInv
<1> QED BY <1>1, <1>3, <1>5, <1>6, <1>7, AnswerKeeps

LEMMA ChangePlanKeeps ==
    ASSUME IInv, ChangePlan
    PROVE  IInv'
<1> USE DEF IInv
<1>1. /\ UNCHANGED <<row, deployment, pc, request, product, read, limits, urls, faults, failed>>
      /\ subscription' \in Subscriptions
      /\ plans' = IF AtRest THEN plans ELSE plans \cup {subscription'}
  BY DEF ChangePlan, serverVars
<1>2. changes' \in 0 .. MaxChanges
  BY LimitedAssumption DEF ChangePlan, TypeOK
<1>3. TypeOK'
  BY <1>1, <1>2 DEF TypeOK
<1>4. LimitsKnown' /\ BackupsNamed' /\ DeploymentFits'
  BY <1>1 DEF LimitsKnown, BackupsNamed, DeploymentFits
<1>5. plans \subseteq plans' /\ InForce \subseteq InForce'
  BY <1>1, InForceGrows DEF InForce
<1>6. ProductInForce' /\ ProductRead' /\ NamedWorldsEarned'
  <2>1. ProductInForce' /\ ProductRead'
    BY <1>1, <1>5 DEF ProductInForce, ProductRead
  <2>2. NamedWorldsEarned'
    BY <1>1, <1>5 DEF NamedWorldsEarned, WorldFile
  <2> QED BY <2>1, <2>2
<1>7. Asking'
  <2>1. subscription' # None
    BY <1>1, LimitedAssumption
  <2> QED BY <1>1, <2>1 DEF Asking, AtRest
<1> QED BY <1>3, <1>4, <1>6, <1>7

LEMMA DeleteServerKeeps ==
    ASSUME IInv, DeleteServer
    PROVE  IInv'
<1> USE DEF IInv
<1>1. /\ UNCHANGED <<subscription, changes, plans, pc, request, product, read, limits, urls>>
      /\ UNCHANGED failed /\ row' \in {FALSE, row} /\ deployment' \in {{}, deployment}
      /\ \/ faults' = faults
         \/ faults > 0 /\ faults' = faults - 1
  BY DEF DeleteServer, stripeVars
<1>2. TypeOK'
  <2>1. faults' \in 0 .. MaxFaults
    <3>1. faults \in 0 .. MaxFaults /\ MaxFaults \in Nat
      BY LimitedAssumption DEF TypeOK
    <3> QED BY <1>1, <3>1
  <2>2. deployment' \subseteq Deployments /\ row' \in BOOLEAN
    BY <1>1 DEF TypeOK
  <2> QED BY <1>1, <2>1, <2>2 DEF TypeOK
<1>3. LimitsKnown' /\ BackupsNamed' /\ ProductInForce' /\ Asking' /\ DeploymentFits'
      /\ ProductRead'
  BY <1>1 DEF LimitsKnown, BackupsNamed, ProductInForce, Asking, AtRest, DeploymentFits, ProductRead
<1>4. NamedWorldsEarned'
  BY <1>1 DEF NamedWorldsEarned, InForce
<1> QED BY <1>2, <1>3, <1>4

LEMMA StutterKeeps ==
    ASSUME IInv, UNCHANGED vars
    PROVE  IInv'
<1> USE DEF IInv, vars, stripeVars, serverVars
<1>1. TypeOK'
  BY DEF TypeOK
<1>2. LimitsKnown' /\ BackupsNamed' /\ ProductInForce' /\ Asking' /\ DeploymentFits'
      /\ ProductRead'
  BY DEF LimitsKnown, BackupsNamed, ProductInForce, Asking, AtRest, DeploymentFits, ProductRead
<1>3. NamedWorldsEarned'
  BY DEF NamedWorldsEarned, InForce
<1> QED BY <1>1, <1>2, <1>3

LEMMA NextIInv ==
    ASSUME IInv, [Next]_vars
    PROVE  IInv'
<1>1. ASSUME NEW r \in Requests, Arrive(r) PROVE IInv'
  BY <1>1, ArriveKeeps
<1>2. ASSUME Handler PROVE IInv'
  BY <1>2, GetSubscriptionKeeps, ReadFeatureKeeps, ClippingPanicsKeeps, CreateKeeps,
     PatchKeeps, UploadFilesKeeps DEF Handler
<1>3. ASSUME ChangePlan PROVE IInv'
  BY <1>3, ChangePlanKeeps
<1>4. ASSUME DeleteServer PROVE IInv'
  BY <1>4, DeleteServerKeeps
<1>5. ASSUME UNCHANGED vars PROVE IInv'
  BY <1>5, StutterKeeps
<1> HIDE DEF IInv
<1> QED BY <1>1, <1>2, <1>3, <1>4, <1>5 DEF Next

-----------------------------------------------------------------------------
(* The theorems                                                            *)

LEMMA Invariant == Spec => []IInv
<1>1. Init => IInv
  BY InitIInv
<1>2. IInv /\ [Next]_vars => IInv'
  BY NextIInv
<1> QED BY <1>1, <1>2, PTL DEF Spec

(* Every variable keeps its type.                                          *)
THEOREM TypeCorrect == Spec => []TypeOK
<1>1. IInv => TypeOK
  BY DEF IInv
<1> QED BY <1>1, Invariant, PTL

(* The loop over the features computes what the product advertises, for    *)
(* every product, repeated and unreadable features included.               *)
THEOREM LimitsCorrect == Spec => []LimitsAsAdvertised
<1>1. IInv => LimitsAsAdvertised
  BY DEF IInv, LimitsKnown, LimitsAsAdvertised
<1> QED BY <1>1, Invariant, PTL

(* No URL for a file named as a world without a plan that allows it, in    *)
(* force during the request.  What can be uploaded with the URL is another *)
(* matter: the key that is signed is the client's own.                     *)
THEOREM NamedWorldsAreEarned == Spec => []NamedWorldsEarned
<1>1. IInv => NamedWorldsEarned
  BY DEF IInv
<1> QED BY <1>1, Invariant, PTL

(* What a step may make of the Deployment                                  *)
StaysWithinPlan ==
    \A d \in deployment' \ deployment :
        /\ d.args.backups > 0 =>
               \E f \in InForce :
                   f.phrase = "Backups" /\ f.isNumber /\ f.number >= d.args.backups
        /\ d.cpu <= CpuLimit
        /\ d.memory <= MemoryLimit

LEMMA StepWithinPlan ==
    ASSUME IInv, [Next]_vars
    PROVE  StaysWithinPlan
<1>1. CASE Create \/ Patch
  <2> SUFFICES ASSUME NEW d \in deployment' \ deployment
               PROVE  /\ d.args.backups > 0 =>
                            \E f \in InForce : /\ f.phrase = "Backups" /\ f.isNumber
                                               /\ f.number >= d.args.backups
                      /\ d.cpu <= CpuLimit
                      /\ d.memory <= MemoryLimit
    BY DEF StaysWithinPlan
  <2>1. /\ d \in Deployments /\ d.cpu <= CpuLimit /\ d.memory <= MemoryLimit
        /\ d.args.backups <= limits.MaxBackups
    BY <1>1, CreateMakes, PatchMakes
  <2>2. d.args.backups \in Int /\ limits.MaxBackups \in Int
    BY <2>1 DEF Deployments, World, IInv, TypeOK, Limits
  <2>3. ASSUME d.args.backups > 0
        PROVE  \E f \in InForce : /\ f.phrase = "Backups" /\ f.isNumber
                                  /\ f.number >= d.args.backups
    BY <2>1, <2>2, <2>3, BackupsInForce
  <2> QED BY <2>1, <2>3
<1>2. CASE deployment' \subseteq deployment
  BY <1>2 DEF StaysWithinPlan
<1>3. ASSUME ~(Create \/ Patch)
      PROVE  deployment' \subseteq deployment
  BY <1>3 DEF Next, Handler, Arrive, GetSubscription, ReadFeature, ClippingPanics, UploadFiles,
         ChangePlan, DeleteServer, vars, serverVars
<1> QED BY <1>1, <1>2, <1>3

(* A Deployment never gets more than a plan in force and the environment   *)
(* allow, for all plans, bodies and limits.                                *)
THEOREM PlanRespected == Spec => WithinPlan
<1>1. IInv /\ [Next]_vars => StaysWithinPlan
  BY StepWithinPlan
<1>2. Spec => [][StaysWithinPlan]_vars
  BY <1>1, Invariant, PTL DEF Spec
<1> QED BY <1>2 DEF WithinPlan, StaysWithinPlan

GivesWhatWasAsked ==
    \A d \in deployment' \ deployment :
        LET asked == Some(request.body.BackupCount) IN
        ~failed' =>
            IF request.hasId
            THEN \E items \in plans \ {None} : \E i \in DOMAIN items :
                     d.args.backups =
                         Lesser(asked, Advertised(items[i], Len(items[i]), "Backups"))
            ELSE d.args.backups = Lesser(asked, 0)

(* Clipping leaves the lesser of the number asked for and the limit.       *)
LEMMA ClippedBackups ==
    ASSUME NEW b \in CreateServerRequest, NEW max \in Int, ~ClipPanics(b)
    PROVE  MakeWorld(Clip(b, max)).backups = Lesser(Some(b.BackupCount), max)
<1>1. b.BackupCount # {} /\ b.BackupCount \in Optional(Int)
  BY DEF ClipPanics, CreateServerRequest
<1>2. Some(b.BackupCount) \in Int
  BY <1>1, SomeOf
<1>3. CASE Some(b.BackupCount) > max
  <2>1. Clip(b, max).BackupCount = {max}
    BY <1>3 DEF Clip, CreateServerRequest
  <2>2. Some({max}) = max
    BY SomeSingleton
  <2>3. MakeWorld(Clip(b, max)).backups = max
    BY <2>1, <2>2 DEF MakeWorld, Default
  <2> QED BY <1>2, <1>3, <2>3 DEF Lesser
<1>4. CASE ~(Some(b.BackupCount) > max)
  <2>1. Clip(b, max) = b
    BY <1>4 DEF Clip
  <2>2. MakeWorld(b).backups = Some(b.BackupCount)
    BY <1>1 DEF MakeWorld, Default
  <2> QED BY <1>2, <1>4, <2>1, <2>2 DEF Lesser
<1> QED BY <1>3, <1>4

LEMMA StepGives ==
    ASSUME IInv, [Next]_vars
    PROVE  GivesWhatWasAsked
<1> DEFINE asked == Some(request.body.BackupCount)
           max == limits.MaxBackups
<1>1. CASE Create \/ Patch
  <2> SUFFICES ASSUME NEW d \in deployment' \ deployment, ~failed'
               PROVE  IF request.hasId
                      THEN \E items \in plans \ {None} : \E i \in DOMAIN items :
                               d.args.backups =
                                   Lesser(asked, Advertised(items[i], Len(items[i]), "Backups"))
                      ELSE d.args.backups = Lesser(asked, 0)
    BY DEF GivesWhatWasAsked
  <2>1. /\ pc = "use" /\ ~failed /\ request.op \in {"create", "patch"}
        /\ ~ClipPanics(request.body)
    BY <1>1 DEF Create, Patch, NoFault, Fault
  <2>2. limits = AdvertisedLimits(product, Len(product))
    BY <2>1 DEF IInv, LimitsKnown
  <2>3. max = Advertised(product, Len(product), "Backups")
    BY <2>2 DEF AdvertisedLimits
  <2>4. request \in Requests
    BY <2>1 DEF IInv, Asking, AtRest, Answers
  <2>5. request.body \in CreateServerRequest
    BY <2>1, <2>4, LimitedAssumption DEF Requests
  <2>6. max \in Int
    BY DEF IInv, TypeOK, Limits
  <2>7. RequestedWorld.backups = Lesser(asked, max)
    <3> HIDE DEF max
    <3>1. MakeWorld(Clip(request.body, max)).backups = Lesser(asked, max)
      BY <2>1, <2>5, <2>6, ClippedBackups
    <3> QED BY <3>1 DEF RequestedWorld, max
  <2>8. d.args = RequestedWorld
    <3> HIDE DEF asked, max
    <3>1. CASE Create
      BY <3>1 DEF Create
    <3>2. CASE Patch
      <4>1. PICK e \in deployment : d = [e EXCEPT !.args = RequestedWorld]
        BY <3>2 DEF Patch
      <4>2. e \in Deployments
        BY DEF IInv, TypeOK
      <4> QED BY <4>1, <4>2 DEF Deployments
    <3> QED BY <1>1, <3>1, <3>2
  <2>9. CASE request.hasId
    <3>1. PICK items \in plans \ {None} : \E i \in DOMAIN items : items[i] = product
      BY <2>1, <2>9 DEF IInv, ProductRead
    <3>2. PICK i \in DOMAIN items : items[i] = product
      BY <3>1
    <3>3. d.args.backups = Lesser(asked, Advertised(items[i], Len(items[i]), "Backups"))
      BY <2>3, <2>7, <2>8, <3>2
    <3> HIDE DEF asked
    <3> QED BY <2>9, <3>1, <3>2, <3>3
  <2>10. CASE ~request.hasId
    <3>1. product = <<>>
      BY <2>1, <2>10 DEF IInv, ProductRead
    <3>2. max = 0
      BY <2>3, <3>1, NoFeatures DEF Advertised
    <3> HIDE DEF asked, max
    <3> QED BY <2>7, <2>8, <2>10, <3>2
  <2> QED BY <2>9, <2>10
<1>2. CASE deployment' \subseteq deployment
  BY <1>2 DEF GivesWhatWasAsked
<1>3. ASSUME ~(Create \/ Patch)
      PROVE  deployment' \subseteq deployment
  BY <1>3 DEF Next, Handler, Arrive, GetSubscription, ReadFeature, ClippingPanics, UploadFiles,
         ChangePlan, DeleteServer, vars, serverVars
<1> QED BY <1>1, <1>2, <1>3

(* Nobody gets fewer or more backups than the lesser of what was asked for *)
(* and what one plan in force grants, or than zero where the row read has  *)
(* no SubscriptionId, but by a failed call.                                *)
THEOREM AskedIsGiven == Spec => AsAsked
<1>1. IInv /\ [Next]_vars => GivesWhatWasAsked
  BY StepGives
<1>2. Spec => [][GivesWhatWasAsked]_vars
  BY <1>1, Invariant, PTL DEF Spec
<1> QED BY <1>2 DEF AsAsked, GivesWhatWasAsked
=============================================================================
