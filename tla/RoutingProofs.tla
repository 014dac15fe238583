--------------------------- MODULE RoutingProofs ---------------------------
(***************************************************************************)
(* Proofs about Routing for all settings, all listings of products and all *)
(* messages.  IInv says where the run stands: what was loaded was accepted *)
(* (ConfigInv), and the event in hand is the one made of the message in    *)
(* hand (EventInv).                                                        *)
(***************************************************************************)
EXTENDS Routing, FiniteSetTheorems, TLAPS

ConfigInv ==
  /\ phase \in {"starting", "rejected", "loaded", "built", "receiving", "normalized", "written",
                "unsubscribed"}
  /\ phase \notin {"starting", "rejected"} \/ config # Nothing =>
       \E candidate \in Candidates : Accepted(candidate) /\ config = Loaded(candidate)

EventInv ==
  \/ phase \notin {"normalized", "written"} /\ Idle
  \/ /\ phase \in {"normalized", "written"}
     /\ delivery \in Deliveries /\ event = EventOf(config, delivery)
     /\ phase = "written" => collection = config.names[RouteOf(event.type)]

IInv == ConfigInv /\ EventInv

----------------------------------------------------------------------------
(* The settings.                                                           *)

LEMMA RoutesAre ==
  /\ Routes = {"agg_trade", "depth", "book_ticker", "kline", "mark_price", "control"}
  /\ IsFiniteSet(Routes)
<1>1. DOMAIN RouteByStreamType = {"aggTrade", "depth", "bookTicker", "kline", "markPrice"}
  BY DEF RouteByStreamType
<1>2. Range(RouteByStreamType) = {"agg_trade", "depth", "book_ticker", "kline", "mark_price"}
  BY <1>1 DEF Range, RouteByStreamType
<1>3. Routes = {"agg_trade", "depth", "book_ticker", "kline", "mark_price", "control"}
  BY <1>2 DEF Routes
<1>4. IsFiniteSet((((({"agg_trade"} \union {"depth"}) \union {"book_ticker"}) \union {"kline"})
                   \union {"mark_price"}) \union {"control"})
  <2>1. IsFiniteSet({"agg_trade"})
    BY FS_Singleton
  <2>2. \A S, x : IsFiniteSet(S) => IsFiniteSet(S \union {x})
    BY FS_AddElement
  <2>3. QED
    BY <2>1, <2>2, Zenon
<1>5. Routes = (((({"agg_trade"} \union {"depth"}) \union {"book_ticker"}) \union {"kline"})
                \union {"mark_price"}) \union {"control"}
  BY <1>3
<1>6. QED
  BY <1>3, <1>4, <1>5

(* The names of the collections of accepted settings. *)
LEMMA NamesAreDistinct ==
  ASSUME NEW candidate \in Candidates, Accepted(candidate)
  PROVE  LET names == Loaded(candidate).names
         IN  /\ DOMAIN names = Routes
             /\ \A route \in Routes : names[route] # ""
             /\ \A one, other \in Routes : names[one] = names[other] => one = other
BY CandidatesAssumption DEF Loaded, CollectionNames, Accepted, CollectionsAccepted

(* The constructor of the output counts the names. *)
LEMMA OutputIsBuilt ==
  ASSUME NEW candidate \in Candidates, Accepted(candidate)
  PROVE  OutputAccepts(Loaded(candidate).names, Routes)
<1> DEFINE names == Loaded(candidate).names
           used == {names[route] : route \in Routes}
           place == [route \in Routes |-> names[route]]
<1>1. /\ DOMAIN names = Routes /\ \A route \in Routes : names[route] # ""
      /\ \A one, other \in Routes : names[one] = names[other] => one = other
  BY NamesAreDistinct
<1> HIDE DEF names
<1>2. place \in Bijection(Routes, used)
  <2>1. place \in [Routes -> used] /\ \A route \in Routes : place[route] = names[route]
    OBVIOUS
  <2>2. \A name \in used : \E route \in Routes : place[route] = name
    OBVIOUS
  <2> HIDE DEF place, used
  <2>3. place \in Injection(Routes, used)
    BY <1>1, <2>1 DEF Injection, IsInjective
  <2>4. place \in Surjection(Routes, used)
    BY <2>1, <2>2 DEF Surjection
  <2>5. QED
    BY <2>3, <2>4 DEF Bijection
<1>3. Cardinality(used) = Cardinality(Routes)
  BY <1>2, RoutesAre, FS_Bijection DEF ExistsBijection
<1>4. QED
  BY <1>1, <1>3 DEF OutputAccepts, names

LEMMA GroupsAre ==
  /\ DOMAIN Groups = {"spot_market", "spot_depth", "usdm_mark"}
  /\ \A group \in DOMAIN Groups :
       Groups[group].types # {} /\ Groups[group].types \subseteq DOMAIN RouteByStreamType
BY DEF Groups, RouteByStreamType

LEMMA SpecsAre ==
  ASSUME NEW loaded, NEW spec
  PROVE  spec \in Specs(loaded) <=>
           \E group \in DOMAIN Groups :
             \E type \in Groups[group].types, place \in DOMAIN loaded.symbols :
               spec = [group |-> group, type |-> type, place |-> place]
BY DEF Specs

(* Symbols are distinct, so a stream's name tells its type and symbol. *)
LEMMA IndexIsBuilt ==
  ASSUME NEW candidate \in Candidates, Accepted(candidate)
  PROVE  IndexAccepts(Loaded(candidate))
<1> DEFINE loaded == Loaded(candidate)
<1>1. \A one, other \in DOMAIN loaded.symbols :
        loaded.symbols[one] = loaded.symbols[other] => one = other
  BY DEF Loaded, Accepted, SymbolsAccepted, IsInjective
<1> HIDE DEF loaded
<1>2. SUFFICES ASSUME NEW one \in Specs(loaded), NEW other \in Specs(loaded),
                      one.group = other.group,
                      StreamName(loaded, one) = StreamName(loaded, other)
               PROVE  one = other
  BY DEF IndexAccepts, loaded
<1>3. /\ one = [group |-> one.group, type |-> one.type, place |-> one.place]
      /\ other = [group |-> other.group, type |-> other.type, place |-> other.place]
      /\ one.place \in DOMAIN loaded.symbols /\ other.place \in DOMAIN loaded.symbols
  BY SpecsAre
<1>4. loaded.symbols[one.place] = loaded.symbols[other.place] /\ one.type = other.type
  BY <1>2 DEF StreamName
<1>5. QED
  BY <1>1, <1>2, <1>3, <1>4

LEMMA StreamsAreRequested ==
  ASSUME NEW candidate \in Candidates, Accepted(candidate), NEW group \in DOMAIN Groups
  PROVE  Requested(Loaded(candidate), group) # {}
<1> DEFINE loaded == Loaded(candidate)
<1>1. 1 \in DOMAIN loaded.symbols
  <2>1. candidate.symbols \in Seq([set : BOOLEAN, word : STRING, loose : BOOLEAN])
    BY CandidatesAssumption
  <2>2. candidate.symbols # << >>
    BY DEF Accepted, SymbolsAccepted
  <2>3. 1 \in DOMAIN candidate.symbols
    BY <2>1, <2>2
  <2>4. QED
    BY <2>3 DEF Loaded, NormalizeSymbols
<1>2. PICK type \in Groups[group].types : TRUE
  BY GroupsAre
<1> DEFINE spec == [group |-> group, type |-> type, place |-> 1]
<1>3. spec \in Specs(loaded) /\ spec.group = group
  BY <1>1, <1>2, SpecsAre
<1>4. QED
  BY <1>3 DEF Requested

LEMMA ServerIsAddressed ==
  ASSUME NEW candidate \in Candidates, Accepted(candidate)
  PROVE  LET mongo == Loaded(candidate).mongo
         IN  /\ mongo.port \in Ports
             /\ (mongo.username # "") = (mongo.password # "")
             /\ (mongo.username # "") = (mongo.authSource # "")
<1> DEFINE env == candidate.mongo
<1>1. MongoAccepted(env)
  BY DEF Accepted
<1> HIDE DEF env
<1>2. Loaded(candidate).mongo = MongoConfig(env)
  BY DEF Loaded, env
<1>3. MongoConfig(env).port \in Ports
  <2>1. PortNumber[WordOr(env.port, "27017")] \in Ports
    BY <1>1 DEF MongoAccepted
  <2>2. MongoConfig(env).port = PortNumber[WordOr(env.port, "27017")]
    BY DEF MongoConfig
  <2>3. QED
    BY <2>1, <2>2
<1>4. /\ MongoConfig(env).username = Optional(env.user)
      /\ MongoConfig(env).password = Optional(env.password)
      /\ Optional(env.user) = "" => MongoConfig(env).authSource = ""
      /\ Optional(env.user) # "" =>
           MongoConfig(env).authSource \in
             {Optional(env.authSource), WordOr(env.database, "studygroup")} \ {""}
  <2>1. WordOr(env.database, "studygroup") # ""
    BY <1>1 DEF MongoAccepted
  <2>2. /\ MongoConfig(env).username = Optional(env.user)
        /\ MongoConfig(env).password = Optional(env.password)
        /\ MongoConfig(env).authSource =
             IF Optional(env.user) = "" THEN ""
             ELSE IF Optional(env.authSource) # "" THEN Optional(env.authSource)
             ELSE WordOr(env.database, "studygroup")
    BY DEF MongoConfig
  <2>3. QED
    BY <2>1, <2>2
<1>5. (Optional(env.user) = "") <=> (Optional(env.password) = "")
  BY <1>1 DEF MongoAccepted
<1>6. QED
  BY <1>2, <1>3, <1>4, <1>5

----------------------------------------------------------------------------
(* Places in a sequence.                                                   *)

(* There is a place for every number up to how many there are. *)
LEMMA PlaceExists ==
  ASSUME NEW n \in Nat, NEW places, places \subseteq 1 .. n, NEW k \in 1 .. Cardinality(places)
  PROVE  \E i \in places : Cardinality({j \in places : j <= i}) = k
<1> DEFINE upTo(i) == {j \in places : j <= i}
           count == Cardinality(places)
           rank == [i \in places |-> Cardinality(upTo(i))]
<1>1. IsFiniteSet(places) /\ count \in Nat
  <2>1. IsFiniteSet(1 .. n)
    BY FS_Interval
  <2>2. IsFiniteSet(places)
    BY <2>1, FS_Subset
  <2>3. QED
    BY <2>2, FS_CardinalityType
<1>2. ASSUME NEW i \in places
      PROVE  IsFiniteSet(upTo(i)) /\ Cardinality(upTo(i)) \in 1 .. count
  <2>1. IsFiniteSet(upTo(i)) /\ Cardinality(upTo(i)) <= count /\ Cardinality(upTo(i)) \in Nat
    BY <1>1, FS_Subset, FS_CardinalityType
  <2>2. i \in upTo(i)
    OBVIOUS
  <2>3. Cardinality(upTo(i)) # 0
    BY <2>1, <2>2, FS_EmptySet
  <2>4. QED
    BY <1>1, <2>1, <2>3
<1>3. ASSUME NEW i \in places, NEW j \in places, i < j
      PROVE  Cardinality(upTo(i)) # Cardinality(upTo(j))
  <2>0. \A l \in places : l \in Int
    OBVIOUS
  <2>1. upTo(i) \subseteq upTo(j)
    <3>1. \A l \in places : l <= i => l <= j
      BY <1>3, <2>0
    <3>2. QED
      BY <3>1
  <2>2. j \in upTo(j) /\ j \notin upTo(i)
    BY <1>3, <2>0
  <2> HIDE DEF upTo
  <2>3. QED
    BY <1>2, <2>1, <2>2, FS_Subset
<1>4. \A i, j \in places : rank[i] = rank[j] => i = j
  <2>1. \A i, j \in places : i = j \/ i < j \/ j < i
    OBVIOUS
  <2>2. QED
    BY <1>3, <2>1
<1>5. rank \in [places -> 1 .. count]
  BY <1>2
<1> HIDE DEF rank, count
<1>6. rank \in Injection(places, 1 .. count)
  BY <1>4, <1>5 DEF Injection, IsInjective
<1>7. IsFiniteSet(1 .. count) /\ Cardinality(1 .. count) = count
  BY <1>1, FS_Interval
<1>8. rank \in Surjection(places, 1 .. count)
  BY <1>6, <1>7, FS_Injection DEF count
<1>9. k \in 1 .. count
  BY DEF count
<1>10. PICK i \in places : rank[i] = k
  BY <1>8, <1>9 DEF Surjection
<1>11. QED
  BY <1>10 DEF rank

(* Keeping all pairs keeps the sequence. *)
LEMMA KeepAll ==
  ASSUME NEW n \in Nat, NEW pairs, pairs = [i \in 1 .. n |-> pairs[i]]
  PROVE  Keep(pairs, DOMAIN pairs) = pairs
<1>1. DOMAIN pairs = 1 .. n /\ Cardinality(1 .. n) = n
  BY FS_Interval
<1>2. ASSUME NEW k \in 1 .. n, NEW i \in 1 .. n
      PROVE  Cardinality({j \in 1 .. n : j <= i}) = k <=> i = k
  <2>1. {j \in 1 .. n : j <= i} = 1 .. i
    OBVIOUS
  <2>2. Cardinality(1 .. i) = i
    BY FS_Interval
  <2>3. QED
    BY <2>1, <2>2
<1>3. ASSUME NEW k \in 1 .. n
      PROVE  (CHOOSE i \in 1 .. n : Cardinality({j \in 1 .. n : j <= i}) = k) = k
  BY <1>2
<1>4. Keep(pairs, DOMAIN pairs) =
        [k \in 1 .. n |-> pairs[CHOOSE i \in 1 .. n : Cardinality({j \in 1 .. n : j <= i}) = k]]
  BY <1>1 DEF Keep
<1>5. QED
  BY <1>3, <1>4

(* The values at some places do not depend on the names. *)
LEMMA KeepValues ==
  ASSUME NEW pairs, IsSequence(pairs), NEW renamed, Values(renamed) = Values(pairs),
         NEW places, places \subseteq DOMAIN pairs
  PROVE  Values(Keep(renamed, places)) = Values(Keep(pairs, places))
<1>0. /\ Len(pairs) \in Nat /\ places \subseteq 1 .. Len(pairs)
      /\ \A i \in 1 .. Len(pairs) : renamed[i][2] = pairs[i][2]
  <2>1. DOMAIN Values(renamed) = DOMAIN renamed /\ DOMAIN Values(pairs) = DOMAIN pairs
    BY DEF Values
  <2>2. \A i \in DOMAIN pairs : Values(renamed)[i] = renamed[i][2] /\ Values(pairs)[i] = pairs[i][2]
    BY <2>1 DEF Values
  <2>3. QED
    BY <2>2 DEF IsSequence
<1> DEFINE place(k) == CHOOSE i \in places : Cardinality({j \in places : j <= i}) = k
<1>1. ASSUME NEW k \in 1 .. Cardinality(places)
      PROVE  place(k) \in 1 .. Len(pairs)
  BY <1>0, PlaceExists
<1>2. ASSUME NEW anyPairs
      PROVE  Values(Keep(anyPairs, places)) =
               [k \in 1 .. Cardinality(places) |-> anyPairs[place(k)][2]]
  BY DEF Values, Keep
<1> HIDE DEF place
<1>3. QED
  BY <1>0, <1>1, <1>2

----------------------------------------------------------------------------
(* Decoding.                                                               *)

LEMMA RenameKeeps ==
  ASSUME NEW pairs, IsSequence(pairs), NEW fieldNames
  PROVE  /\ DOMAIN Rename(pairs, fieldNames) = 1 .. Len(pairs)
         /\ \A i \in 1 .. Len(pairs) : Rename(pairs, fieldNames)[i][2] = pairs[i][2]
         /\ Values(Rename(pairs, fieldNames)) = Values(pairs)
BY DEF Rename, Values, IsSequence

(* Renaming that does not collide loses nothing in a dictionary. *)
LEMMA DictionaryKeepsAll ==
  ASSUME NEW pairs, IsSequence(pairs), NEW fieldNames, ~ Collides(pairs, fieldNames)
  PROVE  AsDictionary(Rename(pairs, fieldNames)) = Rename(pairs, fieldNames)
<1> DEFINE renamed == Rename(pairs, fieldNames)
<1>1. /\ renamed = [i \in 1 .. Len(pairs) |-> renamed[i]] /\ DOMAIN renamed = 1 .. Len(pairs)
      /\ Len(pairs) \in Nat
  BY DEF Rename, IsSequence
<1>2. \A i, j \in DOMAIN renamed : renamed[i][1] = renamed[j][1] => i = j
  BY DEF Collides, IsInjective, Names
<1> HIDE DEF renamed
<1>3. {i \in DOMAIN renamed : \A j \in DOMAIN renamed : j > i => renamed[j][1] # renamed[i][1]}
      = DOMAIN renamed
  BY <1>1, <1>2
<1>4. AsDictionary(renamed) = Keep(renamed, DOMAIN renamed)
  BY <1>3 DEF AsDictionary
<1>5. QED
  BY <1>1, <1>4, KeepAll DEF renamed

(* The names of the envelope are not renamed, and no other name becomes    *)
(* one of them.                                                            *)
LEMMA EnvelopeIsKept ==
  ASSUME NEW pairs, IsSequence(pairs), IsInjective(Names(pairs)),
         NEW name \in {"stream", "data", "id"}
  PROVE  LET renamed == Rename(pairs, FieldNames)
         IN  /\ \A i \in 1 .. Len(pairs) : renamed[i][1] = name <=> pairs[i][1] = name
             /\ Has(renamed, name) <=> Has(pairs, name)
             /\ Get(renamed, name) = Get(pairs, name)
<1> DEFINE renamed == Rename(pairs, FieldNames)
<1>1. /\ DOMAIN FieldNames = {"e", "s", "E", "T", "a", "p", "q", "f", "l", "m"}
      /\ \A field \in DOMAIN FieldNames : FieldNames[field] # name
  BY DEF FieldNames
<1>2. /\ DOMAIN renamed = 1 .. Len(pairs) /\ DOMAIN pairs = 1 .. Len(pairs)
      /\ \A i \in 1 .. Len(pairs) :
           renamed[i] = <<IF pairs[i][1] \in DOMAIN FieldNames THEN FieldNames[pairs[i][1]]
                          ELSE pairs[i][1], pairs[i][2]>>
  BY DEF Rename, IsSequence
<1> HIDE DEF renamed
<1>3. \A i \in 1 .. Len(pairs) :
        renamed[i][2] = pairs[i][2] /\ (renamed[i][1] = name <=> pairs[i][1] = name)
  BY <1>1, <1>2
<1>4. Has(renamed, name) <=> Has(pairs, name)
  BY <1>2, <1>3 DEF Has
<1>5. \A i, j \in 1 .. Len(pairs) : pairs[i][1] = pairs[j][1] => i = j
  BY <1>2 DEF IsInjective, Names
<1>6. ASSUME Has(pairs, name)
      PROVE  Get(renamed, name) = Get(pairs, name)
  <2> DEFINE one == CHOOSE i \in DOMAIN pairs : pairs[i][1] = name
             other == CHOOSE i \in DOMAIN renamed : renamed[i][1] = name
  <2>1. one \in 1 .. Len(pairs) /\ pairs[one][1] = name
    BY <1>2, <1>6 DEF Has
  <2>2. other \in 1 .. Len(pairs) /\ renamed[other][1] = name
    BY <1>2, <1>4, <1>6 DEF Has
  <2>3. Get(pairs, name) = pairs[one][2] /\ Get(renamed, name) = renamed[other][2]
    BY <1>4, <1>6 DEF Get
  <2> HIDE DEF one, other
  <2>4. one = other
    BY <1>3, <1>5, <2>1, <2>2
  <2>5. QED
    BY <1>3, <2>1, <2>3, <2>4
<1>7. QED
  BY <1>3, <1>4, <1>6 DEF Get, renamed

(* What is found in a message is a value of it. *)
LEMMA GetIsValue ==
  ASSUME NEW pairs, NEW name, Get(pairs, name) # Null
  PROVE  Get(pairs, name).pairs \in Objects(pairs)
<1>1. Has(pairs, name)
  BY DEF Get
<1> DEFINE one == CHOOSE i \in DOMAIN pairs : pairs[i][1] = name
<1>2. one \in DOMAIN pairs
  BY <1>1 DEF Has
<1>3. Get(pairs, name) = pairs[one][2]
  BY <1>1 DEF Get
<1> HIDE DEF one
<1>4. pairs[one][2] \in ToSet(Values(pairs))
  BY <1>2 DEF ToSet, Values
<1>5. QED
  BY <1>3, <1>4 DEF Objects

----------------------------------------------------------------------------
LEMMA InitInv == Init => IInv
BY DEF Init, IInv, ConfigInv, EventInv, Idle

LEMMA ConfigPreserved == IInv /\ [Next]_vars => ConfigInv'
<1> SUFFICES ASSUME IInv, [Next]_vars PROVE ConfigInv'
  OBVIOUS
<1> USE DEF IInv, ConfigInv
<1>1. CASE RejectSettings
  BY <1>1 DEF RejectSettings
<1>2. CASE LoadSettings
  BY <1>2 DEF LoadSettings
<1>3. CASE BuildRuntime
  <2>1. OutputAccepts(config.names, Routes)
    BY <1>3, OutputIsBuilt DEF BuildRuntime
  <2>2. QED
    BY <1>3, <2>1 DEF BuildRuntime
<1>4. CASE RejectProducts
  BY <1>4 DEF RejectProducts
<1>5. CASE Subscribe
  <2>1. IndexAccepts(config) /\ \A group \in DOMAIN Groups : Requested(config, group) # {}
    BY <1>5, IndexIsBuilt, StreamsAreRequested DEF Subscribe
  <2>2. QED
    BY <1>5, <2>1 DEF Subscribe
<1>6. CASE Receive
  BY <1>6 DEF Receive
<1>7. CASE Write
  BY <1>7 DEF Write
<1>8. CASE ReceiveNext
  BY <1>8 DEF ReceiveNext
<1>9. CASE SubscriptionRejected
  BY <1>9 DEF SubscriptionRejected
<1>10. CASE UNCHANGED vars
  BY <1>10 DEF vars
<1>11. QED
  BY <1>1, <1>2, <1>3, <1>4, <1>5, <1>6, <1>7, <1>8, <1>9, <1>10 DEF Next

LEMMA EventPreserved == IInv /\ [Next]_vars => EventInv'
<1> SUFFICES ASSUME IInv, [Next]_vars PROVE EventInv'
  OBVIOUS
<1> USE DEF IInv, EventInv, Idle
<1>1. CASE RejectSettings
  BY <1>1 DEF RejectSettings
<1>2. CASE LoadSettings
  BY <1>2 DEF LoadSettings
<1>3. CASE BuildRuntime
  BY <1>3 DEF BuildRuntime
<1>4. CASE RejectProducts
  BY <1>4 DEF RejectProducts
<1>5. CASE Subscribe
  BY <1>5 DEF Subscribe
<1>6. CASE Receive
  BY <1>6 DEF Receive
<1>7. CASE Write
  BY <1>7 DEF Write
<1>8. CASE ReceiveNext
  BY <1>8 DEF ReceiveNext, Forget
<1>9. CASE SubscriptionRejected
  BY <1>9 DEF SubscriptionRejected, Forget
<1>10. CASE UNCHANGED vars
  BY <1>10 DEF vars
<1>11. QED
  BY <1>1, <1>2, <1>3, <1>4, <1>5, <1>6, <1>7, <1>8, <1>9, <1>10 DEF Next

----------------------------------------------------------------------------
(* The events.                                                             *)

Readable(message) == Decodable(message) /\ ~ Collides(message.pairs, FieldNames)

LEMMA NormalizeIs ==
  ASSUME NEW message, IsSequence(message.pairs)
  PROVE  Normalize(message) =
           IF Readable(message) THEN [raw |-> FALSE, pairs |-> Rename(message.pairs, FieldNames)]
           ELSE [raw |-> TRUE, pairs |-> << >>]
BY DictionaryKeepsAll DEF Normalize, Readable

Stream(delivered) == Get(delivered.message.pairs, "stream")
Payload(delivered) == Get(delivered.message.pairs, "data")

(* The streams of its own connection that a message names. *)
Found(loaded, delivered) ==
  IF Stream(delivered).type = "string" /\ Payload(delivered).type = "object"
  THEN Lookup(loaded, delivered.group, Stream(delivered).text) ELSE {}

LEMMA DeliveryTypes ==
  ASSUME NEW delivered \in Deliveries
  PROVE  /\ delivered.group \in DOMAIN Groups
         /\ IsSequence(delivered.message.pairs)
         /\ Readable(delivered.message) => IsInjective(Names(delivered.message.pairs))
         /\ Payload(delivered).type = "object" => IsSequence(Payload(delivered).pairs)
<1> DEFINE pairs == delivered.message.pairs
<1>1. pairs \in Objects(pairs)
  BY DEF Objects
<1>2. Payload(delivered).type = "object" => Payload(delivered) # Null
  BY DEF Null
<1>3. QED
  BY <1>1, <1>2, GetIsValue, DeliveriesAssumption DEF Payload, Readable, Decodable

(* Either the event holds the message as it came, or it is a control       *)
(* event with all pairs, or that of a stream the message names.            *)
LEMMA EventIs ==
  ASSUME NEW loaded, NEW delivered \in Deliveries
  PROVE  LET e == EventOf(loaded, delivered)
             renamed == Rename(delivered.message.pairs, FieldNames)
             type == (CHOOSE spec \in Found(loaded, delivered) : TRUE).type
         IN  \/ e.raw /\ e.type = "control"
             \/ /\ ~ e.raw /\ e.type = "control" /\ e.data = renamed
                /\ Readable(delivered.message) /\ Found(loaded, delivered) = {}
             \/ /\ ~ e.raw /\ e.type = type
                /\ e.data = Rename(Payload(delivered).pairs, FieldNamesByStream[type])
                /\ e.transport = Others(renamed)
                /\ ~ Collides(Payload(delivered).pairs, FieldNamesByStream[type])
                /\ Readable(delivered.message) /\ Found(loaded, delivered) # {}
<1> DEFINE e == EventOf(loaded, delivered)
           renamed == Rename(delivered.message.pairs, FieldNames)
           found == Found(loaded, delivered)
           type == (CHOOSE spec \in found : TRUE).type
           message == delivered.message
<1>1. /\ IsSequence(message.pairs)
      /\ Readable(message) => IsInjective(Names(message.pairs))
      /\ Payload(delivered).type = "object" => IsSequence(Payload(delivered).pairs)
  BY DeliveryTypes
<1>2. CASE ~ Readable(message)
  <2>1. Normalize(message) = [raw |-> TRUE, pairs |-> << >>]
    BY <1>1, <1>2, NormalizeIs
  <2>2. Normalize(message).raw = TRUE
    BY <2>1
  <2>3. Get(Normalize(message).pairs, "stream") = Null
    BY <2>1 DEF Get, Has
  <2>4. Null.type # "string"
    BY DEF Null
  <2>5. e = ControlEvent(delivered.group, TRUE, Normalize(message).pairs)
    BY <2>2, <2>3, <2>4 DEF EventOf
  <2>6. QED
    BY <2>5 DEF ControlEvent
<1>3. CASE Readable(message)
  <2>1. /\ Normalize(message) = [raw |-> FALSE, pairs |-> renamed]
        /\ Get(renamed, "stream") = Stream(delivered) /\ Get(renamed, "data") = Payload(delivered)
    BY <1>1, <1>3, NormalizeIs, EnvelopeIsKept DEF Stream, Payload
  <2>2. Normalize(message).raw = FALSE /\ Normalize(message).pairs = renamed
    BY <2>1
  <2> DEFINE collides == Collides(Payload(delivered).pairs, FieldNamesByStream[type])
  <2> HIDE DEF renamed, type
  <2>3. e = IF (found # {} /\ collides) \/ found = {}
            THEN ControlEvent(delivered.group, found # {} /\ collides, renamed)
            ELSE [type |-> type, market |-> Groups[delivered.group].market, raw |-> FALSE,
                  data |-> AsDictionary(Rename(Payload(delivered).pairs, FieldNamesByStream[type])),
                  transport |-> Others(renamed)]
    BY <2>1, <2>2 DEF EventOf, Found, type
  <2>4. found # {} => IsSequence(Payload(delivered).pairs)
    BY <1>1 DEF Found
  <2>5. CASE found = {}
    <3>1. e = ControlEvent(delivered.group, FALSE, renamed)
      BY <2>3, <2>5
    <3>2. QED
      BY <1>3, <2>5, <3>1 DEF ControlEvent, renamed
  <2>6. CASE found # {} /\ collides
    <3>1. e = ControlEvent(delivered.group, TRUE, renamed)
      BY <2>3, <2>6
    <3>2. QED
      BY <3>1 DEF ControlEvent
  <2>7. CASE found # {} /\ ~ collides
    <3>1. AsDictionary(Rename(Payload(delivered).pairs, FieldNamesByStream[type])) =
            Rename(Payload(delivered).pairs, FieldNamesByStream[type])
      BY <2>4, <2>7, DictionaryKeepsAll
    <3>2. /\ e.raw = FALSE /\ e.type = type /\ e.transport = Others(renamed)
          /\ e.data = Rename(Payload(delivered).pairs, FieldNamesByStream[type])
      BY <2>3, <2>7, <3>1
    <3>3. QED
      BY <1>3, <2>7, <3>2 DEF renamed, type
  <2>8. QED
    BY <2>5, <2>6, <2>7
<1>4. QED
  BY <1>2, <1>3

----------------------------------------------------------------------------
(* What was loaded was accepted, and the event in hand is that of the      *)
(* message in hand, in every reachable state.                              *)
THEOREM Invariance == Spec => []IInv
<1>1. IInv /\ [Next]_vars => IInv'
  BY ConfigPreserved, EventPreserved DEF IInv
<1>2. QED
  BY InitInv, <1>1, PTL DEF Spec

(* Accepted settings are not refused later, where nobody would explain it: *)
(* no constructor raises, and the server's address is complete.            *)
THEOREM SettingsStart == Spec => []AcceptedSettingsStart
<1>1. IInv => AcceptedSettingsStart
  <2> SUFFICES ASSUME IInv PROVE AcceptedSettingsStart
    OBVIOUS
  <2>1. phase # "refused"
    BY DEF IInv, ConfigInv
  <2>2. ASSUME config # Nothing
        PROVE  /\ config.mongo.port \in Ports
               /\ (config.mongo.username # "") = (config.mongo.password # "")
               /\ (config.mongo.username # "") = (config.mongo.authSource # "")
    <3>1. PICK candidate \in Candidates : Accepted(candidate) /\ config = Loaded(candidate)
      BY <2>2 DEF IInv, ConfigInv
    <3>2. QED
      BY <3>1, ServerIsAddressed
  <2>3. QED
    BY <2>1, <2>2 DEF AcceptedSettingsStart
<1>2. QED
  BY <1>1, Invariance, PTL

(* The values of an event are those of the message, under distinct names,  *)
(* and no number was read inexactly.                                       *)
LEMMA EventKeepsValues ==
  ASSUME NEW loaded, NEW delivered \in Deliveries, ~ EventOf(loaded, delivered).raw
  PROVE  LET e == EventOf(loaded, delivered)
             sent == delivered.message.pairs
             kept == IF e.type = "control" THEN sent ELSE Get(sent, "data").pairs
         IN  /\ Values(e.data) = Values(kept) /\ IsInjective(Names(e.data))
             /\ e.type # "control" => Values(e.transport) = Values(Others(sent))
             /\ \A pairs \in Objects(sent) :
                  \A value \in ToSet(Values(pairs)) : value.type # "float"
<1> DEFINE e == EventOf(loaded, delivered)
           sent == delivered.message.pairs
           renamed == Rename(sent, FieldNames)
           found == Found(loaded, delivered)
           type == (CHOOSE spec \in found : TRUE).type
           payload == Payload(delivered).pairs
<1>0. /\ IsSequence(sent) /\ Len(sent) \in Nat /\ DOMAIN sent = 1 .. Len(sent)
  BY DeliveryTypes DEF IsSequence
<1>1. Readable(delivered.message)
  BY EventIs
<1>2. IsInjective(Names(sent))
  BY <1>1, DeliveryTypes
<1>3. \A pairs \in Objects(sent) : \A value \in ToSet(Values(pairs)) : value.type # "float"
  BY <1>1 DEF Readable, Decodable
<1>4. CASE found = {}
  <2>1. e.type = "control" /\ e.data = renamed
    BY <1>4, EventIs
  <2>2. IsInjective(Names(renamed))
    BY <1>1 DEF Readable, Collides
  <2>3. Values(renamed) = Values(sent)
    BY <1>0, RenameKeeps
  <2>4. QED
    BY <1>3, <2>1, <2>2, <2>3
<1>5. CASE found # {}
  <2>1. /\ e.type = type /\ e.data = Rename(payload, FieldNamesByStream[type])
        /\ e.transport = Others(renamed) /\ ~ Collides(payload, FieldNamesByStream[type])
    BY <1>5, EventIs
  <2>2. IsSequence(payload)
    BY <1>5, DeliveryTypes DEF Found
  <2>3. Values(e.data) = Values(payload) /\ IsInjective(Names(e.data))
    BY <2>1, <2>2, RenameKeeps DEF Collides
  <2>4. type # "control"
    <3>1. found \subseteq Specs(loaded)
      BY DEF Found, Lookup
    <3>2. (CHOOSE spec \in found : TRUE) \in Specs(loaded)
      BY <1>5, <3>1
    <3>3. type \in DOMAIN RouteByStreamType
      BY <3>2, SpecsAre, GroupsAre
    <3>4. "control" \notin DOMAIN RouteByStreamType
      BY DEF RouteByStreamType
    <3>5. QED
      BY <3>3, <3>4
  <2>5. Values(Others(renamed)) = Values(Others(sent))
    <3>1. /\ DOMAIN renamed = 1 .. Len(sent)
          /\ \A i \in 1 .. Len(sent) : renamed[i][2] = sent[i][2]
      BY <1>0, RenameKeeps
    <3>2. \A i \in 1 .. Len(sent) :
            renamed[i][1] \in {"stream", "data"} <=> sent[i][1] \in {"stream", "data"}
      BY <1>0, <1>2, EnvelopeIsKept
    <3> DEFINE places == {i \in 1 .. Len(sent) : sent[i][1] \notin {"stream", "data"}}
    <3> HIDE DEF renamed
    <3>3. Others(renamed) = Keep(renamed, places) /\ Others(sent) = Keep(sent, places)
      <4>1. {i \in DOMAIN renamed : renamed[i][1] \notin {"stream", "data"}} = places
        BY <3>1, <3>2
      <4>2. {i \in DOMAIN sent : sent[i][1] \notin {"stream", "data"}} = places
        BY <1>0
      <4> HIDE DEF places
      <4>3. QED
        BY <4>1, <4>2 DEF Others
    <3>4. places \subseteq 1 .. Len(sent)
      OBVIOUS
    <3> HIDE DEF places
    <3>5. Values(renamed) = Values(sent)
      BY <1>0, RenameKeeps DEF renamed
    <3>6. Values(Keep(renamed, places)) = Values(Keep(sent, places))
      BY <1>0, <3>4, <3>5, KeepValues
    <3>7. QED
      BY <3>3, <3>6
  <2>6. QED
    BY <1>3, <2>1, <2>3, <2>4, <2>5 DEF Payload
<1>6. QED
  BY <1>4, <1>5

(* No value of a message is lost or altered, whatever the server sends.    *)
THEOREM NoValueIsLost == Spec => []ValuesKept
<1>1. IInv => ValuesKept
  <2> SUFFICES ASSUME IInv, event # Nothing, ~ event.raw PROVE ValuesKept
    BY DEF ValuesKept
  <2>1. delivery \in Deliveries /\ event = EventOf(config, delivery)
    BY DEF IInv, EventInv, Idle
  <2>2. QED
    BY <2>1, EventKeepsValues DEF ValuesKept
<1>2. QED
  BY <1>1, Invariance, PTL

----------------------------------------------------------------------------
(* The collections.                                                        *)

LEMMA RoutesAreDistinct ==
  ASSUME NEW one \in DOMAIN RouteByStreamType
  PROVE  /\ RouteByStreamType[one] \in Routes /\ "control" \in Routes
         /\ RouteByStreamType[one] # "control"
         /\ RouteOf(one) = RouteByStreamType[one] /\ RouteOf("control") = "control"
         /\ \A other \in DOMAIN RouteByStreamType :
              RouteByStreamType[one] = RouteByStreamType[other] => one = other
BY RoutesAre DEF RouteByStreamType, RouteOf

(* A stream was asked for on a connection exactly if the index has it.     *)
LEMMA AskedIsFound ==
  ASSUME NEW loaded, NEW group, NEW name
  PROVE  /\ name \in Requested(loaded, group) <=> Lookup(loaded, group, name) # {}
         /\ \A spec \in Lookup(loaded, group, name) :
              spec.type = name[2] /\ spec.type \in DOMAIN RouteByStreamType
<1>1. ASSUME NEW spec \in Lookup(loaded, group, name)
      PROVE  spec.type = name[2] /\ spec.type \in DOMAIN RouteByStreamType
  <2>1. spec \in Specs(loaded) /\ StreamName(loaded, spec) = name
    BY DEF Lookup
  <2>2. spec.type \in DOMAIN RouteByStreamType
    BY <2>1, SpecsAre, GroupsAre
  <2>3. StreamName(loaded, spec)[2] = spec.type
    BY DEF StreamName
  <2>4. QED
    BY <2>1, <2>2, <2>3
<1>2. QED
  BY <1>1 DEF Requested, Lookup

(* The type of an event is that of the stream its connection asked for, or *)
(* control.                                                                *)
LEMMA TypeIsAsked ==
  ASSUME NEW loaded, NEW delivered \in Deliveries
  PROVE  LET e == EventOf(loaded, delivered)
             asked == /\ ~ e.raw /\ Stream(delivered).type = "string"
                      /\ Payload(delivered).type = "object"
                      /\ Stream(delivered).text \in Requested(loaded, delivered.group)
         IN  IF asked THEN e.type = Stream(delivered).text[2] /\ e.type \in DOMAIN RouteByStreamType
             ELSE e.type = "control"
<1> DEFINE e == EventOf(loaded, delivered)
           found == Found(loaded, delivered)
           type == (CHOOSE spec \in found : TRUE).type
           asked == /\ ~ e.raw /\ Stream(delivered).type = "string"
                    /\ Payload(delivered).type = "object"
                    /\ Stream(delivered).text \in Requested(loaded, delivered.group)
<1>1. asked <=> ~ e.raw /\ found # {}
  BY AskedIsFound DEF Found
<1>2. CASE ~ asked
  <2>1. e.type = "control"
    BY <1>1, <1>2, EventIs
  <2>2. QED
    BY <1>2, <2>1
<1>3. CASE asked
  <2>1. e.type = type
    BY <1>1, <1>3, EventIs
  <2>2. (CHOOSE spec \in found : TRUE) \in found
    BY <1>1, <1>3
  <2>3. found = Lookup(loaded, delivered.group, Stream(delivered).text)
    BY <1>1, <1>3 DEF Found
  <2>4. type = Stream(delivered).text[2] /\ type \in DOMAIN RouteByStreamType
    BY <2>2, <2>3, AskedIsFound
  <2>5. QED
    BY <1>3, <2>1, <2>4
<1>4. QED
  BY <1>2, <1>3

(* Every event that could be read goes to the collection of the stream its *)
(* own connection asked for, and all others to the control collection.     *)
THEOREM CollectionIsReached == Spec => []ReachesItsCollection
<1>1. IInv => ReachesItsCollection
  <2> SUFFICES ASSUME IInv, phase = "written" PROVE ReachesItsCollection
    BY DEF ReachesItsCollection
  <2> DEFINE asked == /\ ~ event.raw /\ Stream(delivery).type = "string"
                      /\ Payload(delivery).type = "object"
                      /\ Stream(delivery).text \in Requested(config, delivery.group)
             asFor(type) == Stream(delivery).text[2] = type
  <2>1. /\ delivery \in Deliveries /\ event = EventOf(config, delivery)
        /\ collection = config.names[RouteOf(event.type)]
    BY DEF IInv, EventInv
  <2>2. PICK candidate \in Candidates : Accepted(candidate) /\ config = Loaded(candidate)
    BY DEF IInv, ConfigInv
  <2>3. \A one, other \in Routes : config.names[one] = config.names[other] => one = other
    BY <2>2, NamesAreDistinct
  <2>4. IF asked THEN asFor(event.type) /\ event.type \in DOMAIN RouteByStreamType
        ELSE event.type = "control"
    BY <2>1, TypeIsAsked
  <2>6. "aggTrade" \in DOMAIN RouteByStreamType
    BY DEF RouteByStreamType
  <2>7. ~ asked => collection = config.names["control"]
    BY <2>1, <2>4, <2>6, RoutesAreDistinct
  <2>8. ASSUME NEW type \in DOMAIN RouteByStreamType
        PROVE  collection = config.names[RouteByStreamType[type]] <=> asked /\ asFor(type)
    <3>1. CASE asked
      <4>1. /\ event.type \in DOMAIN RouteByStreamType /\ asFor(event.type)
            /\ collection = config.names[RouteByStreamType[event.type]]
        BY <2>1, <2>4, <3>1, RoutesAreDistinct
      <4>2. collection = config.names[RouteByStreamType[type]] <=> event.type = type
        BY <2>3, <4>1, RoutesAreDistinct
      <4>3. QED
        BY <3>1, <4>1, <4>2
    <3>2. CASE ~ asked
      BY <2>3, <2>7, <3>2, RoutesAreDistinct
    <3>3. QED
      BY <3>1, <3>2
  <2>9. QED
    BY <2>7, <2>8 DEF ReachesItsCollection, Stream, Payload
<1>2. QED
  BY <1>1, Invariance, PTL
============================================================================
