------------------------------ MODULE Routing ------------------------------
(***************************************************************************)
(* From the settings to the collections: src/run_mongodb.py and            *)
(* multi_runtime.py start the multi-stream profile, and every message is   *)
(* turned into an event (collector/streams.py, multi_parser.py) for one of *)
(* the collections (storage_routes.py, outputs/mongodb_multi.py).          *)
(*                                                                         *)
(* A stream's name is the triple of its symbol, type and option.           *)
(* Connections, failures and the order of the connections' messages are in *)
(* MultiCollector and Runtime; here messages are handled one at a time,    *)
(* which they are: no step of the handling depends on another message.     *)
(*                                                                         *)
(* The Bug_ operators are plausible slips in the code, used nowhere: each  *)
(* shows that a property fails when it takes the place of its namesake.    *)
(***************************************************************************)
EXTENDS Settings, Messages

CONSTANTS Candidates,  \* the command lines and environments to start with
          Listings,    \* what the two markets may list
          Deliveries,  \* the messages, each on a connection group
          Nothing

Groups ==
  [spot_market |-> [market |-> "spot", types |-> {"aggTrade", "bookTicker", "kline"}],
   spot_depth |-> [market |-> "spot", types |-> {"depth"}],
   usdm_mark |-> [market |-> "usdm_futures", types |-> {"markPrice"}]]

RouteByStreamType ==
  [aggTrade |-> "agg_trade", depth |-> "depth", bookTicker |-> "book_ticker",
   kline |-> "kline", markPrice |-> "mark_price"]

Routes == Range(RouteByStreamType) \union {"control"}

RouteOf(type) == IF type \in DOMAIN RouteByStreamType THEN RouteByStreamType[type] ELSE "control"

CommonFieldNames == [e |-> "event_type", E |-> "event_time", s |-> "symbol"]

FieldNamesByStream ==
  [aggTrade |-> [a |-> "trade_id", p |-> "price", q |-> "quantity", f |-> "first_trade_id",
                 l |-> "last_trade_id", T |-> "trade_time", m |-> "is_buyer_maker"]
                @@ CommonFieldNames,
   depth |-> [U |-> "first_update_id", u |-> "final_update_id", b |-> "bids", a |-> "asks"]
             @@ CommonFieldNames,
   bookTicker |-> [u |-> "update_id", b |-> "bid_price", B |-> "bid_quantity",
                   a |-> "ask_price", A |-> "ask_quantity"] @@ CommonFieldNames,
   kline |-> CommonFieldNames,
   markPrice |-> [p |-> "mark_price", i |-> "index_price", P |-> "estimated_settle_price",
                  r |-> "funding_rate", T |-> "next_funding_time"] @@ CommonFieldNames]

(* Symbols are a sequence of texts, and every route has its variable of    *)
(* the environment.                                                        *)
ASSUME CandidatesAssumption ==
  \A candidate \in Candidates :
    /\ candidate.symbols \in Seq([set : BOOLEAN, word : STRING, loose : BOOLEAN])
    /\ DOMAIN candidate.names = Routes

IsSequence(pairs) == Len(pairs) \in Nat /\ DOMAIN pairs = 1 .. Len(pairs)

(* Messages arrive on the connection of a group. *)
ASSUME DeliveriesAssumption ==
  \A delivered \in Deliveries :
    /\ delivered.group \in DOMAIN Groups
    /\ \A pairs \in Objects(delivered.message.pairs) : IsSequence(pairs)

----------------------------------------------------------------------------
(* The streams.                                                            *)

(* build_stream_specs: one for every symbol, by its place, and type.       *)
Specs(config) ==
  UNION {[group : {group}, type : Groups[group].types, place : DOMAIN config.symbols] :
           group \in DOMAIN Groups}

StreamName(config, spec) ==
  <<config.symbols[spec.place], spec.type,
    CASE spec.type = "kline" -> config.options.kline
      [] spec.type = "depth" -> config.options.depth
      [] spec.type = "markPrice" -> config.options.mark
      [] OTHER -> "">>

(* The names a connection asks for in its SUBSCRIBE request. *)
Requested(config, group) == {StreamName(config, spec) : spec \in {s \in Specs(config) : s.group = group}}

(* index_stream_specs raises for two streams of the same key. *)
IndexAccepts(config) ==
  \A one, other \in Specs(config) :
    one.group = other.group /\ StreamName(config, one) = StreamName(config, other) => one = other

Bug_Lookup(config, group, name) == {spec \in Specs(config) : StreamName(config, spec) = name}

Lookup(config, group, name) ==
  {spec \in Specs(config) : spec.group = group /\ StreamName(config, spec) = name}

----------------------------------------------------------------------------
(* The events.                                                             *)

(* A raw event holds the message as it came, and nothing else of it. *)
ControlEvent(group, raw, data) ==
  [type |-> "control", market |-> Groups[group].market, raw |-> raw,
   data |-> IF raw THEN << >> ELSE data, transport |-> << >>]

Others(pairs) == Keep(pairs, {i \in DOMAIN pairs : pairs[i][1] \notin {"stream", "data"}})

(* normalize_received_message. *)
EventOf(config, delivery) ==
  LET decoded == Normalize(delivery.message)
      stream == Get(decoded.pairs, "stream")
      payload == Get(decoded.pairs, "data")
      found == IF stream.type = "string" /\ payload.type = "object"
               THEN Lookup(config, delivery.group, stream.text) ELSE {}
      type == (CHOOSE spec \in found : TRUE).type
      unreadable == decoded.raw \/ (found # {} /\ Collides(payload.pairs, FieldNamesByStream[type]))
  IN  IF unreadable \/ found = {}
      THEN ControlEvent(delivery.group, unreadable, decoded.pairs)
      ELSE [type |-> type, market |-> Groups[delivery.group].market, raw |-> FALSE,
            data |-> AsDictionary(Rename(payload.pairs, FieldNamesByStream[type])),
            transport |-> Others(decoded.pairs)]

----------------------------------------------------------------------------
VARIABLES phase,      \* of the run, then of the message in hand
          config,     \* what was loaded, once accepted
          delivery,   \* the message in hand and its connection group
          event,      \* what became of it
          collection  \* where it went

vars == <<phase, config, delivery, event, collection>>

Idle == delivery = Nothing /\ event = Nothing /\ collection = Nothing

Init == phase = "starting" /\ config = Nothing /\ Idle

Accepted(candidate) ==
  /\ SymbolsAccepted(candidate.symbols)
  /\ OptionsAccepted(candidate.options)
  /\ MongoAccepted(candidate.mongo)
  /\ CollectionsAccepted(candidate.names)
  /\ TerminalAccepted("tui", "none", TRUE, candidate.stderrIsTerminal)

(* main returns 2, or parser.error exits. *)
RejectSettings ==
  /\ phase = "starting"
  /\ \E candidate \in Candidates : ~ Accepted(candidate)
  /\ phase' = "rejected"
  /\ UNCHANGED <<config, delivery, event, collection>>

Loaded(candidate) ==
  [symbols |-> NormalizeSymbols(candidate.symbols),
   options |-> candidate.options, validate |-> candidate.validate,
   mongo |-> MongoConfig(candidate.mongo), names |-> CollectionNames(candidate.names)]

LoadSettings ==
  /\ phase = "starting"
  /\ \E candidate \in Candidates : Accepted(candidate) /\ config' = Loaded(candidate)
  /\ phase' = "loaded"
  /\ UNCHANGED <<delivery, event, collection>>

(* build_multi_stream_runtime, outside main's handling of errors: what a   *)
(* constructor raises there ends the program with a traceback.             *)
BuildRuntime ==
  /\ phase = "loaded"
  /\ phase' = IF OutputAccepts(config.names, Routes) THEN "built" ELSE "refused"
  /\ UNCHANGED <<config, delivery, event, collection>>

Listed(listing) == ProductsAccepted(config.symbols, listing.spot, listing.usdm)

RejectProducts ==
  /\ phase = "built" /\ config.validate
  /\ \E listing \in Listings : ~ Listed(listing)
  /\ phase' = "rejected"
  /\ UNCHANGED <<config, delivery, event, collection>>

(* The connections and the index are built, and the connections subscribe. *)
Subscribe ==
  /\ phase = "built"
  /\ config.validate => \E listing \in Listings : Listed(listing)
  /\ phase' = IF /\ IndexAccepts(config)
                 /\ \A group \in DOMAIN Groups : Requested(config, group) # {}
              THEN "receiving" ELSE "refused"
  /\ UNCHANGED <<config, delivery, event, collection>>

Receive ==
  /\ phase = "receiving"
  /\ delivery' \in Deliveries
  /\ event' = EventOf(config, delivery')
  /\ phase' = "normalized"
  /\ UNCHANGED <<config, collection>>

(* MongoMultiCollectionOutput._route, and the writer of that route. *)
Write ==
  /\ phase = "normalized"
  /\ collection' = config.names[RouteOf(event.type)]
  /\ phase' = "written"
  /\ UNCHANGED <<config, delivery, event>>

Forget == delivery' = Nothing /\ event' = Nothing /\ collection' = Nothing

ReceiveNext ==
  /\ phase = "written" /\ SubscriptionResponse(delivery.message) # "rejection"
  /\ phase' = "receiving" /\ Forget /\ UNCHANGED config

SubscriptionRejected ==
  /\ phase = "written" /\ SubscriptionResponse(delivery.message) = "rejection"
  /\ phase' = "unsubscribed" /\ Forget /\ UNCHANGED config

Next ==
  \/ RejectSettings \/ LoadSettings \/ BuildRuntime \/ RejectProducts \/ Subscribe
  \/ Receive \/ Write \/ ReceiveNext \/ SubscriptionRejected

Spec == Init /\ [][Next]_vars

----------------------------------------------------------------------------
(* Settings that were accepted are never refused later, where an error     *)
(* would be a traceback instead of an explanation: no constructor raises,  *)
(* the index has no two streams of one key, and the URI has all of the     *)
(* credentials or none.                                                    *)
AcceptedSettingsStart ==
  /\ phase # "refused"
  /\ config # Nothing =>
       /\ config.mongo.port \in Ports
       /\ (config.mongo.username # "") = (config.mongo.password # "")
       /\ (config.mongo.username # "") = (config.mongo.authSource # "")

(* Whatever the server sends, the event holds every value of the message,  *)
(* in order and under names of its own, or the message as it came: neither *)
(* a repeated name nor a renamed one that meets another loses a value.     *)
ValuesKept ==
  (event # Nothing /\ ~ event.raw) =>
    LET sent == delivery.message.pairs
        kept == IF event.type = "control" THEN sent ELSE Get(sent, "data").pairs
    IN  /\ Values(event.data) = Values(kept) /\ IsInjective(Names(event.data))
        /\ event.type # "control" => Values(event.transport) = Values(Others(sent))
        /\ \A pairs \in Objects(sent) : \A value \in ToSet(Values(pairs)) : value.type # "float"

(* An event that could be read goes to the collection of the stream it     *)
(* names if its own connection asked for that stream, and every other one, *)
(* an answer to a request or a message of another connection's stream, to  *)
(* the control collection.                                                 *)
ReachesItsCollection ==
  phase = "written" =>
    LET stream == Get(delivery.message.pairs, "stream")
        asked == /\ ~ event.raw /\ stream.type = "string"
                 /\ Get(delivery.message.pairs, "data").type = "object"
                 /\ stream.text \in Requested(config, delivery.group)
    IN  /\ \A type \in DOMAIN RouteByStreamType :
             collection = config.names[RouteByStreamType[type]] <=> asked /\ stream.text[2] = type
        /\ ~ asked => collection = config.names["control"]

(* docs/MULTI_STREAM_EXPANSION_PLAN.md:137: fields of the envelope besides *)
(* stream and data are kept as they are in transport.                      *)
TransportKeptAsIs ==
  (event # Nothing /\ event.type # "control") =>
    event.transport = Others(delivery.message.pairs)
============================================================================
