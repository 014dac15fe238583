----------------------------- MODULE MCRouting -----------------------------
(***************************************************************************)
(* Routing for TLC.  Candidates differ from a good one in one or two       *)
(* settings; messages are an envelope with every kind of stream and data,  *)
(* or the other forms and the answers to a subscription.                   *)
(***************************************************************************)
EXTENDS Routing

OrderedNames == [route \in Routes |-> Text(route)]

Good ==
  [symbols |-> <<Text("BTCUSDT"), Loose("ETHUSDT")>>,
   options |-> [kline |-> "1m", depth |-> "100ms", mark |-> "1s"], validate |-> TRUE,
   mongo |-> [host |-> Unset, port |-> Unset, user |-> Unset, password |-> Unset,
              authSource |-> Unset, database |-> Unset, collection |-> Unset],
   names |-> OrderedNames, stderrIsTerminal |-> TRUE]

Texts == {Unset, Text(""), Loose(""), Text("one"), Loose("two")}

SomeCandidates ==
  {[Good EXCEPT !.symbols = symbols, !.validate = validate] :
     symbols \in UNION {[1 .. n -> {Text("BTCUSDT"), Loose("BTCUSDT"), Text("ETHUSDT"),
                                    Text("BTC-USDT"), Loose("")}] : n \in 0 .. 2},
     validate \in BOOLEAN}
  \union {[Good EXCEPT !.options.kline = kline, !.options.depth = depth] :
            kline \in {"1h", "2m"}, depth \in {"100ms", "250ms"}}
  \union {[Good EXCEPT !.options.mark = "100ms"], [Good EXCEPT !.stderrIsTerminal = FALSE]}
  \union {[Good EXCEPT !.mongo.user = user, !.mongo.password = password,
                       !.mongo.authSource = source] :
            user \in Texts, password \in Texts, source \in Texts}
  \union {[Good EXCEPT !.mongo.port = port, !.mongo.host = host] :
            port \in {Text(n) : n \in {"0", "1", "65535", "65536", "mongo"}} \union {Loose("")},
            host \in Texts}
  \union {[Good EXCEPT !.mongo.database = text] : text \in Texts}
  \union {[Good EXCEPT !.names["kline"] = kline, !.names["control"] = control] :
            kline \in Texts \union {Loose("depth")}, control \in Texts \union {Text("two")}}

Entry(symbol, status, contract, quote) ==
  [symbol |-> symbol, status |-> status, contractType |-> contract, quoteAsset |-> quote]

SomeListings ==
  LET both == {Entry(symbol, "TRADING", "PERPETUAL", "USDT") : symbol \in {"BTCUSDT", "ETHUSDT"}}
      btc == {Entry("BTCUSDT", "TRADING", "PERPETUAL", "USDT")}
      variants == {Entry("ETHUSDT", "BREAK", "PERPETUAL", "USDT"),
                   Entry("ETHUSDT", "TRADING", "CURRENT_QUARTER", "USDT")}
  IN  {[spot |-> both, usdm |-> usdm] : usdm \in {both, btc} \union {btc \union {v} : v \in variants}}

Pair(name, value) == <<name, value>>

Payloads ==
  LET names == {"e", "event_type", "a", "asks", "trade_id", "T", "other"}
  IN  {<< >>, <<Pair("a", Float(<<"0.1">>))>>}
      \union {<<Pair(one, String(<<"first">>)), Pair(two, Null)>> : one \in names, two \in names}

StreamValues ==
  {String(<<"BTCUSDT", "aggTrade", "">>), String(<<"ETHUSDT", "bookTicker", "">>),
   String(<<"BTCUSDT", "kline", "1m">>), String(<<"BTCUSDT", "depth", "100ms">>),
   String(<<"BTCUSDT", "markPrice", "1s">>), String(<<"BTCUSDT", "trade", "">>),
   Integer(<<"1">>), Null}

Extras ==
  {<< >>, <<Pair("later", Null)>>, <<Pair("e", Null)>>,
   <<Pair("e", Null), Pair("event_type", Integer(<<"1">>))>>,
   <<Pair("id", Integer(<<"1">>)), Pair("result", Null)>>,
   <<Pair("stream", String(<<"BTCUSDT", "aggTrade", "">>))>>}

Answers ==
  {<<Pair("result", Null), Pair("id", Integer(<<"1">>))>>,
   <<Pair("code", Integer(<<"2">>)), Pair("id", Integer(<<"1">>))>>,
   <<Pair("code", Integer(<<"2">>)), Pair("id", True)>>,
   <<Pair("result", Null), Pair("id", Integer(<<"2">>))>>,
   <<Pair("result", Null), Pair("id", Integer(<<"1">>)), Pair("id", Integer(<<"1">>))>>,
   <<Pair("e", String(<<"serverShutdown">>))>>}

Form(form, pairs) == [form |-> form, pairs |-> pairs]

SomeDeliveries ==
  [group : DOMAIN Groups,
   message : {Form(form, << >>) : form \in {"binary", "invalid", "array"}}
             \union {Form("object", pairs) : pairs \in Answers}
             \union {Form("object", <<Pair("stream", stream), Pair("data", data)>> \o extra) :
                       stream \in StreamValues, extra \in Extras,
                       data \in {Null, String(<<"data">>)} \union {Object(p) : p \in Payloads}}]
============================================================================
