------------------------------ MODULE Settings ------------------------------
(***************************************************************************)
(* What the program accepts before it starts: symbols, stream options and  *)
(* environment of src/config.py, the products of collector/                *)
(* product_catalog.py, and what the constructors of the output, of the     *)
(* statistics and of the stream index demand of them later.                *)
(*                                                                         *)
(* A text is a word, written plainly or loosely: with blanks around it, or *)
(* a symbol in small letters.  strip() and upper() leave the word.  A text *)
(* may also be unset; no word is None, so "" stands for None once loaded.  *)
(*                                                                         *)
(* The Bug_ operators are plausible slips in the code, used nowhere: each  *)
(* shows that a property fails when it takes the place of its namesake.    *)
(***************************************************************************)
EXTENDS Integers, Sequences, FiniteSets, SequencesExt

Text(word) == [set |-> TRUE, word |-> word, loose |-> FALSE]
Loose(word) == [set |-> TRUE, word |-> word, loose |-> TRUE]
Unset == [set |-> FALSE, word |-> "", loose |-> FALSE]

(* Python's "value or default", and strip() after it: blanks are no default. *)
WordOr(text, default) == IF text.set /\ (text.word # "" \/ text.loose) THEN text.word ELSE default

(* _optional_setting. *)
Optional(text) == text.word

----------------------------------------------------------------------------
(* MongoDB: the settings of the server, by field.                          *)

(* The texts int() understands; others are no port. *)
PortNumber ==
  "0" :> 0 @@ "1" :> 1 @@ "27017" :> 27017 @@ "65535" :> 65535 @@ "65536" :> 65536

Ports == 1 .. 65535

MongoAccepted(env) ==
  LET port == WordOr(env.port, "27017")
  IN  /\ port \in DOMAIN PortNumber /\ PortNumber[port] \in Ports
      /\ WordOr(env.host, "localhost") # "" /\ WordOr(env.database, "studygroup") # ""
      /\ WordOr(env.collection, "binance_events") # ""
      /\ (Optional(env.user) = "") <=> (Optional(env.password) = "")
      /\ Optional(env.user) = "" => Optional(env.authSource) = ""

MongoConfig(env) ==
  LET database == WordOr(env.database, "studygroup")
  IN  [host |-> WordOr(env.host, "localhost"), port |-> PortNumber[WordOr(env.port, "27017")],
       username |-> Optional(env.user), password |-> Optional(env.password),
       authSource |-> IF Optional(env.user) = "" THEN ""
                      ELSE IF Optional(env.authSource) # "" THEN Optional(env.authSource)
                      ELSE database,
       database |-> database, collection |-> WordOr(env.collection, "binance_events")]

(* load_multi_mongo_collection_config: names is a text for every route.    *)
CollectionNames(names) == [route \in DOMAIN names |-> names[route].word]

Bug_CollectionsAccepted(names) ==
  /\ \A route \in DOMAIN names : names[route].set /\ names[route].word # ""
  /\ \A one, other \in DOMAIN names : one # other => names[one] # names[other]

CollectionsAccepted(names) ==
  /\ \A route \in DOMAIN names : names[route].set /\ names[route].word # ""
  /\ \A one, other \in DOMAIN names : one # other => names[one].word # names[other].word

(* What the constructor of MongoMultiCollectionOutput demands of the names *)
(* it is given; it raises otherwise.                                       *)
OutputAccepts(names, routes) ==
  /\ DOMAIN names = routes
  /\ \A route \in routes : names[route] # ""
  /\ Cardinality({names[route] : route \in routes}) = Cardinality(routes)

----------------------------------------------------------------------------
(* Symbols: a sequence of texts.                                           *)

NormalizeSymbols(symbols) == [i \in DOMAIN symbols |-> symbols[i].word]

Alphanumeric(word) == word \notin {"BTC-USDT", "BTC USDT"}

SymbolsAccepted(symbols) ==
  /\ symbols # << >>
  /\ \A i \in DOMAIN symbols : symbols[i].word # "" /\ Alphanumeric(symbols[i].word)
  /\ IsInjective(NormalizeSymbols(symbols))

(* validate_stream_options. *)
OptionsAccepted(options) ==
  /\ options.kline \in {"1s", "1m", "3m", "5m", "15m", "30m", "1h", "2h", "4h", "6h", "8h",
                        "12h", "1d", "3d", "1w", "1M"}
  /\ options.depth \in {"100ms", "1000ms"}
  /\ options.mark \in {"1s", "3s"}

----------------------------------------------------------------------------
(* validate_products: entries are what a market lists.                     *)
Eligible(entries, futures) ==
  {entry.symbol : entry \in {e \in entries :
     /\ e.status = "TRADING"
     /\ futures => e.contractType = "PERPETUAL" /\ e.quoteAsset = "USDT"}}

ProductsAccepted(symbols, spotEntries, usdmEntries) ==
  ToSet(symbols) \subseteq Eligible(spotEntries, FALSE) \intersect Eligible(usdmEntries, TRUE)

----------------------------------------------------------------------------
(* validate_terminal_config: JSON never goes to the terminal of the screen.*)
TerminalAccepted(mode, output, stdoutIsTerminal, stderrIsTerminal) ==
  mode = "tui" => stderrIsTerminal /\ (output = "stdout" => ~ stdoutIsTerminal)
============================================================================
