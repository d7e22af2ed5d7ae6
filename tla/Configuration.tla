---------------------------- MODULE Configuration ----------------------------
(***************************************************************************)
(* How config.cpp reads config.json.  It does not parse JSON: it looks for *)
(* "key" anywhere in a text, then for a colon, then for what it expects.   *)
(*                                                                         *)
(* A text is a sequence of tokens: the six marks of JSON, Scalar for a     *)
(* value without quotes (a number, true, null), and the content of each    *)
(* quoted string.  A key followed by its colon and a value that happens to *)
(* equal a key look the same to a search, as they do in the code.          *)
(*                                                                         *)
(* rule.balance and the two time-outs are parsed and read by nobody, and   *)
(* log_level only filters messages: they are left out.                     *)
(***************************************************************************)
EXTENDS Integers, Sequences, FiniteSetsExt

CONSTANTS
    Quoted,         \* what may stand between quotes
    Address,        \* those with a colon before a digit: "0.0.0.0:8080"
    Numeral,        \* those that std::stoi converts
    Http, Socks5    \* "http" and "socks5", in capitals or not

\* A mark, and a value without quotes, is no string.
Scalar == "scalar"
Mark == {"openBrace", "closeBrace", "openBracket", "closeBracket", "colon", "comma"}
Token == Mark \cup {Scalar} \cup Quoted

\* The string of no characters, and the keys.
Empty == "empty"
RuleKey == {"name", "bind", "type", "targets"}
TopKey == {"worker_threads", "listeners"}

ASSUME TokensAssumption ==
    /\ RuleKey \cup TopKey \cup {Empty} \cup Address \cup Numeral \cup Http \cup Socks5 \subseteq Quoted
    /\ Quoted \cap (Mark \cup {Scalar}) = {}
    /\ Address \cap (RuleKey \cup TopKey) = {}
    /\ Empty \notin Address \cup Numeral
    /\ Http \cap Socks5 = {}

-----------------------------------------------------------------------------
\* The first place from one on where a text has a token of a set; 0 if none.
Find(text, from, tokens) ==
    LET at == {i \in from..Len(text) : text[i] \in tokens}
    IN IF at = {} THEN 0 ELSE Min(at)

\* Where the value of key starts: behind the first colon, in a mark or in a
\* string, behind the first string equal to key; 0 if there is none.
ValueAt(text, key) ==
    LET k == Find(text, 1, {key})
        colon == Find(text, k, Address \cup {"colon"})
    IN IF k = 0 \/ colon = 0 \/ colon = Len(text) \/ text[colon] \in Address
       THEN 0
       ELSE colon + 1

ExtractString(text, key) ==
    LET v == ValueAt(text, key) IN IF v # 0 /\ text[v] \in Quoted THEN text[v] ELSE Empty

\* The strings among the first tokens behind a place, by their number.
StringsBehind(text, v) ==
    LET found[i \in 0..(Len(text) - v)] ==
            CASE i = 0                              -> <<>>
              [] i # 0 /\ text[v + i] \in Quoted     -> Append(found[i - 1], text[v + i])
              [] i # 0 /\ text[v + i] \notin Quoted    -> found[i - 1]
    IN found

\* The elements of the array of key, as far as they are strings.  The loop does
\* not advance at any other value and then never ends.
ExtractStringArray(text, key) ==
    LET v == ValueAt(text, key)
        stop == Find(text, v + 1, (Mark \cup {Scalar}) \ {"comma"})
        end == IF stop = 0 THEN Len(text) + 1 ELSE stop
    IN IF v = 0 \/ text[v] # "openBracket"
       THEN [ends |-> TRUE, strings |-> <<>>]
       ELSE [ends |-> stop = 0 \/ text[stop] = "closeBracket",
             strings |-> StringsBehind(text, v)[end - 1 - v]]

\* One step of ExtractObjectArray: braces are counted, and a bracket ends the
\* array only outside of them.
Scan(s, token) ==
    LET taken == IF s.depth = 0 /\ token = "openBrace" THEN <<token>> ELSE Append(s.object, token)
    IN CASE s.done -> s
         [] ~s.done /\ token = "openBrace" -> [s EXCEPT !.depth = @ + 1, !.object = taken]
         [] ~s.done /\ token = "closeBrace" ->
                [s EXCEPT !.depth = @ - 1, !.object = taken,
                          !.objects = IF s.depth = 1 THEN Append(@, taken) ELSE @]
         [] ~s.done /\ token = "closeBracket" /\ s.depth = 0 -> [s EXCEPT !.done = TRUE]
         [] OTHER -> [s EXCEPT !.object = taken]

\* The scan of the first tokens behind a place, by their number.
ScanBehind(text, v) ==
    LET none == [depth |-> 0, object |-> <<>>, objects |-> <<>>, done |-> FALSE]
        scan[i \in 0..(Len(text) - v)] ==
            IF i = 0 THEN none ELSE Scan(scan[i - 1], text[v + i])
    IN scan

\* The texts of the objects in the array of key.
ExtractObjectArray(text, key) ==
    LET v == ValueAt(text, key)
    IN IF v = 0 \/ text[v] # "openBracket" THEN <<>> ELSE ScanBehind(text, v)[Len(text) - v].objects

ParseProxyType(type) ==
    CASE type \in Http   -> "HTTP"
      [] type \in Socks5 -> "SOCKS5"
      [] OTHER           -> "TCP"

RuleOf(object) ==
    [name    |-> ExtractString(object, "name"),
     bind    |-> ExtractString(object, "bind"),
     type    |-> ParseProxyType(ExtractString(object, "type")),
     targets |-> ExtractStringArray(object, "targets").strings]

\* What ParseRules drops the rest of.
Complete(rule) == rule.name # Empty /\ rule.bind # Empty /\ rule.targets # <<>>

\* Those of the first rules that are at certain places, by their number.
KeptUpTo(rules, places) ==
    LET kept[i \in 0..Len(rules)] ==
            CASE i = 0                        -> <<>>
              [] i # 0 /\ i \in places        -> Append(kept[i - 1], rules[i])
              [] i # 0 /\ i \notin places     -> kept[i - 1]
    IN kept

Kept(rules, places) == KeptUpTo(rules, places)[Len(rules)]

CompleteOnes(rules) == Kept(rules, {i \in DOMAIN rules : Complete(rules[i])})

\* What LoadFromJson and ParseRules find in a text, and whether they return.
Scanned(text) ==
    LET objects == ExtractObjectArray(text, "listeners")
    IN [workers |-> ExtractString(text, "worker_threads"),
        rules   |-> CompleteOnes([n \in DOMAIN objects |-> RuleOf(objects[n])]),
        ends    |-> \A n \in DOMAIN objects : ExtractStringArray(objects[n], "targets").ends]

\* Config::Config.
NoConfig == [workers |-> "0", rules |-> <<>>]

\* workerThreads_ keeps its value if the text does not give it.
Workers(config, scanned) ==
    CASE scanned.workers = Empty     -> config.workers
      [] scanned.workers \in Numeral -> scanned.workers
      [] OTHER                       -> "0"

\* Mutant: rules_ is not cleared.
LoadFromJsonAgain(config, scanned) ==
    [workers |-> Workers(config, scanned), rules |-> config.rules \o scanned.rules]

\* The members of config afterwards.
LoadFromJson(config, scanned) ==
    [workers |-> Workers(config, scanned), rules |-> scanned.rules]

-----------------------------------------------------------------------------
(***************************************************************************)
(* What a config.json says, by its syntax.  A document is a value for      *)
(* worker_threads and a sequence of listeners; a listener is a sequence of *)
(* fields <<key, value>>; a value is a string, a scalar or an array.       *)
(***************************************************************************)
Simple == [kind : {"string"}, of : Quoted] \cup [kind : {"scalar"}]
Value == Simple \cup [kind : {"array"}, of : Seq(Simple)]
Listener == Seq(Quoted \X Value)
Document == [workers : Value, listeners : Seq(Listener)]

\* Texts one after the other: the first ones, by their number.
JoinedUpTo(texts) ==
    LET joined[i \in 0..Len(texts)] == IF i = 0 THEN <<>> ELSE joined[i - 1] \o texts[i]
    IN joined

Joined(texts) == JoinedUpTo(texts)[Len(texts)]

\* All texts but the first have a comma before them.
Separated(texts) ==
    Joined([i \in DOMAIN texts |-> IF i = 1 THEN texts[i] ELSE <<"comma">> \o texts[i]])

SimpleToken(value) == IF value.kind = "string" THEN value.of ELSE Scalar

ValueText(value) ==
    IF value.kind # "array" THEN <<SimpleToken(value)>>
    ELSE <<"openBracket">> \o Separated([i \in DOMAIN value.of |-> <<SimpleToken(value.of[i])>>]) \o <<"closeBracket">>

FieldText(field) == <<field[1], "colon">> \o ValueText(field[2])

ObjectText(fields) ==
    <<"openBrace">> \o Separated([i \in DOMAIN fields |-> FieldText(fields[i])]) \o <<"closeBrace">>

Text(document) ==
    <<"openBrace", "worker_threads", "colon">> \o ValueText(document.workers)
        \o <<"comma", "listeners", "colon", "openBracket">>
        \o Separated([i \in DOMAIN document.listeners |-> ObjectText(document.listeners[i])])
        \o <<"closeBracket", "closeBrace">>

Field(fields, key) == {fields[i][2] : i \in {j \in DOMAIN fields : fields[j][1] = key}}

StringField(fields, key) ==
    LET f == {v \in Field(fields, key) : v.kind = "string"}
    IN IF f = {} THEN Empty ELSE (CHOOSE v \in f : TRUE).of

StringsField(fields, key) ==
    LET f == {v \in Field(fields, key) : v.kind = "array"}
        values == (CHOOSE v \in f : TRUE).of
    IN IF f = {} THEN <<>> ELSE [i \in DOMAIN values |-> values[i].of]

AskedRule(fields) ==
    [name    |-> StringField(fields, "name"),
     bind    |-> StringField(fields, "bind"),
     type    |-> ParseProxyType(StringField(fields, "type")),
     targets |-> StringsField(fields, "targets")]

\* The rules of the listeners at certain places of a document, in their order.
Listeners(document, places) ==
    Kept([i \in DOMAIN document.listeners |-> AskedRule(document.listeners[i])], places)

\* The listeners a document asks for, by README.md:114-125: they have a name and
\* an address, and targets are for TCP.
Asked(document) ==
    {i \in DOMAIN document.listeners :
        LET rule == AskedRule(document.listeners[i])
        IN /\ rule.name # Empty
           /\ rule.bind # Empty
           /\ rule.type = "TCP" => rule.targets # <<>>}

\* Those among them that ParseRules drops all the same.
Unserved(document) ==
    {i \in Asked(document) :
        LET rule == AskedRule(document.listeners[i])
        IN rule.type \in {"HTTP", "SOCKS5"} /\ rule.targets = <<>>}

\* The number of workers a document asks for, if it is in quotes; one that is no
\* number counts as 0, and without one the number stays.
AskedWorkers(document, workers) ==
    IF document.workers.kind = "scalar" \/ document.workers.of = Empty THEN workers
    ELSE IF document.workers.of \in Numeral THEN document.workers.of
    ELSE "0"

\* No key comes twice, no string is a key, and arrays hold strings.
PlainListener(fields) ==
    /\ \A i, j \in DOMAIN fields : fields[i][1] = fields[j][1] => i = j
    /\ \A i \in DOMAIN fields :
         LET value == fields[i][2]
         IN CASE value.kind = "string" -> value.of \notin RuleKey
              [] value.kind = "scalar" -> TRUE
              [] value.kind = "array"  -> \A k \in DOMAIN value.of :
                     value.of[k].kind = "string" /\ value.of[k].of \notin RuleKey

Plain(document) ==
    /\ document.workers.kind # "array"
    /\ \A i \in DOMAIN document.listeners : PlainListener(document.listeners[i])
=============================================================================
