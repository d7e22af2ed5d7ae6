------------------------------ MODULE MCProcess ------------------------------
EXTENDS Process, SequencesExt

Str(s) == [kind |-> "string", of |-> s]
Num == [kind |-> "scalar"]
Arr(values) == [kind |-> "array", of |-> values]

\* The strings of the documents below.
MCQuoted ==
    RuleKey \cup TopKey \cup Address \cup Numeral \cup Http \cup Socks5
        \cup {Empty, "a", "b", "c", "h", "tcp"}

Listens == Str("0.0.0.0:80")
Serves == Str("10.0.0.1:80")

\* Targets of a listener: none, no array, too few, good ones, and a scalar.
Targets == {{}} \cup {{<<"targets", v>>} : v \in {Arr(<<>>), Serves, Arr(<<Serves>>),
                Arr(<<Serves, Str("b:1")>>), Arr(<<Serves, Num>>), Arr(<<Str("name")>>)}}

\* A listener with these fields in every order.
OneListener ==
    UNION {SetToSeqs({<<"name", Str(n)>>, <<"bind", Listens>>} \cup t) :
            n \in {"a", Empty, "targets"}, t \in Targets}
    \cup SetToSeqs({<<"name", Str("type")>>, <<"bind", Listens>>, <<"type", Str("http")>>,
                    <<"targets", Arr(<<Serves>>)>>})
    \cup {<<<<"bind", Listens>>, <<"targets", Arr(<<Serves>>)>>>>, <<>>}

TypicalListener(name, type) ==
    <<<<"name", Str(name)>>, <<"bind", Listens>>, <<"type", Str(type)>>,
      <<"targets", Arr(<<Serves>>)>>>>

\* A TCP and an HTTP listener, and one without targets between them.
TwoListeners ==
    [workers |-> Str("4"),
     listeners |-> <<TypicalListener("a", "tcp"),
                     <<<<"name", Str("h")>>, <<"bind", Listens>>, <<"type", Str("http")>>>>,
                     TypicalListener("b", "HTTP")>>]

ThreeListeners ==
    [workers |-> Num,
     listeners |-> <<TypicalListener("a", "tcp"), TypicalListener("b", "SOCKS5"),
                     TypicalListener("c", Empty)>>]

Unreadable == [workers |-> Num, listeners |-> <<>>]

\* The document of main.cpp:164-185, and of README.md:90-112.
MCSample ==
    [workers |-> Num,
     listeners |-> <<TypicalListener("a", "tcp"),
                     <<<<"name", Str("h")>>, <<"bind", Listens>>, <<"type", Str("http")>>>>,
                     <<<<"name", Str("b")>>, <<"bind", Listens>>, <<"type", Str("socks5")>>>>>>]

MCDocuments ==
    {TwoListeners, ThreeListeners, Unreadable, Missing, MCSample}
        \cup {[workers |-> Num, listeners |-> <<l>>] : l \in OneListener}

MCEdits ==
    {Unreadable, Missing,
     [workers |-> Num, listeners |-> <<<<<<"targets", Arr(<<Num>>)>>>>>>],
     [workers |-> Num, listeners |-> <<TypicalListener("b", "SOCKS5")>>]}

MCMissing == [kind |-> "missing"]
=============================================================================
