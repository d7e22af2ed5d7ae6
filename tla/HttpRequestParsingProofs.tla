----------------------- MODULE HttpRequestParsingProofs -----------------------
(***************************************************************************)
(* What holds of the reading of a request for every request, wherever it   *)
(* is cut, and every size of the buffer.                                   *)
(***************************************************************************)
EXTENDS HttpRequestParsing, SequenceTheorems, FiniteSetTheorems, WellFoundedInduction, TLAPS

(***************************************************************************)
(* Positions in a text.                                                    *)
(***************************************************************************)

\* A set of numbers that is not empty has a least one: induction over the
\* natural numbers, stated with a set so that no operator is a parameter.
LEMMA LeastElement ==
    ASSUME NEW T, T \subseteq Nat, T # {}
    PROVE  \E x \in T : \A y \in T : x <= y
<1> DEFINE R == OpToRel(<, Nat)
<1>1. IsWellFoundedOn(R, Nat)
    BY NatLessThanWellFounded
<1> HIDE DEF R
<1>2. PICK x \in T : \A y \in T : ~ (<<y, x>> \in R)
    BY <1>1, WFMin
<1>3. \A y \in T : y < x => <<y, x>> \in R
    BY DEF R, OpToRel
<1>4. ASSUME NEW y \in T
      PROVE  x <= y
    <2>1. x \in Nat /\ y \in Nat
        OBVIOUS
    <2>2. ~ (y < x)
        BY <1>2, <1>3
    <2>. QED BY <2>1, <2>2
<1>. QED BY <1>4

\* Min is that number.
LEMMA MinIsLeast ==
    ASSUME NEW T, T \subseteq Nat, T # {}
    PROVE  /\ Min(T) \in T
           /\ \A y \in T : Min(T) <= y
BY LeastElement DEF Min

\* Where a line ends that begins at a given place.
LEMMA FirstLineEndIsFirst ==
    ASSUME NEW text \in Seq(Symbol), NEW from \in Nat \ {0}, LineEnds(text, from) # {}
    PROVE  /\ FirstLineEnd(text, from) \in Nat
           /\ from <= FirstLineEnd(text, from)
           /\ FirstLineEnd(text, from) <= Len(text) - 1
           /\ text[FirstLineEnd(text, from)] = "CR"
           /\ text[FirstLineEnd(text, from) + 1] = "LF"
           /\ \A i \in LineEnds(text, from) : FirstLineEnd(text, from) <= i
<1>1. Len(text) \in Nat
    BY LenProperties
<1>2. LineEnds(text, from) \subseteq Nat
    BY <1>1 DEF LineEnds
<1>3. /\ FirstLineEnd(text, from) \in LineEnds(text, from)
      /\ \A i \in LineEnds(text, from) : FirstLineEnd(text, from) <= i
    BY <1>2, MinIsLeast DEF FirstLineEnd
<1>. QED BY <1>1, <1>3 DEF LineEnds

\* A piece of a text is a text.
LEMMA PieceOfText ==
    ASSUME NEW text \in Seq(Symbol), NEW m \in Nat \ {0}, NEW n \in Nat, n <= Len(text)
    PROVE  /\ SubSeq(text, m, n) \in Seq(Symbol)
           /\ Len(SubSeq(text, m, n)) = IF m <= n THEN n - m + 1 ELSE 0
           /\ \A i \in 1..(n - m + 1) : SubSeq(text, m, n)[i] = text[m + i - 1]
<1>1. \A i \in m..n : text[i] \in Symbol
    BY LenProperties, ElementOfSeq
<1>. QED BY <1>1, SubSeqProperties

\* Two texts, one after the other.
LEMMA JoinOfTexts ==
    ASSUME NEW s \in Seq(Symbol), NEW t \in Seq(Symbol)
    PROVE  /\ s \o t \in Seq(Symbol) /\ Len(s \o t) = Len(s) + Len(t)
           /\ Len(s) \in Nat /\ Len(t) \in Nat
           /\ \A i \in 1..Len(s) : (s \o t)[i] = s[i]
           /\ \A i \in 1..Len(t) : (s \o t)[Len(s) + i] = t[i]
<1>1. /\ s \o t \in Seq(Symbol) /\ Len(s \o t) = Len(s) + Len(t)
      /\ Len(s) \in Nat /\ Len(t) \in Nat
    BY ConcatProperties, LenProperties
<1>2. ASSUME NEW i \in 1..Len(s)
      PROVE  (s \o t)[i] = s[i]
    BY <1>1, ConcatProperties
<1>3. ASSUME NEW i \in 1..Len(t)
      PROVE  (s \o t)[Len(s) + i] = t[i]
    <2>1. Len(s) + i \in 1..(Len(s) + Len(t)) /\ ~(Len(s) + i <= Len(s))
          /\ Len(s) + i - Len(s) = i
        BY <1>1
    <2>. QED BY <2>1, ConcatProperties
<1>. QED BY <1>1, <1>2, <1>3

(***************************************************************************)
(* The parser.                                                             *)
(***************************************************************************)

\* The fields of HttpRequest but rawData.
ParsedType ==
    [state : {"requestLine", "headers", "body", "complete", "err"},
     method : Symbol \cup {"none"}, uri : Symbol \cup {"none"}, headers : SUBSET Header]

\* A line of three words has a first and a second one.
LEMMA WordsOfLine ==
    ASSUME NEW line \in Seq(Symbol), Cardinality(WordsAt(line)) >= 3
    PROVE  LET method == Min(WordsAt(line))
               uri == Min(WordsAt(line) \ {method})
           IN  line[method] \in Symbol /\ line[uri] \in Symbol
<1> DEFINE W == WordsAt(line)
           m == Min(W)
           V == W \ {m}
<1>1. DOMAIN line = 1..Len(line) /\ Len(line) \in Nat
    BY LenProperties
<1>2. W \subseteq 1..Len(line) /\ W \subseteq Nat
    BY <1>1 DEF WordsAt
<1>3. IsFiniteSet(W)
    <2>1. IsFiniteSet(1..Len(line))
        BY <1>1, FS_Interval
    <2>. QED BY <1>2, <2>1, FS_Subset
<1>c. Cardinality(W) >= 3 /\ Cardinality(W) \in Nat
    BY <1>3, FS_CardinalityType
<1> HIDE DEF W
<1>4. W # {}
    <2>1. Cardinality(W) # 0
        BY <1>c
    <2>. QED BY <2>1, FS_EmptySet
<1>5. m \in W
    BY <1>2, <1>4, MinIsLeast
<1>6. Cardinality(V) = Cardinality(W) - 1
    BY <1>3, <1>5, FS_RemoveElement
<1>7. V # {}
    <2>1. Cardinality(V) # 0
        BY <1>c, <1>6
    <2>. QED BY <2>1, FS_EmptySet
<1>8. V \subseteq Nat
    BY <1>2
<1>9. Min(V) \in W
    BY <1>7, <1>8, MinIsLeast
<1>. QED BY <1>1, <1>2, <1>5, <1>9, ElementOfSeq DEF W

\* One line leaves the fields what they should be.
LEMMA ParseLineType ==
    ASSUME NEW r \in ParsedType, NEW line \in Seq(Symbol)
    PROVE  ParseLine(r, line) \in ParsedType
<1>1. CASE r.state = "requestLine"
    <2>1. ParseLine(r, line) = ParseRequestLine(r, line)
        BY <1>1 DEF ParseLine
    <2>2. ParseRequestLine(r, line) \in ParsedType
        BY WordsOfLine DEF ParseRequestLine, ParsedType
    <2>. QED BY <2>1, <2>2
<1>2. CASE r.state = "headers" /\ line # <<>>
    <2>1. ParseLine(r, line) = ParseHeader(r, line)
        BY <1>2 DEF ParseLine
    <2>2. ParseHeader(r, line) \in ParsedType
        BY DEF ParseHeader, ParsedType
    <2>. QED BY <2>1, <2>2
<1>3. CASE r.state = "headers" /\ line = <<>>
    <2>1. ParseLine(r, line) = EndOfHeaders(r)
        BY <1>3 DEF ParseLine
    <2>2. EndOfHeaders(r) \in ParsedType
        BY DEF EndOfHeaders, ParsedType
    <2>. QED BY <2>1, <2>2
<1>4. CASE r.state = "body"
    <2>1. ParseLine(r, line) = [r EXCEPT !.state = "complete"]
        BY <1>4 DEF ParseLine
    <2>. QED BY <1>4, <2>1 DEF ParsedType
<1>5. CASE r.state \in {"complete", "err"}
    BY <1>5 DEF ParseLine
<1>. QED BY <1>1, <1>2, <1>3, <1>4, <1>5 DEF ParsedType

\* The state of the parser after the first line is another one, and it does not
\* come back to it.
LEMMA ParseLineState ==
    ASSUME NEW r \in ParsedType, NEW line \in Seq(Symbol)
    PROVE  /\ ParseLine(r, line).state # "requestLine"
           /\ r.state = "requestLine" => \/ ParseLine(r, line).state = "err"
                                         \/ ParseLine(r, line).method \in Symbol
           /\ r.state = "err" => ParseLine(r, line).state = "err"
           /\ r.state # "requestLine" => /\ ParseLine(r, line).method = r.method
                                         /\ ParseLine(r, line).uri = r.uri
<1>1. CASE r.state = "requestLine"
    <2>1. ParseLine(r, line) = ParseRequestLine(r, line)
        BY <1>1 DEF ParseLine
    <2>2. /\ ParseRequestLine(r, line).state # "requestLine"
          /\ \/ ParseRequestLine(r, line).state = "err"
             \/ ParseRequestLine(r, line).method \in Symbol
        BY WordsOfLine DEF ParseRequestLine, ParsedType
    <2>. QED BY <1>1, <2>1, <2>2
<1>2. CASE r.state = "headers" /\ line # <<>>
    <2>1. ParseLine(r, line) = ParseHeader(r, line)
        BY <1>2 DEF ParseLine
    <2>. QED BY <1>2, <2>1 DEF ParseHeader, ParsedType
<1>3. CASE r.state = "headers" /\ line = <<>>
    <2>1. ParseLine(r, line) = EndOfHeaders(r)
        BY <1>3 DEF ParseLine
    <2>. QED BY <1>3, <2>1 DEF EndOfHeaders, ParsedType
<1>4. CASE r.state = "body"
    <2>1. ParseLine(r, line) = [r EXCEPT !.state = "complete"]
        BY <1>4 DEF ParseLine
    <2>. QED BY <1>4, <2>1 DEF ParsedType
<1>5. CASE r.state \in {"complete", "err"}
    BY <1>5 DEF ParseLine
<1>. QED BY <1>1, <1>2, <1>3, <1>4, <1>5 DEF ParsedType

(***************************************************************************)
(* The first line of a request as it should be, at the beginning of a      *)
(* text: it ends with the fourth symbol, and its words are the first       *)
(* three.                                                                  *)
(***************************************************************************)
FirstLineOf(text) ==
    /\ Len(text) >= 5
    /\ text[1] \in Method
    /\ text[2] \in Uri
    /\ text[3] = "version" /\ text[4] = "CR" /\ text[5] = "LF"

LEMMA FirstLineEndsAt4 ==
    ASSUME NEW text \in Seq(Symbol), FirstLineOf(text)
    PROVE  LineEnds(text, 1) # {} /\ FirstLineEnd(text, 1) = 4
<1>1. Len(text) \in Nat
    BY LenProperties
<1>2. 4 \in LineEnds(text, 1)
    BY <1>1 DEF LineEnds, FirstLineOf
<1> DEFINE f == FirstLineEnd(text, 1)
<1>3. /\ f \in Nat /\ 1 <= f /\ text[f] = "CR" /\ f <= 4
    BY <1>2, FirstLineEndIsFirst
<1>4. text[1] # "CR" /\ text[2] # "CR" /\ text[3] # "CR"
    BY DEF FirstLineOf, Method, Uri
<1> HIDE DEF f
<1>5. f = 1 \/ f = 2 \/ f = 3 \/ f = 4
    BY <1>3
<1>6. f = 4
    BY <1>3, <1>4, <1>5
<1>. QED BY <1>2, <1>6 DEF f

LEMMA FirstLineIsRead ==
    ASSUME NEW text \in Seq(Symbol), FirstLineOf(text),
           NEW r \in ParsedType, r.state = "requestLine"
    PROVE  ParseLine(r, SubSeq(text, 1, FirstLineEnd(text, 1) - 1))
             = [r EXCEPT !.method = text[1], !.uri = text[2], !.state = "headers"]
<1> DEFINE line == SubSeq(text, 1, 3)
           W == WordsAt(line)
<1>1. FirstLineEnd(text, 1) - 1 = 3
    BY FirstLineEndsAt4
<1>2. Len(text) \in Nat /\ Len(text) >= 5
    BY LenProperties DEF FirstLineOf
<1>3. /\ line \in Seq(Symbol) /\ Len(line) = 3
      /\ line[1] = text[1] /\ line[2] = text[2] /\ line[3] = "version"
    BY <1>2, PieceOfText DEF FirstLineOf
<1>4. DOMAIN line = 1..3
    BY <1>3, LenProperties
<1>5. line[1] \notin Blank /\ line[2] \notin Blank /\ line[3] \notin Blank
    BY <1>3 DEF FirstLineOf, Blank, Method, Uri
<1>6. W = 1..3
    BY <1>4, <1>5 DEF WordsAt
<1> HIDE DEF W
<1>7. Cardinality(W) = 3
    <2>1. \A a, b \in Int : a <= b => Cardinality(a..b) = b - a + 1
        BY FS_Interval
    <2>2. 1 \in Int /\ 3 \in Int /\ 1 <= 3 /\ 3 - 1 + 1 = 3
        OBVIOUS
    <2>3. Cardinality(1..3) = 3
        BY <2>1, <2>2
    <2>. QED BY <1>6, <2>3
<1>8. Min(W) = 1
    <2>1. W \subseteq Nat /\ W # {} /\ 1 \in W
        BY <1>6
    <2>2. Min(W) \in W /\ Min(W) <= 1
        BY <2>1, MinIsLeast
    <2>. QED BY <1>6, <2>2
<1>9. Min(W \ {1}) = 2
    <2>1. W \ {1} \subseteq Nat /\ W \ {1} # {} /\ 2 \in W \ {1}
        BY <1>6
    <2>2. Min(W \ {1}) \in W \ {1} /\ Min(W \ {1}) <= 2
        BY <2>1, MinIsLeast
    <2>. QED BY <1>6, <2>2
<1>10. ParseLine(r, line) = ParseRequestLine(r, line)
    BY DEF ParseLine
<1>11. ParseRequestLine(r, line)
         = [r EXCEPT !.method = line[Min(W)], !.uri = line[Min(W \ {Min(W)})],
                     !.state = "headers"]
    <2>1. Cardinality(WordsAt(line)) >= 3
        BY <1>7 DEF W
    <2>. QED BY <2>1 DEF ParseRequestLine, W
<1>. QED BY <1>1, <1>3, <1>8, <1>9, <1>10, <1>11

\* A line that begins after the end of another one begins two places after it.
LEMMA LineStartIs ==
    ASSUME NEW text \in Seq(Symbol), NEW i \in LineStarts(text)
    PROVE  /\ i \in Nat \ {0}
           /\ \/ i = 1
              \/ i - 2 \in LineEnds(text, 1) /\ i >= 3
<1>1. Len(text) \in Nat
    BY LenProperties
<1>2. CASE i = 1
    BY <1>2
<1>3. CASE i # 1
    <2>1. PICK k \in LineEnds(text, 1) : i = k + 2
        BY <1>3 DEF LineStarts
    <2>2. k \in Nat /\ k >= 1
        BY <1>1 DEF LineEnds
    <2>3. i - 2 = k /\ i \in Nat \ {0} /\ i >= 3
        BY <2>1, <2>2
    <2>. QED BY <2>1, <2>3
<1>. QED BY <1>2, <1>3

\* Where the head of a request as it should be ends.
LEMMA HeadEndIs ==
    ASSUME NEW req \in Seq(Symbol), WellFormed(req)
    PROVE  /\ EmptyLine(req, HeadEnd(req))
           /\ HeadEnd(req) \in LineStarts(req)
           /\ HeadEnd(req) \in Nat /\ HeadEnd(req) >= 6 /\ HeadEnd(req) <= Len(req) - 1
           /\ Len(req) \in Nat
           /\ req[HeadEnd(req)] = "CR" /\ req[HeadEnd(req) + 1] = "LF"
           /\ HeadEnd(req) - 2 \in LineEnds(req, 1)
<1>1. \E last \in LineStarts(req) : EmptyLine(req, last)
    BY DEF WellFormed
<1>2. EmptyLine(req, HeadEnd(req))
    BY <1>1 DEF HeadEnd
<1> DEFINE last == HeadEnd(req)
<1>3. last \in LineStarts(req) /\ last \in LineEnds(req, 6)
    BY <1>2 DEF EmptyLine
<1>4. Len(req) \in Nat
    BY LenProperties
<1> HIDE DEF last
<1>5. /\ last \in Nat /\ last >= 6 /\ last <= Len(req) - 1
      /\ req[last] = "CR" /\ req[last + 1] = "LF"
    BY <1>3, <1>4 DEF LineEnds
<1>6. last - 2 \in LineEnds(req, 1)
    BY <1>3, <1>5, LineStartIs
<1>. QED BY <1>2, <1>3, <1>4, <1>5, <1>6 DEF last

\* No line begins between the beginning of a line and its end.
LEMMA NextLineStart ==
    ASSUME NEW text \in Seq(Symbol), NEW p \in LineStarts(text), LineEnds(text, p) # {},
           NEW f, f = FirstLineEnd(text, p)
    PROVE  /\ p \in Nat \ {0} /\ f \in Nat /\ p <= f /\ f <= Len(text) - 1
           /\ f \in LineEnds(text, 1)
           /\ f + 2 \in LineStarts(text)
           /\ \A j \in LineStarts(text) : j < f + 2 => j <= p
<1>1. p \in Nat \ {0} /\ (p = 1 \/ (p - 2 \in LineEnds(text, 1) /\ p >= 3))
    BY LineStartIs
<1>2. /\ f \in Nat /\ p <= f /\ f <= Len(text) - 1 /\ text[f] = "CR" /\ text[f + 1] = "LF"
      /\ \A i \in LineEnds(text, p) : f <= i
    BY <1>1, FirstLineEndIsFirst
<1>3. Len(text) \in Nat
    BY LenProperties
<1>4. f \in LineEnds(text, 1)
    BY <1>1, <1>2, <1>3 DEF LineEnds
<1>5. f + 2 \in LineStarts(text)
    BY <1>4 DEF LineStarts
<1>6. ASSUME NEW j \in LineStarts(text), j < f + 2, ~(j <= p)
      PROVE  FALSE
    <2>1. j \in Nat /\ j # 1 /\ j - 2 \in LineEnds(text, 1)
        BY <1>1, <1>6, LineStartIs
    <2> DEFINE i == j - 2
    <2>2. i \in Nat /\ 1 <= i /\ i <= Len(text) - 1 /\ text[i] = "CR" /\ text[i + 1] = "LF"
        BY <1>3, <2>1 DEF LineEnds
    <2>3. i < f /\ i >= p - 1
        BY <1>1, <1>2, <1>6, <2>1
    <2> HIDE DEF i
    <2>4. CASE i >= p
        <3>1. i \in p..(Len(text) - 1)
            BY <1>1, <1>3, <2>2, <2>4
        <3>2. i \in LineEnds(text, p)
            BY <2>2, <3>1 DEF LineEnds
        <3>. QED BY <1>2, <2>2, <2>3, <3>2
    <2>5. CASE i < p
        <3>1. i = p - 1 /\ p # 1 /\ p - 2 + 1 = i
            BY <1>1, <2>2, <2>3, <2>5
        <3>2. text[p - 2 + 1] = "LF"
            BY <1>1, <3>1 DEF LineEnds
        <3>. QED BY <2>2, <3>1, <3>2
    <2>. QED BY <1>1, <2>2, <2>4, <2>5
<1>. QED BY <1>1, <1>2, <1>4, <1>5, <1>6

LEMMA HeadersBeforeIs ==
    ASSUME NEW text, NEW place,
           NEW S, S = LineStarts(text) \cap (2..(place - 1))
    PROVE  HeadersBefore(text, place) = {text[i] : i \in S} \cap Header
BY Zenon DEF HeadersBefore

\* The line adds its header to those of the lines before it.
LEMMA HeadersGrow ==
    ASSUME NEW text \in Seq(Symbol), NEW p \in LineStarts(text), LineEnds(text, p) # {},
           NEW f, f = FirstLineEnd(text, p)
    PROVE  /\ p = 1 => HeadersBefore(text, f + 2) = {}
           /\ p # 1 => HeadersBefore(text, f + 2)
                          = HeadersBefore(text, p) \cup ({text[p]} \cap Header)
<1> DEFINE next == f + 2
           A == LineStarts(text) \cap (2..(next - 1))
           B == LineStarts(text) \cap (2..(p - 1))
<1>1. /\ p \in Nat \ {0} /\ f \in Nat /\ p <= f
      /\ \A j \in LineStarts(text) : j < next => j <= p
    BY NextLineStart
<1>2. \A j \in LineStarts(text) : j \in Nat \ {0}
    BY LineStartIs
<1>3. p = 1 => A = {}
    BY <1>1
<1>4. p # 1 => A = B \cup {p}
    BY <1>1, <1>2
<1> HIDE DEF next
<1>5. /\ HeadersBefore(text, next) = {text[i] : i \in A} \cap Header
      /\ HeadersBefore(text, p) = {text[i] : i \in B} \cap Header
    BY HeadersBeforeIs, Zenon
<1> HIDE DEF A, B
<1>6. p = 1 => HeadersBefore(text, next) = {}
    BY <1>3, <1>5
<1>7. p # 1 => HeadersBefore(text, next) = HeadersBefore(text, p) \cup ({text[p]} \cap Header)
    BY <1>4, <1>5
<1>. QED BY <1>6, <1>7 DEF next

(***************************************************************************)
(* Type correctness.  A request is forwarded when its first line has been  *)
(* read, and only then has rawData the end of a line to cut at: that is    *)
(* what makes the type invariant inductive.                                *)
(***************************************************************************)
LineRead ==
    /\ parsed.state # "requestLine" => LineEnds(rawData, 1) # {}
    /\ parsed.state \notin {"requestLine", "err"} => parsed.method \in Symbol

Typed == TypeOK /\ LineRead

\* What is put at the end of a text leaves the ends of its lines.
LEMMA AppendKeepsLineEnds ==
    ASSUME NEW text \in Seq(Symbol), NEW more \in Seq(Symbol)
    PROVE  LineEnds(text, 1) \subseteq LineEnds(text \o more, 1)
BY LenProperties, ConcatProperties DEF LineEnds

LEMMA PairIsText ==
    ASSUME NEW a \in Symbol, NEW b \in Symbol
    PROVE  <<a, b>> \in Seq(Symbol) /\ Len(<<a, b>>) = 2
<1>1. <<a, b>> \in [1..2 -> Symbol]
    OBVIOUS
<1>2. [1..2 -> Symbol] \subseteq Seq(Symbol)
    BY SeqDef
<1>. QED BY <1>1, <1>2, LenProperties

LEMMA TripleIsText ==
    ASSUME NEW a \in Symbol, NEW b \in Symbol, NEW c \in Symbol
    PROVE  <<a, b, c>> \in Seq(Symbol) /\ Len(<<a, b, c>>) = 3
<1>1. <<a, b, c>> \in [1..3 -> Symbol]
    OBVIOUS
<1>2. [1..3 -> Symbol] \subseteq Seq(Symbol)
    BY SeqDef
<1>. QED BY <1>1, <1>2, LenProperties

\* What is sent on is text.
LEMMA ForwardDataType ==
    ASSUME NEW r \in ParsedType, NEW text \in Seq(Symbol), LineEnds(text, 1) # {},
           r.method \in Symbol
    PROVE  ForwardData(r, text) \in Seq(Symbol)
<1> DEFINE f == FirstLineEnd(text, 1)
           head == IF r.uri = "absolute" THEN <<r.method, "origin", "version">>
                    ELSE SubSeq(text, 1, f - 1)
<1>l. Len(text) \in Nat
    BY LenProperties
<1>1. f \in Nat /\ 1 <= f /\ f <= Len(text) - 1
    <2>1. 1 \in Nat \ {0}
        OBVIOUS
    <2>. QED BY <2>1, FirstLineEndIsFirst
<1> HIDE DEF f
<1>2. SubSeq(text, 1, f - 1) \in Seq(Symbol) /\ SubSeq(text, f, Len(text)) \in Seq(Symbol)
    <2>1. f - 1 \in Nat /\ f - 1 <= Len(text) /\ f \in Nat \ {0}
        BY <1>1, <1>l
    <2>2. SubSeq(text, 1, f - 1) \in Seq(Symbol)
        BY <2>1, PieceOfText
    <2>3. SubSeq(text, f, Len(text)) \in Seq(Symbol)
        BY <1>l, <2>1, PieceOfText
    <2>. QED BY <2>2, <2>3
<1>3. <<r.method, "origin", "version">> \in Seq(Symbol)
    <2>1. r.method \in Symbol /\ "origin" \in Symbol /\ "version" \in Symbol
        BY DEF ParsedType, Symbol, Uri
    <2>. QED BY <2>1, TripleIsText
<1>4. head \in Seq(Symbol)
    BY <1>2, <1>3
<1>5. ForwardData(r, text) = head \o SubSeq(text, f, Len(text))
    BY DEF ForwardData, f
<1>. QED BY <1>2, <1>4, <1>5, ConcatProperties

LEMMA RequestIsText ==
    ASSUME Typed
    PROVE  /\ request \in Seq(Symbol) /\ Len(request) \in Nat \ {0}
           /\ rawData \in Seq(Symbol) /\ Len(rawData) \in Nat
           /\ parsed \in ParsedType
           /\ forwarded \in Seq(Symbol) /\ Len(forwarded) \in Nat
           /\ taken \in Nat /\ taken <= Len(request)
           /\ bufferLen \in Nat /\ bufferLen <= taken /\ bufferLen <= Len(request)
BY RequestsAssumption, LenProperties, EmptySeq DEF Typed, TypeOK, ParsedType

LEMMA TypedInit == Init => Typed
<1> SUFFICES ASSUME Init PROVE Typed
    OBVIOUS
<1>1. request \in Seq(Symbol) /\ Len(request) \in Nat
    BY RequestsAssumption, LenProperties DEF Init
<1>2. <<>> \in Seq(Symbol) /\ Len(<<>>) = 0
    BY EmptySeq
<1>3. parsed \in ParsedType /\ parsed.state = "requestLine"
    BY DEF Init, ParsedType
<1>4. LineRead
    BY <1>3 DEF LineRead
<1>5. /\ first \in 0..Len(request) /\ taken \in 0..Len(request) /\ bufferLen \in 0..taken
      /\ pos \in 1..(Len(rawData) + 1)
    BY <1>1, <1>2 DEF Init
<1>. QED BY <1>2, <1>3, <1>4, <1>5 DEF Init, Typed, TypeOK, ParsedType

\* A segment is appended.
LEMMA TypedReceive ==
    ASSUME Typed, NEW n \in 1..Len(request), Receive(n)
    PROVE  Typed'
<1>1. /\ request \in Seq(Symbol) /\ Len(request) \in Nat
      /\ rawData \in Seq(Symbol) /\ parsed \in ParsedType
    BY RequestIsText
<1>2. /\ bufferLen' \in Nat /\ taken' \in Nat
      /\ bufferLen' <= taken' /\ taken' <= Len(request) /\ bufferLen' <= Len(request)
    <2>1. /\ bufferLen' = bufferLen + n /\ taken' = taken + n
          /\ n \in 1..(Len(request) - taken)
        BY DEF Receive, Segment
    <2>2. taken \in Nat /\ bufferLen \in Nat /\ bufferLen <= taken /\ taken <= Len(request)
        BY RequestIsText
    <2>. QED BY <1>1, <2>1, <2>2
<1>3. SubSeq(request, 1, bufferLen') \in Seq(Symbol)
    BY <1>1, <1>2, PieceOfText
<1>4. rawData' \in Seq(Symbol) /\ Len(rawData') \in Nat
    BY <1>1, <1>3, ConcatProperties, LenProperties DEF Receive
<1>5. LineEnds(rawData, 1) \subseteq LineEnds(rawData', 1)
    BY <1>1, <1>3, AppendKeepsLineEnds DEF Receive
<1>6. LineRead'
    BY <1>5 DEF Typed, LineRead, Receive
<1>7. first' \in 0..Len(request)
    BY <1>1 DEF Typed, TypeOK, Receive, Segment
<1>. QED BY <1>1, <1>2, <1>4, <1>6, <1>7 DEF Typed, TypeOK, Receive, Segment, sentVars

\* A line is read.
LEMMA TypedReadLine ==
    ASSUME Typed, ReadLine
    PROVE  Typed'
<1> DEFINE f == FirstLineEnd(rawData, pos)
<1>1. /\ rawData \in Seq(Symbol) /\ Len(rawData) \in Nat /\ parsed \in ParsedType
      /\ pos \in Nat \ {0}
    BY RequestIsText DEF Typed, TypeOK
<1>2. /\ f \in Nat /\ pos <= f /\ f <= Len(rawData) - 1
    BY <1>1, FirstLineEndIsFirst DEF ReadLine, MoreToParse
<1>3. SubSeq(rawData, pos, f - 1) \in Seq(Symbol)
    <2>1. f - 1 \in Nat /\ f - 1 <= Len(rawData)
        BY <1>1, <1>2
    <2>. QED BY <1>1, <2>1, PieceOfText
<1>4. parsed' = ParseLine(parsed, SubSeq(rawData, pos, f - 1)) /\ pos' = f + 2
    BY DEF ReadLine, AfterLine
<1>5. parsed' \in ParsedType
    BY <1>1, <1>3, <1>4, ParseLineType
<1>6. pos' \in 1..(Len(rawData') + 1)
    BY <1>1, <1>2, <1>4 DEF ReadLine
<1>7. LineEnds(rawData, pos) \subseteq LineEnds(rawData, 1)
    BY <1>1 DEF LineEnds
<1>8. LineRead'
    <2>1. LineEnds(rawData', 1) # {}
        BY <1>7 DEF ReadLine, MoreToParse
    <2>2. parsed'.state \notin {"requestLine", "err"} => parsed'.method \in Symbol
        BY <1>1, <1>3, <1>4, ParseLineState DEF Typed, LineRead
    <2>. QED BY <2>1, <2>2 DEF LineRead
<1>. QED BY <1>5, <1>6, <1>8 DEF Typed, TypeOK, ReadLine, ParsedType, sentVars

LEMMA TypedForward ==
    ASSUME Typed, ForwardRequest
    PROVE  Typed'
<1>1. rawData \in Seq(Symbol) /\ parsed \in ParsedType
    BY RequestIsText
<1> DEFINE data == ForwardData(parsed, rawData)
<1>2. data \in Seq(Symbol) /\ Len(data) \in Nat
    BY <1>1, ForwardDataType, LenProperties DEF Typed, LineRead, ForwardRequest
<1>3. forwarded' \in Seq(Symbol) /\ cut' \in BOOLEAN
    <2>1. CASE parsed.method = "CONNECT"
        BY <2>1 DEF ForwardRequest, sentVars, Typed, TypeOK
    <2>2. CASE parsed.method # "CONNECT"
        <3>1. PICK k \in 0..Len(data) : forwarded' = SubSeq(data, 1, k) /\ cut' = (k < Len(data))
            BY <2>2 DEF ForwardRequest
        <3>2. SubSeq(data, 1, k) \in Seq(Symbol)
            <4>1. k \in Nat /\ k <= Len(data) /\ 1 \in Nat \ {0}
                BY <1>2
            <4> HIDE DEF data
            <4>. QED BY <1>2, <4>1, PieceOfText
        <3>. QED BY <3>1, <3>2
    <2>. QED BY <2>1, <2>2
<1>. QED BY <1>3 DEF Typed, TypeOK, LineRead, ForwardRequest, Finish

LEMMA TypedRelay ==
    ASSUME Typed, NEW n \in 1..Len(request), Relay(n)
    PROVE  Typed'
<1>1. /\ request \in Seq(Symbol) /\ Len(request) \in Nat /\ forwarded \in Seq(Symbol)
    BY RequestIsText
<1>2. taken \in Nat /\ n \in Nat /\ n <= Len(request) - taken /\ taken' = taken + n
    BY <1>1, RequestIsText DEF Relay, Segment
<1>3. PICK k \in 0..n : /\ forwarded' = forwarded \o SubSeq(request, taken + 1, taken + k)
                        /\ cut' = (cut \/ k < n)
    BY DEF Relay
<1>4. forwarded' \in Seq(Symbol)
    <2>1. taken + 1 \in Nat \ {0} /\ taken + k \in Nat /\ taken + k <= Len(request)
        BY <1>1, <1>2
    <2>2. SubSeq(request, taken + 1, taken + k) \in Seq(Symbol)
        BY <1>1, <2>1, PieceOfText
    <2>. QED BY <1>1, <1>3, <2>2, ConcatProperties
<1>5. first' \in 0..Len(request)
    BY <1>1 DEF Typed, TypeOK, Relay, Segment
<1>6. taken' \in 0..Len(request) /\ bufferLen \in 0..taken'
    BY <1>1, <1>2, RequestIsText
<1>7. cut' \in BOOLEAN
    BY <1>3
<1>. QED BY <1>4, <1>5, <1>6, <1>7 DEF Typed, TypeOK, LineRead, Relay, Segment

LEMMA TypedNext == Typed /\ [Next]_vars => Typed'
<1> SUFFICES ASSUME Typed, [Next]_vars PROVE Typed'
    OBVIOUS
<1>1. ASSUME NEW n \in 1..Len(request), TooLarge(n)
      PROVE  Typed'
    <2>1. first' \in 0..Len(request)
        BY <1>1, RequestIsText DEF Typed, TypeOK, TooLarge, Segment
    <2>2. taken' \in 0..Len(request) /\ bufferLen \in 0..taken'
        BY <1>1, RequestIsText DEF TooLarge, Segment
    <2>. QED BY <1>1, <2>1, <2>2 DEF Typed, TypeOK, LineRead, TooLarge, Segment, sentVars
<1>2. ASSUME NEW n \in 1..Len(request), Receive(n)
      PROVE  Typed'
    BY <1>2, TypedReceive
<1>3. ASSUME NEW n \in 1..Len(request), Relay(n)
      PROVE  Typed'
    BY <1>3, TypedRelay
<1>4. CASE ReadLine
    BY <1>4, TypedReadLine
<1>5. CASE AwaitMore
    BY <1>5 DEF Typed, TypeOK, LineRead, AwaitMore, Finish, sentVars
<1>6. CASE RefuseRequest
    BY <1>6 DEF Typed, TypeOK, LineRead, RefuseRequest, Finish, sentVars
<1>7. CASE ConnectFails
    BY <1>7 DEF Typed, TypeOK, LineRead, ConnectFails, Finish, sentVars
<1>8. CASE ForwardRequest
    BY <1>8, TypedForward
<1>9. CASE UNCHANGED vars
    BY <1>9 DEF Typed, TypeOK, LineRead, vars
<1>10. CASE RegistrationFails
    BY <1>10 DEF Typed, TypeOK, LineRead, RegistrationFails, Finish, sentVars
<1>. QED BY <1>1, <1>2, <1>3, <1>4, <1>5, <1>6, <1>7, <1>8, <1>9, <1>10
         DEF Next, ProcessClientData, Parse

LEMMA TypedAlways == Spec => []Typed
BY TypedInit, TypedNext, PTL DEF Spec

\* The type invariant holds for every set of requests and every buffer.
THEOREM TypeCorrect == Spec => []TypeOK
<1>1. Typed => TypeOK
    BY DEF Typed
<1>. QED BY <1>1, TypedAlways, PTL

(***************************************************************************)
(* How long rawData may get.  While the request is being read, b symbols   *)
(* of clientBuffer have made it no longer than 1 + 2 + ... + b.            *)
(***************************************************************************)
Buffered ==
    /\ outcome \in {"reading", "parsing"} =>
          /\ bufferLen <= BufferSize - 1
          /\ 2 * Len(rawData) <= bufferLen * (bufferLen + 1)
    /\ RawDataBounded

LEMMA TriangleGrows ==
    ASSUME NEW b \in Nat, NEW n \in Nat \ {0}, NEW len \in Nat, NEW size \in Nat,
           2 * len <= b * (b + 1), b + n <= size - 1
    PROVE  /\ 2 * (len + (b + n)) <= (b + n) * (b + n + 1)
           /\ 2 * (len + (b + n)) <= (size - 1) * size
<1> DEFINE c == b + n
<1>1. c \in Nat /\ b <= c - 1 /\ c <= size - 1 /\ c + 1 <= size /\ c - 1 \in Nat
      /\ b + 1 <= c
    OBVIOUS
<1> HIDE DEF c
<1>2. \A u, v, x, y \in Nat : u <= x /\ v <= y => u * v <= x * y
    <2> TAKE u, v, x, y \in Nat
    <2> HAVE u <= x /\ v <= y
    <2>1. u * v <= x * v
        OBVIOUS
    <2>2. x * v <= x * y
        OBVIOUS
    <2>3. u * v \in Nat /\ x * v \in Nat /\ x * y \in Nat
        OBVIOUS
    <2>. QED BY <2>1, <2>2, <2>3
<1>3. b * (b + 1) <= (c - 1) * c
    BY <1>1, <1>2
<1>4. c * (c + 1) <= (size - 1) * size
    BY <1>1, <1>2
<1>5. (c - 1) * c + 2 * c = c * (c + 1)
    BY <1>1
<1>6. 2 * (len + c) <= c * (c + 1)
    <2>1. b * (b + 1) \in Nat /\ (c - 1) * c \in Nat /\ c * (c + 1) \in Nat
        BY <1>1
    <2>. QED BY <1>1, <1>3, <1>5, <2>1
<1>7. 2 * (len + c) <= (size - 1) * size
    <2>1. c * (c + 1) \in Nat /\ (size - 1) * size \in Int
        BY <1>1
    <2>. QED BY <1>1, <1>4, <1>6, <2>1
<1>. QED BY <1>6, <1>7 DEF c

LEMMA BufferedInit == Init => Buffered
<1> SUFFICES ASSUME Init PROVE Buffered
    OBVIOUS
<1>1. Len(rawData) = 0 /\ bufferLen = 0 /\ BufferSize \in Nat \ {0}
    BY EmptySeq, BufferSizeAssumption DEF Init
<1>2. (BufferSize - 1) * BufferSize \in Nat /\ BufferSize - 1 \in Nat
    BY <1>1
<1>. QED BY <1>1, <1>2 DEF Buffered, RawDataBounded

LEMMA BufferedReceive ==
    ASSUME Typed, Buffered, NEW n \in 1..Len(request), Receive(n)
    PROVE  Buffered'
<1>1. /\ request \in Seq(Symbol) /\ Len(request) \in Nat
      /\ rawData \in Seq(Symbol) /\ Len(rawData) \in Nat
    BY RequestIsText
<1>2. /\ bufferLen \in Nat /\ n \in Nat \ {0} /\ BufferSize \in Nat \ {0}
      /\ bufferLen' = bufferLen + n /\ bufferLen' <= Len(request)
    <2>1. bufferLen' = bufferLen + n /\ n \in 1..(Len(request) - taken)
        BY DEF Receive, Segment
    <2>2. bufferLen \in Nat /\ taken \in Nat /\ bufferLen <= taken
        BY RequestIsText
    <2>. QED BY <1>1, <2>1, <2>2, BufferSizeAssumption
<1>3. bufferLen + n <= BufferSize - 1 /\ 2 * Len(rawData) <= bufferLen * (bufferLen + 1)
    BY <1>2 DEF Buffered, Receive, Fits
<1>4. Len(rawData') = Len(rawData) + (bufferLen + n)
    <2>1. bufferLen' \in Nat /\ 1 <= bufferLen'
        BY <1>2
    <2>2. /\ SubSeq(request, 1, bufferLen') \in Seq(Symbol)
          /\ Len(SubSeq(request, 1, bufferLen')) = bufferLen'
        BY <1>1, <1>2, <2>1, PieceOfText
    <2>. QED BY <1>1, <1>2, <2>2, ConcatProperties DEF Receive
<1>5. /\ 2 * (Len(rawData) + (bufferLen + n)) <= (bufferLen + n) * (bufferLen + n + 1)
      /\ 2 * (Len(rawData) + (bufferLen + n)) <= (BufferSize - 1) * BufferSize
    BY <1>1, <1>2, <1>3, TriangleGrows
<1>. QED BY <1>2, <1>3, <1>4, <1>5 DEF Buffered, RawDataBounded

LEMMA BufferedNext == Typed /\ Buffered /\ [Next]_vars => Buffered'
<1> SUFFICES ASSUME Typed, Buffered, [Next]_vars PROVE Buffered'
    OBVIOUS
<1>1. ASSUME NEW n \in 1..Len(request), TooLarge(n)
      PROVE  Buffered'
    BY <1>1 DEF Buffered, RawDataBounded, TooLarge
<1>2. ASSUME NEW n \in 1..Len(request), Receive(n)
      PROVE  Buffered'
    BY <1>2, BufferedReceive
<1>3. ASSUME NEW n \in 1..Len(request), Relay(n)
      PROVE  Buffered'
    BY <1>3 DEF Buffered, RawDataBounded, Relay
<1>4. CASE ReadLine
    BY <1>4 DEF Buffered, RawDataBounded, ReadLine
<1>5. CASE AwaitMore
    BY <1>5 DEF Buffered, RawDataBounded, AwaitMore, Finish
<1>6. CASE RefuseRequest
    BY <1>6 DEF Buffered, RawDataBounded, RefuseRequest, Finish
<1>7. CASE ConnectFails
    BY <1>7 DEF Buffered, RawDataBounded, ConnectFails, Finish
<1>8. CASE ForwardRequest
    BY <1>8 DEF Buffered, RawDataBounded, ForwardRequest, Finish
<1>9. CASE UNCHANGED vars
    BY <1>9 DEF Buffered, RawDataBounded, vars
<1>10. CASE RegistrationFails
    BY <1>10 DEF Buffered, RawDataBounded, RegistrationFails, Finish
<1>. QED BY <1>1, <1>2, <1>3, <1>4, <1>5, <1>6, <1>7, <1>8, <1>9, <1>10
         DEF Next, ProcessClientData, Parse

\* rawData never gets longer than a full clientBuffer sent one symbol at a time
\* makes it.
THEOREM RawDataIsBounded == Spec => []RawDataBounded
<1>1. Buffered => RawDataBounded
    BY DEF Buffered
<1>. QED BY <1>1, TypedAlways, BufferedInit, BufferedNext, PTL DEF Spec

(***************************************************************************)
(* What has come.  As long as nothing has come nothing has been done, and  *)
(* the first segment is part of what has come.                             *)
(***************************************************************************)
Counted ==
    /\ first <= taken
    /\ first = 0 => taken = 0
    /\ outcome \in {"reading", "parsing"} => taken = bufferLen
    /\ taken = 0 => /\ rawData = <<>> /\ forwarded = <<>>
                    /\ parsed.state = "requestLine" /\ parsed.headers = {}
                    /\ outcome = "reading" /\ first = 0

LEMMA CountedInit == Init => Counted
BY DEF Init, Counted

LEMMA CountedNext == Typed /\ Counted /\ [Next]_vars => Counted'
<1> SUFFICES ASSUME Typed, Counted, [Next]_vars PROVE Counted'
    OBVIOUS
<1>1. /\ taken \in Nat /\ bufferLen \in Nat /\ first \in Nat /\ Len(request) \in Nat
    BY RequestIsText DEF Typed, TypeOK
<1>2. ASSUME NEW n \in 1..Len(request), Segment(n)
      PROVE  first' <= taken' /\ first' # 0 /\ taken' # 0 /\ taken' = taken + n
    BY <1>1, <1>2 DEF Counted, Segment
<1>3. ASSUME NEW n \in 1..Len(request), TooLarge(n)
      PROVE  Counted'
    BY <1>2, <1>3 DEF Counted, TooLarge
<1>4. ASSUME NEW n \in 1..Len(request), Receive(n)
      PROVE  Counted'
    <2>1. taken' = bufferLen'
        BY <1>2, <1>4 DEF Counted, Receive
    <2>. QED BY <1>2, <1>4, <2>1 DEF Counted, Receive
<1>5. ASSUME NEW n \in 1..Len(request), Relay(n)
      PROVE  Counted'
    BY <1>2, <1>5 DEF Counted, Relay
<1>6. CASE ReadLine
    BY <1>6 DEF Counted, ReadLine
<1>7. CASE AwaitMore
    BY <1>7 DEF Counted, AwaitMore, Finish
<1>8. CASE RefuseRequest
    BY <1>8 DEF Counted, RefuseRequest, Finish
<1>9. CASE ConnectFails
    BY <1>9 DEF Counted, ConnectFails, Finish
<1>10. CASE RegistrationFails
    BY <1>10 DEF Counted, RegistrationFails, Finish
<1>11. CASE ForwardRequest
    BY <1>11 DEF Counted, ForwardRequest, Finish
<1>12. CASE UNCHANGED vars
    BY <1>12 DEF Counted, vars
<1>. QED BY <1>3, <1>4, <1>5, <1>6, <1>7, <1>8, <1>9, <1>10, <1>11, <1>12
         DEF Next, ProcessClientData, Parse

LEMMA CountedAlways == Spec => [](Typed /\ Counted)
<1>1. Init => Typed /\ Counted
    BY TypedInit, CountedInit
<1>2. Typed /\ Counted /\ [Next]_vars => Typed' /\ Counted'
    BY TypedNext, CountedNext
<1>. QED BY <1>1, <1>2, PTL DEF Spec

(***************************************************************************)
(* A request that comes whole.  rawData is the request and nothing else:   *)
(* its lines are read one after the other, the headers of those that have  *)
(* been read are known, and the request is complete at its empty line or,  *)
(* if a body is announced, with the next line after that.                  *)
(***************************************************************************)
CameWhole ==
    /\ WellFormed(request) /\ AskedMethod # "CONNECT"
    /\ first = Len(request) /\ outcome # "tooLarge"

WholeRead ==
    /\ taken = Len(request)
    /\ rawData = request
    /\ parsed.state # "err"
    /\ parsed.state = "requestLine" =>
          outcome = "parsing" /\ pos = 1 /\ parsed.headers = {}
    /\ parsed.state # "requestLine" =>
          parsed.method = request[1] /\ parsed.uri = request[2]
    /\ parsed.state = "headers" =>
          /\ outcome = "parsing"
          /\ pos \in LineStarts(request) /\ 2 <= pos /\ pos <= HeadEnd(request)
          /\ parsed.headers = HeadersBefore(request, pos)
    /\ parsed.state \in {"body", "complete"} => parsed.headers = HeadersOf(request)
    /\ parsed.state = "body" => "length" \in HeadersOf(request) /\ pos = HeadEnd(request) + 2
    /\ parsed.state = "complete" => ~Held(request)
    /\ outcome = "reading" => parsed.state = "body" /\ Held(request)
    /\ outcome \notin {"reading", "parsing"} => parsed.state = "complete"
    /\ outcome = "badRequest" => ~HasTarget(parsed)
    /\ outcome = "connected" =>
          /\ forwarded = SubSeq(Rewritten(request), 1, Len(forwarded))
          /\ ~cut => forwarded = Rewritten(request)

Whole == CameWhole => WholeRead

LEMMA RewrittenIsForwarded ==
    ASSUME NEW r \in ParsedType, NEW req \in Seq(Symbol), FirstLineOf(req),
           r.method = req[1], r.uri = req[2]
    PROVE  ForwardData(r, req) = Rewritten(req)
<1>1. Len(req) \in Nat /\ Len(req) >= 5
    BY LenProperties DEF FirstLineOf
<1>2. FirstLineEnd(req, 1) = 4
    BY FirstLineEndsAt4
<1>3. req[1] \in Symbol
    BY DEF FirstLineOf, Symbol
<1>4. CASE r.uri = "absolute"
    <2> DEFINE three == <<req[1], "origin", "version">>
               two == <<req[1], "origin">>
               rest == SubSeq(req, 4, Len(req))
               tail == SubSeq(req, 3, Len(req))
    <2>1. /\ rest \in Seq(Symbol) /\ Len(rest) = Len(req) - 3
          /\ \A i \in 1..(Len(req) - 3) : rest[i] = req[i + 3]
        <3>1. 4 \in Nat \ {0} /\ 4 <= Len(req)
            BY <1>1
        <3>2. /\ rest \in Seq(Symbol) /\ Len(rest) = Len(req) - 4 + 1
              /\ \A i \in 1..(Len(req) - 4 + 1) : rest[i] = req[4 + i - 1]
            BY <1>1, <3>1, PieceOfText
        <3>3. Len(req) - 4 + 1 = Len(req) - 3
            BY <1>1
        <3>4. \A i \in 1..(Len(req) - 3) : 4 + i - 1 = i + 3
            BY <1>1
        <3>. QED BY <3>2, <3>3, <3>4
    <2>2. /\ tail \in Seq(Symbol) /\ Len(tail) = Len(req) - 2
          /\ \A i \in 1..(Len(req) - 2) : tail[i] = req[i + 2]
        <3>1. 3 \in Nat \ {0} /\ 3 <= Len(req)
            BY <1>1
        <3>2. /\ tail \in Seq(Symbol) /\ Len(tail) = Len(req) - 3 + 1
              /\ \A i \in 1..(Len(req) - 3 + 1) : tail[i] = req[3 + i - 1]
            BY <1>1, <3>1, PieceOfText
        <3>3. Len(req) - 3 + 1 = Len(req) - 2
            BY <1>1
        <3>4. \A i \in 1..(Len(req) - 2) : 3 + i - 1 = i + 2
            BY <1>1
        <3>. QED BY <3>2, <3>3, <3>4
    <2>3. three \in Seq(Symbol) /\ Len(three) = 3
        BY <1>3, TripleIsText DEF Symbol, Uri
    <2>4. two \in Seq(Symbol) /\ Len(two) = 2
        BY <1>3, PairIsText DEF Symbol, Uri
    <2>5. three[1] = req[1] /\ three[2] = "origin" /\ three[3] = "version"
        OBVIOUS
    <2>6. two[1] = req[1] /\ two[2] = "origin"
        OBVIOUS
    <2> HIDE DEF three, two, rest, tail
    <2>7. /\ three \o rest \in Seq(Symbol) /\ Len(three \o rest) = Len(req)
          /\ \A i \in 1..Len(req) : (three \o rest)[i] = IF i <= 3 THEN three[i] ELSE rest[i - 3]
        <3>1. Len(three) + Len(rest) = Len(req)
            BY <1>1, <2>1, <2>3
        <3>2. /\ three \o rest \in Seq(Symbol) /\ Len(three \o rest) = Len(three) + Len(rest)
              /\ \A i \in 1..Len(three) : (three \o rest)[i] = three[i]
              /\ \A i \in 1..Len(rest) : (three \o rest)[Len(three) + i] = rest[i]
            BY <2>1, <2>3, JoinOfTexts
        <3>3. ASSUME NEW i \in 1..Len(req), i > 3
              PROVE  (three \o rest)[i] = rest[i - 3]
            <4>1. i - 3 \in 1..Len(rest) /\ Len(three) + (i - 3) = i
                BY <1>1, <3>3, <2>1, <2>3
            <4>. QED BY <3>2, <4>1
        <3>4. ASSUME NEW i \in 1..Len(req), i <= 3
              PROVE  (three \o rest)[i] = three[i]
            BY <1>1, <3>2, <3>4, <2>3
        <3>. QED BY <1>1, <3>1, <3>2, <3>3, <3>4
    <2>8. /\ two \o tail \in Seq(Symbol) /\ Len(two \o tail) = Len(req)
          /\ \A i \in 1..Len(req) : (two \o tail)[i] = IF i <= 2 THEN two[i] ELSE tail[i - 2]
        <3>1. Len(two) + Len(tail) = Len(req)
            BY <1>1, <2>2, <2>4
        <3>2. /\ two \o tail \in Seq(Symbol) /\ Len(two \o tail) = Len(two) + Len(tail)
              /\ \A i \in 1..Len(two) : (two \o tail)[i] = two[i]
              /\ \A i \in 1..Len(tail) : (two \o tail)[Len(two) + i] = tail[i]
            BY <2>2, <2>4, JoinOfTexts
        <3>3. ASSUME NEW i \in 1..Len(req), i > 2
              PROVE  (two \o tail)[i] = tail[i - 2]
            <4>1. i - 2 \in 1..Len(tail) /\ Len(two) + (i - 2) = i
                BY <1>1, <3>3, <2>2, <2>4
            <4>. QED BY <3>2, <4>1
        <3>4. ASSUME NEW i \in 1..Len(req), i <= 2
              PROVE  (two \o tail)[i] = two[i]
            BY <1>1, <3>2, <3>4, <2>4
        <3>. QED BY <1>1, <3>1, <3>2, <3>3, <3>4
    <2>9. ASSUME NEW i \in 1..Len(req)
          PROVE  (three \o rest)[i] = (two \o tail)[i]
        <3>a. i = 1 \/ i = 2 \/ i = 3 \/ i > 3
            BY <1>1
        <3>b. CASE i = 1
            <4>1. (three \o rest)[i] = three[i] /\ (two \o tail)[i] = two[i]
                BY <2>7, <2>8, <3>b
            <4>. QED BY <4>1, <2>5, <2>6, <3>b
        <3>1. CASE i = 2
            <4>1. (three \o rest)[i] = three[i] /\ (two \o tail)[i] = two[i]
                BY <2>7, <2>8, <3>1
            <4>. QED BY <4>1, <2>5, <2>6, <3>1
        <3>2. CASE i = 3
            BY <1>1, <2>2, <2>5, <2>7, <2>8, <3>2 DEF FirstLineOf
        <3>3. CASE i > 3
            <4>1. (three \o rest)[i] = rest[i - 3] /\ i - 3 \in 1..(Len(req) - 3)
                BY <1>1, <2>7, <3>3
            <4>2. (two \o tail)[i] = tail[i - 2] /\ i - 2 \in 1..(Len(req) - 2)
                BY <1>1, <2>8, <3>3
            <4>3. (i - 3) + 3 = i /\ (i - 2) + 2 = i
                BY <1>1
            <4>4. rest[i - 3] = req[i]
                BY <2>1, <4>1, <4>3
            <4>5. tail[i - 2] = req[i]
                BY <2>2, <4>2, <4>3
            <4>. QED BY <4>1, <4>2, <4>4, <4>5
        <3>. QED BY <3>a, <3>b, <3>1, <3>2, <3>3
    <2>10. three \o rest = two \o tail
        BY <2>7, <2>8, <2>9, SeqEqual
    <2>11. ForwardData(r, req) = three \o rest
        BY <1>2, <1>4 DEF ForwardData, three, rest
    <2>12. Rewritten(req) = two \o tail
        BY <1>4 DEF Rewritten, two, tail
    <2>. QED BY <2>10, <2>11, <2>12
<1>5. CASE r.uri # "absolute"
    <2>1. ForwardData(r, req) = SubSeq(req, 1, 4 - 1) \o SubSeq(req, 4, Len(req))
        BY <1>2, <1>5 DEF ForwardData
    <2>2. SubSeq(req, 1, 3) \o SubSeq(req, 3 + 1, Len(req)) = SubSeq(req, 1, Len(req))
        <3>1. 1 \in 1..(Len(req) + 1) /\ 3 \in (1 - 1)..Len(req) /\ Len(req) \in 3..Len(req)
            BY <1>1
        <3>. QED BY <3>1, ConcatAdjacentSubSeq
    <2>3. SubSeq(req, 1, Len(req)) = req
        BY SubSeqFull
    <2>4. Rewritten(req) = req
        BY <1>5 DEF Rewritten
    <2>. QED BY <2>1, <2>2, <2>3, <2>4
<1>. QED BY <1>4, <1>5

LEMMA WellFormedFirstLine ==
    ASSUME NEW req, WellFormed(req)
    PROVE  FirstLineOf(req)
BY DEF WellFormed, FirstLineOf

\* Where the lines of such a request begin and end, for one that begins before
\* the empty line or with it.
LEMMA LineOfHead ==
    ASSUME NEW req \in Seq(Symbol), WellFormed(req),
           NEW p \in LineStarts(req), 2 <= p, p <= HeadEnd(req)
    PROVE  /\ LineEnds(req, p) # {}
           /\ p < HeadEnd(req) =>
                 /\ HasColon(req, p, FirstLineEnd(req, p))
                 /\ FirstLineEnd(req, p) + 2 <= HeadEnd(req)
           /\ p = HeadEnd(req) => FirstLineEnd(req, p) = p
<1> DEFINE f == FirstLineEnd(req, p)
           last == HeadEnd(req)
<1>1. Len(req) \in Nat /\ FirstLineOf(req)
    BY LenProperties, WellFormedFirstLine
<1>2. /\ EmptyLine(req, last) /\ last \in LineStarts(req)
      /\ last \in Nat /\ last <= Len(req) - 1 /\ req[last] = "CR" /\ req[last + 1] = "LF"
    BY HeadEndIs
<1>p. p <= last
    OBVIOUS
<1> HIDE DEF last
<1>3. p \in Nat \ {0} /\ p - 2 \in LineEnds(req, 1)
    BY LineStartIs
<1>4. last \in LineEnds(req, p)
    <2>1. last \in p..(Len(req) - 1)
        BY <1>1, <1>2, <1>3, <1>p
    <2>. QED BY <1>2, <2>1 DEF LineEnds
<1>5. /\ f \in Nat /\ p <= f /\ f <= Len(req) - 1 /\ f \in LineEnds(req, 1)
      /\ \A j \in LineStarts(req) : j < f + 2 => j <= p
    BY <1>4, NextLineStart
<1>6. f <= last
    BY <1>3, <1>4, FirstLineEndIsFirst
<1> HIDE DEF f
<1>7. p >= 6
    <2>1. 1 \in Nat \ {0} /\ LineEnds(req, 1) # {} /\ FirstLineEnd(req, 1) = 4
        BY <1>1, FirstLineEndsAt4
    <2>2. 4 <= p - 2
        BY <1>3, <2>1, FirstLineEndIsFirst
    <2>. QED BY <1>3, <2>2
<1>8. ASSUME p < last
      PROVE  HasColon(req, p, f) /\ f + 2 <= last
    <2>1. f \in LineEnds(req, 6)
        <3>1. f \in 6..(Len(req) - 1)
            BY <1>1, <1>3, <1>5, <1>7
        <3>. QED BY <1>5, <3>1 DEF LineEnds
    <2>2. 1 < p
        BY <1>3, <1>7
    <2>3. HasColon(req, p, f)
        BY <1>2, <1>5, <1>8, <2>1, <2>2 DEF EmptyLine
    <2>4. ~ (last < f + 2)
        BY <1>2, <1>3, <1>5, <1>8
    <2>. QED BY <1>2, <1>5, <2>3, <2>4
<1>9. p = last => f = p
    BY <1>2, <1>3, <1>5, <1>6
<1>. QED BY <1>4, <1>8, <1>9 DEF f, last

\* The first segment has come: it is the whole request.
LEMMA WholeReceive ==
    ASSUME Typed, Counted, Whole, CameWhole', NEW n \in 1..Len(request), Receive(n)
    PROVE  WholeRead'
<1>1. /\ request \in Seq(Symbol) /\ Len(request) \in Nat \ {0} /\ rawData \in Seq(Symbol)
      /\ taken \in Nat
    BY RequestIsText
<1>2. /\ request' = request /\ n \in 1..(Len(request) - taken)
      /\ first' = (IF first = 0 THEN n ELSE first) /\ taken' = taken + n
      /\ bufferLen' = bufferLen + n /\ outcome = "reading"
      /\ rawData' = rawData \o SubSeq(request, 1, bufferLen')
      /\ pos' = 1 /\ outcome' = "parsing" /\ parsed' = parsed
    BY DEF Receive, Segment
<1>3. WellFormed(request) /\ AskedMethod # "CONNECT" /\ first' = Len(request)
    BY <1>2 DEF CameWhole, AskedMethod
<1>4. first = 0
    <2>1. SUFFICES ASSUME first # 0 PROVE FALSE
        OBVIOUS
    <2>2. first = Len(request)
        BY <1>2, <1>3, <2>1
    <2>3. taken = Len(request)
        BY <1>2, <1>3, <2>2 DEF Whole, CameWhole, WholeRead
    <2>. QED BY <1>1, <1>2, <2>3
<1>5. /\ taken = 0 /\ bufferLen = 0 /\ n = Len(request) /\ rawData = <<>>
      /\ parsed.state = "requestLine" /\ parsed.headers = {}
    BY <1>2, <1>3, <1>4 DEF Counted
<1>6. taken' = Len(request) /\ bufferLen' = Len(request)
    BY <1>1, <1>2, <1>5
<1>7. rawData' = request
    BY <1>1, <1>2, <1>5, <1>6, SubSeqFull, ConcatEmptySeq
<1>. QED BY <1>2, <1>5, <1>6, <1>7 DEF WholeRead

\* A line is read.
LEMMA WholeReadLine ==
    ASSUME Typed, Whole, CameWhole', ReadLine
    PROVE  WholeRead'
<1> DEFINE f == FirstLineEnd(request, pos)
           line == SubSeq(request, pos, f - 1)
           last == HeadEnd(request)
<1>1. /\ request \in Seq(Symbol) /\ Len(request) \in Nat \ {0} /\ parsed \in ParsedType
      /\ pos \in Nat \ {0}
    BY RequestIsText DEF Typed, TypeOK
<1>2. /\ UNCHANGED <<request, taken, rawData, outcome>> /\ outcome = "parsing"
      /\ parsed.state \notin {"complete", "err"} /\ LineEnds(rawData, pos) # {}
      /\ WellFormed(request) /\ request[1] # "CONNECT" /\ CameWhole
    BY DEF ReadLine, MoreToParse, CameWhole, AskedMethod
<1>3. WholeRead
    BY <1>2 DEF Whole
<1>4. taken = Len(request) /\ rawData = request
    BY <1>3 DEF WholeRead
<1>5. LineEnds(request, pos) # {} /\ parsed' = ParseLine(parsed, line) /\ pos' = f + 2
    BY <1>2, <1>4 DEF ReadLine, AfterLine
<1>6. /\ f \in Nat /\ pos <= f /\ f <= Len(request) - 1 /\ f - 1 \in Nat /\ f - 1 <= Len(request)
    <2>1. f \in Nat /\ pos <= f /\ f <= Len(request) - 1
        BY <1>1, <1>5, FirstLineEndIsFirst
    <2> HIDE DEF f
    <2>. QED BY <1>1, <2>1
<1>7. /\ line \in Seq(Symbol)
      /\ Len(line) = IF pos <= f - 1 THEN f - 1 - pos + 1 ELSE 0
      /\ \A i \in 1..(f - 1 - pos + 1) : line[i] = request[pos + i - 1]
    BY <1>1, <1>6, PieceOfText
<1>8. FirstLineOf(request) /\ last \in Nat /\ last >= 6
    BY <1>1, <1>2, WellFormedFirstLine, HeadEndIs
<1>9. CASE parsed.state = "requestLine"
    <2>1. pos = 1 /\ parsed.headers = {}
        BY <1>3, <1>9 DEF WholeRead
    <2>2. f = 4 /\ pos' = 6
        BY <1>1, <1>5, <1>8, <2>1, FirstLineEndsAt4
    <2>3. parsed' = [parsed EXCEPT !.method = request[1], !.uri = request[2],
                                   !.state = "headers"]
        BY <1>1, <1>5, <1>8, <1>9, <2>1, FirstLineIsRead
    <2>4. /\ parsed'.method = request[1] /\ parsed'.uri = request[2]
          /\ parsed'.state = "headers" /\ parsed'.headers = {}
        BY <1>1, <2>1, <2>3 DEF ParsedType
    <2>5. 1 \in LineStarts(request)
        BY DEF LineStarts
    <2>6. 6 \in LineStarts(request) /\ HeadersBefore(request, 6) = {}
        <3>1. f + 2 \in LineStarts(request)
            BY <1>1, <1>5, <2>1, <2>5, NextLineStart
        <3>2. HeadersBefore(request, f + 2) = {}
            BY <1>1, <1>5, <2>1, <2>5, HeadersGrow
        <3>. QED BY <1>5, <2>2, <3>1, <3>2
    <2>. QED BY <1>2, <1>4, <1>8, <2>2, <2>4, <2>6 DEF WholeRead
<1>10. CASE parsed.state = "headers"
    <2>1. /\ pos \in LineStarts(request) /\ 2 <= pos /\ pos <= last /\ pos # 1
          /\ parsed.headers = HeadersBefore(request, pos)
          /\ parsed.method = request[1] /\ parsed.uri = request[2]
        BY <1>3, <1>10 DEF WholeRead
    <2>2. /\ pos < last => HasColon(request, pos, f) /\ f + 2 <= last
          /\ pos = last => f = pos
        BY <1>1, <1>2, <2>1, LineOfHead
    <2>3. /\ f + 2 \in LineStarts(request)
          /\ HeadersBefore(request, f + 2)
               = HeadersBefore(request, pos) \cup ({request[pos]} \cap Header)
        BY <1>1, <1>5, <2>1, NextLineStart, HeadersGrow
    <2> HIDE DEF f, line, last
    <2>4. CASE pos < last
        <3>1. PICK k \in pos..(f - 1) : request[k] \in Colon
            BY <2>2, <2>4 DEF HasColon
        <3>2. /\ k - pos + 1 \in 1..(f - 1 - pos + 1) /\ pos + (k - pos + 1) - 1 = k
              /\ pos <= f - 1 /\ 1 \in 1..(f - 1 - pos + 1) /\ f - 1 - pos + 1 \in Nat
              /\ pos + 1 - 1 = pos
            BY <1>1, <1>6
        <3>3. /\ Len(line) = f - 1 - pos + 1 /\ line[k - pos + 1] \in Colon
              /\ line[1] = request[pos]
            BY <1>7, <3>1, <3>2
        <3>4. DOMAIN line = 1..(f - 1 - pos + 1) /\ line # <<>>
            BY <1>7, <3>2, <3>3, LenProperties, EmptySeq
        <3>5. parsed' = ParseHeader(parsed, line)
            BY <1>5, <1>10, <3>4 DEF ParseLine
        <3>6. parsed' = [parsed EXCEPT !.headers = @ \cup ({line[1]} \cap Header)]
            BY <3>2, <3>3, <3>4, <3>5 DEF ParseHeader
        <3>7. /\ parsed'.state = "headers" /\ parsed'.method = parsed.method
              /\ parsed'.uri = parsed.uri
              /\ parsed'.headers = parsed.headers \cup ({request[pos]} \cap Header)
            BY <1>1, <1>10, <3>3, <3>6 DEF ParsedType
        <3>8. parsed'.headers = HeadersBefore(request, pos')
            BY <1>5, <2>1, <2>3, <3>7
        <3>9. pos' \in LineStarts(request) /\ pos' <= last /\ 2 <= pos'
            BY <1>1, <1>5, <1>6, <2>2, <2>3, <2>4
        <3>. QED BY <1>2, <1>4, <2>1, <3>7, <3>8, <3>9 DEF WholeRead, last
    <2>5. CASE pos = last
        <3>1. f = pos
            BY <2>2, <2>5
        <3>2. line = <<>>
            BY <1>1, <3>1, SubSeqEmpty DEF line
        <3>3. parsed' = EndOfHeaders(parsed)
            BY <1>5, <1>10, <3>2 DEF ParseLine
        <3>4. parsed.headers = HeadersOf(request) /\ parsed.method # "CONNECT"
            BY <1>2, <2>1, <2>5 DEF HeadersOf, last
        <3>5. /\ parsed'.state = IF "length" \in parsed.headers THEN "body" ELSE "complete"
              /\ parsed'.method = parsed.method /\ parsed'.uri = parsed.uri
              /\ parsed'.headers = parsed.headers
            BY <1>1, <3>3, <3>4 DEF EndOfHeaders, ParsedType
        <3>6. pos' = last + 2
            BY <1>5, <2>5, <3>1
        <3>7. "length" \notin parsed.headers => ~Held(request)
            BY <3>4 DEF Held
        <3>. QED BY <1>2, <1>4, <2>1, <3>4, <3>5, <3>6, <3>7 DEF WholeRead, last
    <2>. QED BY <1>1, <1>8, <2>1, <2>4, <2>5
<1>11. CASE parsed.state = "body"
    <2>1. /\ parsed.headers = HeadersOf(request) /\ pos = HeadEnd(request) + 2
          /\ parsed.method = request[1] /\ parsed.uri = request[2]
        BY <1>3, <1>11 DEF WholeRead
    <2>2. ~Held(request)
        BY <1>5, <2>1 DEF Held
    <2>3. parsed' = [parsed EXCEPT !.state = "complete"]
        BY <1>5, <1>11 DEF ParseLine
    <2>4. /\ parsed'.state = "complete" /\ parsed'.method = parsed.method
          /\ parsed'.uri = parsed.uri /\ parsed'.headers = parsed.headers
        BY <1>1, <2>3 DEF ParsedType
    <2>. QED BY <1>2, <1>4, <2>1, <2>2, <2>4 DEF WholeRead
<1>. QED BY <1>1, <1>2, <1>9, <1>10, <1>11 DEF ParsedType

\* There is no more line: a body is waited for.
LEMMA WholeAwaitMore ==
    ASSUME Typed, Whole, CameWhole', AwaitMore
    PROVE  WholeRead'
<1>1. /\ UNCHANGED <<request, taken, rawData, pos, parsed>>
      /\ outcome = "parsing" /\ outcome' = "reading"
      /\ parsed.state \notin {"complete", "err"} /\ LineEnds(rawData, pos) = {}
    BY DEF AwaitMore, Finish, MoreToParse
<1>2. CameWhole /\ WellFormed(request) /\ request \in Seq(Symbol) /\ parsed \in ParsedType
    BY <1>1, RequestIsText DEF CameWhole, AwaitMore, Finish, AskedMethod
<1>3. WholeRead
    BY <1>2 DEF Whole
<1>4. parsed.state # "requestLine"
    BY <1>1, <1>2, <1>3, WellFormedFirstLine, FirstLineEndsAt4 DEF WholeRead
<1>5. parsed.state # "headers"
    BY <1>1, <1>2, <1>3, LineOfHead DEF WholeRead
<1>6. parsed.state = "body"
    BY <1>1, <1>2, <1>4, <1>5 DEF ParsedType
<1>7. Held(request)
    BY <1>1, <1>3, <1>6 DEF WholeRead, Held
<1>. QED BY <1>1, <1>3, <1>6, <1>7 DEF WholeRead

\* The request is sent on, or its beginning.
LEMMA WholeForward ==
    ASSUME Typed, Whole, CameWhole', ForwardRequest
    PROVE  WholeRead'
<1>1. /\ UNCHANGED <<request, taken, rawData, pos, parsed>>
      /\ outcome = "parsing" /\ outcome' = "connected" /\ parsed.state = "complete"
    BY DEF ForwardRequest, Finish
<1>2. /\ CameWhole /\ WellFormed(request) /\ request \in Seq(Symbol) /\ parsed \in ParsedType
      /\ request[1] # "CONNECT"
    BY <1>1, RequestIsText DEF CameWhole, ForwardRequest, Finish, AskedMethod
<1>3. WholeRead
    BY <1>2 DEF Whole
<1>4. /\ rawData = request /\ parsed.method = request[1] /\ parsed.uri = request[2]
      /\ parsed.method # "CONNECT"
    BY <1>1, <1>2, <1>3 DEF WholeRead
<1> DEFINE data == ForwardData(parsed, rawData)
<1>5. data = Rewritten(request)
    BY <1>2, <1>4, RewrittenIsForwarded, WellFormedFirstLine
<1>6. PICK k \in 0..Len(data) : forwarded' = SubSeq(data, 1, k) /\ cut' = (k < Len(data))
    BY <1>4 DEF ForwardRequest
<1>7. data \in Seq(Symbol) /\ Len(data) \in Nat
    BY <1>1, <1>2, ForwardDataType, RequestIsText, LenProperties DEF Typed, LineRead
<1> HIDE DEF data
<1>8. Len(forwarded') = k
    <2>1. k \in Nat /\ k <= Len(data) /\ 1 \in Nat \ {0} /\ (1 <= k => k - 1 + 1 = k)
          /\ (~(1 <= k) => k = 0)
        BY <1>7
    <2>2. Len(SubSeq(data, 1, k)) = IF 1 <= k THEN k - 1 + 1 ELSE 0
        BY <1>7, <2>1, PieceOfText
    <2>. QED BY <1>6, <2>1, <2>2
<1>9. ~cut' => forwarded' = data
    <2>1. SUFFICES ASSUME ~cut' PROVE forwarded' = data
        OBVIOUS
    <2>2. ~(k < Len(data))
        BY <1>6, <2>1, Zenon
    <2>3. k = Len(data)
        BY <1>7, <2>2
    <2>. QED BY <1>6, <1>7, <2>3, SubSeqFull
<1>10. forwarded' = SubSeq(data, 1, Len(forwarded'))
    BY <1>6, <1>8
<1>. QED BY <1>1, <1>3, <1>5, <1>9, <1>10 DEF WholeRead

LEMMA WholeNext == Typed /\ Counted /\ Whole /\ [Next]_vars => Whole'
<1> SUFFICES ASSUME Typed, Counted, Whole, [Next]_vars, CameWhole'
             PROVE  WholeRead'
    BY DEF Whole
<1>1. Len(request) \in Nat /\ taken \in Nat /\ taken <= Len(request)
    BY RequestIsText
<1>2. ASSUME NEW n \in 1..Len(request), TooLarge(n)
      PROVE  WholeRead'
    BY <1>2 DEF TooLarge, CameWhole
<1>3. ASSUME NEW n \in 1..Len(request), Receive(n)
      PROVE  WholeRead'
    BY <1>3, WholeReceive
<1>4. ASSUME NEW n \in 1..Len(request), Relay(n)
      PROVE  WholeRead'
    <2>1. n \in 1..(Len(request) - taken) /\ outcome = "connected" /\ outcome' = outcome
          /\ request' = request /\ first' = (IF first = 0 THEN n ELSE first)
        BY <1>4 DEF Relay, Segment
    <2>2. first # 0
        BY <2>1 DEF Counted
    <2>3. CameWhole
        BY <2>1, <2>2 DEF CameWhole, AskedMethod
    <2>4. taken = Len(request)
        BY <2>3 DEF Whole, WholeRead
    <2>. QED BY <1>1, <2>1, <2>4
<1>5. CASE ReadLine
    BY <1>5, WholeReadLine
<1>6. CASE AwaitMore
    BY <1>6, WholeAwaitMore
<1>7. CASE RefuseRequest
    BY <1>7 DEF Whole, CameWhole, WholeRead, RefuseRequest, Finish, AskedMethod, HasTarget
<1>8. CASE ConnectFails
    BY <1>8 DEF Whole, CameWhole, WholeRead, ConnectFails, Finish, AskedMethod
<1>9. CASE RegistrationFails
    BY <1>9 DEF Whole, CameWhole, WholeRead, RegistrationFails, Finish, AskedMethod
<1>10. CASE ForwardRequest
    BY <1>10, WholeForward
<1>11. CASE UNCHANGED vars
    BY <1>11 DEF Whole, CameWhole, WholeRead, vars, AskedMethod, HasTarget
<1>. QED BY <1>2, <1>3, <1>4, <1>5, <1>6, <1>7, <1>8, <1>9, <1>10, <1>11
         DEF Next, ProcessClientData, Parse

\* A request in one segment that is not a CONNECT is held if a body without a
\* line end is announced, and refused only if it names no host; what is sent on
\* is the request, but for its URI, up to where send has taken it.
THEOREM WholeRequestIsForwarded == Spec => []WholeIsForwarded
<1>1. Init => Whole
    <2> SUFFICES ASSUME Init PROVE Whole
        OBVIOUS
    <2>1. Len(request) # 0
        BY RequestsAssumption, EmptySeq DEF Init
    <2>. QED BY <2>1 DEF Init, Whole, CameWhole
<1>2. Typed /\ Counted /\ Whole /\ [Next]_vars => Whole'
    BY WholeNext
<1>3. Typed /\ Whole => WholeIsForwarded
    <2> SUFFICES ASSUME Typed, Whole,
                        WellFormed(request), AskedMethod # "CONNECT", first = Len(request)
                 PROVE  /\ Held(request) => outcome \in {"parsing", "reading", "tooLarge"}
                        /\ ~Held(request) => outcome # "reading"
                        /\ outcome = "badRequest" =>
                             "host" \notin HeadersOf(request) /\ request[2] # "absolute"
                        /\ outcome = "connected" =>
                             /\ forwarded = SubSeq(Rewritten(request), 1, Len(forwarded))
                             /\ ~cut => forwarded = Rewritten(request)
        BY DEF WholeIsForwarded
    <2>1. CASE outcome = "tooLarge"
        BY <2>1
    <2>2. CASE outcome # "tooLarge"
        <3>1. WholeRead
            BY <2>2 DEF Whole, CameWhole
        <3>. QED BY <3>1 DEF WholeRead, HasTarget
    <2>. QED BY <2>1, <2>2
<1>. QED BY <1>1, <1>2, <1>3, CountedAlways, PTL DEF Spec

(***************************************************************************)
(* A CONNECT that comes in pieces.  What is read is the beginnings of the  *)
(* request, one longer than the other, one after the other.  No line       *)
(* before the empty one of the last of them is without a colon: it is a    *)
(* header, or it has the first line in it.                                 *)
(***************************************************************************)

\* A line that begins before a place has a colon.
ColonsUpTo(text, to) ==
    \A start \in LineStarts(text), end \in LineEnds(text, 1) :
        start < to /\ start <= end => HasColon(text, start, end)

\* A request that asks for a tunnel.
AsksTunnel(req) == req \in Seq(Symbol) /\ WellFormed(req) /\ req[1] = "CONNECT"

LEMMA HeadEndOfTunnel ==
    ASSUME NEW req, AsksTunnel(req)
    PROVE  /\ EmptyLine(req, HeadEnd(req))
           /\ HeadEnd(req) \in Nat /\ HeadEnd(req) >= 6 /\ HeadEnd(req) <= Len(req) - 1
           /\ Len(req) \in Nat
           /\ req[HeadEnd(req)] = "CR" /\ req[HeadEnd(req) + 1] = "LF"
           /\ HeadEnd(req) - 2 \in LineEnds(req, 1)
BY HeadEndIs DEF AsksTunnel

\* The symbols of the first line of such a request.
LEMMA FirstLineOfTunnel ==
    ASSUME NEW req, AsksTunnel(req)
    PROVE  /\ FirstLineOf(req)
           /\ req[1] = "CONNECT" /\ req[2] = "authority" /\ req[3] = "version"
           /\ req[4] = "CR" /\ req[5] = "LF"
           /\ req[2] \in Colon
BY WellFormedFirstLine DEF AsksTunnel, WellFormed, Colon

(***************************************************************************)
(* One more beginning of the request, after a text whose lines all have a  *)
(* colon.                                                                  *)
(***************************************************************************)
LEMMA PileUp ==
    ASSUME NEW req, AsksTunnel(req),
           NEW old \in Seq(Symbol), ColonsUpTo(old, Len(old)),
           NEW b \in Nat, 5 <= b, b <= Len(req)
    PROVE  ColonsUpTo(old \o SubSeq(req, 1, b), Len(old) + HeadEnd(req))
<1> DEFINE copy == SubSeq(req, 1, b)
           text == old \o copy
           s == Len(old)
           last == HeadEnd(req)
<1>1. req \in Seq(Symbol) /\ Len(req) \in Nat
    BY LenProperties DEF AsksTunnel
<1>2. /\ copy \in Seq(Symbol) /\ Len(copy) = b
      /\ \A i \in 1..b : copy[i] = req[i]
    <2>1. 1 \in Nat \ {0} /\ 1 <= b /\ b - 1 + 1 = b
        OBVIOUS
    <2>2. /\ copy \in Seq(Symbol) /\ Len(copy) = b - 1 + 1
          /\ \A i \in 1..(b - 1 + 1) : copy[i] = req[1 + i - 1]
        BY <1>1, <2>1, PieceOfText
    <2>3. \A i \in 1..b : 1 + i - 1 = i
        OBVIOUS
    <2>. QED BY <2>1, <2>2, <2>3
<1> HIDE DEF copy
<1>3. /\ text \in Seq(Symbol) /\ Len(text) = s + b /\ s \in Nat
      /\ \A i \in 1..s : text[i] = old[i]
      /\ \A i \in 1..b : text[s + i] = copy[i]
    BY <1>2, JoinOfTexts
<1>4. \A i \in 1..b : text[s + i] = req[i]
    BY <1>2, <1>3
<1>5. /\ text[s + 1] = "CONNECT" /\ text[s + 2] \in Colon /\ text[s + 3] = "version"
    <2>1. 1 \in 1..b /\ 2 \in 1..b /\ 3 \in 1..b
        OBVIOUS
    <2>. QED BY <1>4, <2>1, FirstLineOfTunnel
<1>6. /\ last \in Nat /\ last >= 6 /\ EmptyLine(req, last)
    BY HeadEndOfTunnel
<1> HIDE DEF text, s, last
<1> SUFFICES ASSUME NEW start \in LineStarts(text), NEW end \in LineEnds(text, 1),
                    start < s + last, start <= end
             PROVE  HasColon(text, start, end)
    BY DEF ColonsUpTo, text, s, last, copy
<1>7. /\ start \in Nat \ {0}
      /\ start = 1 \/ (start - 2 \in LineEnds(text, 1) /\ start >= 3)
    BY <1>3, LineStartIs
<1>8. /\ end \in Nat /\ 1 <= end /\ end <= s + b - 1
      /\ text[end] = "CR" /\ text[end + 1] = "LF"
    BY <1>3 DEF LineEnds
<1>9. start # 1 => text[start - 2] = "CR" /\ text[start - 1] = "LF" /\ start - 2 <= s + b - 1
    <2>1. SUFFICES ASSUME start # 1
                   PROVE  text[start - 2] = "CR" /\ text[start - 1] = "LF"
                          /\ start - 2 <= s + b - 1
        OBVIOUS
    <2>2. start - 2 \in LineEnds(text, 1) /\ start - 2 + 1 = start - 1
        BY <1>7, <2>1
    <2>. QED BY <1>3, <2>2 DEF LineEnds
<1>10. CASE end < s
    <2>1. end \in LineEnds(old, 1)
        <3>1. end \in 1..s /\ end + 1 \in 1..s /\ end \in 1..(s - 1)
            BY <1>3, <1>8, <1>10
        <3>2. old[end] = "CR" /\ old[end + 1] = "LF"
            BY <1>3, <1>8, <3>1
        <3>. QED BY <3>1, <3>2 DEF LineEnds, s
    <2>2. start \in LineStarts(old)
        <3>1. CASE start = 1
            BY <3>1 DEF LineStarts
        <3>2. CASE start # 1
            <4>1. /\ start - 2 \in 1..s /\ start - 1 \in 1..s /\ start - 2 \in 1..(s - 1)
                  /\ start - 2 + 1 = start - 1 /\ start - 2 + 2 = start
                BY <1>3, <1>7, <1>8, <1>10, <3>2
            <4>2. old[start - 2] = "CR" /\ old[start - 1] = "LF"
                BY <1>3, <1>9, <3>2, <4>1
            <4>3. start - 2 \in LineEnds(old, 1)
                BY <4>1, <4>2 DEF LineEnds, s
            <4>. QED BY <4>1, <4>3 DEF LineStarts
        <3>. QED BY <3>1, <3>2
    <2>3. start < s
        BY <1>3, <1>7, <1>8, <1>10
    <2>4. HasColon(old, start, end)
        BY <2>1, <2>2, <2>3 DEF ColonsUpTo, s
    <2>5. PICK k \in start..(end - 1) : old[k] \in Colon
        BY <2>4 DEF HasColon
    <2>6. k \in 1..s
        BY <1>3, <1>7, <1>8, <1>10
    <2>7. text[k] \in Colon
        BY <1>3, <2>5, <2>6
    <2>. QED BY <2>5, <2>7 DEF HasColon
<1>11. CASE end >= s
    <2>1. end # s
        BY <1>5, <1>8
    <2>2. end # s + 1 /\ end # s + 2 /\ end # s + 3
        <3>1. text[s + 2] # "CR"
            BY <1>5 DEF Colon, Header
        <3>. QED BY <1>5, <1>8, <3>1
    <2>3. end >= s + 4
        BY <1>3, <1>8, <1>11, <2>1, <2>2
    <2>4. CASE start <= s + 2
        <3>1. s + 2 \in start..(end - 1)
            BY <1>3, <1>7, <1>8, <2>3, <2>4
        <3>. QED BY <1>5, <3>1 DEF HasColon
    <2>5. CASE start > s + 2
        <3>1. start # 1
            BY <1>3, <2>5
        <3>2. start - 2 # s + 1 /\ start - 2 # s + 2 /\ start - 2 # s + 3
            <4>1. text[s + 2] # "CR"
                BY <1>5 DEF Colon, Header
            <4>. QED BY <1>5, <1>9, <3>1, <4>1
        <3>3. start - 2 >= s + 4
            BY <1>3, <1>7, <2>5, <3>2
        <3> DEFINE st == start - s
                   en == end - s
        <3>4. /\ st - 2 \in 1..b /\ st - 1 \in 1..b /\ en \in 1..b /\ en + 1 \in 1..b
              /\ st >= 6 /\ st <= en /\ st < last /\ en >= 6 /\ st - 2 >= 1
              /\ s + (st - 2) = start - 2 /\ s + (st - 1) = start - 1
              /\ s + en = end /\ s + (en + 1) = end + 1 /\ st - 2 + 2 = st
              /\ st - 2 + 1 = st - 1 /\ s + st = start
              /\ st \in Nat /\ en \in Nat /\ st <= Len(req) /\ en <= Len(req) - 1
              /\ st - 2 <= Len(req) - 1
            BY <1>1, <1>3, <1>6, <1>7, <1>8, <2>3, <3>3
        <3> HIDE DEF st, en
        <3>5. req[st - 2] = "CR" /\ req[st - 1] = "LF" /\ req[en] = "CR" /\ req[en + 1] = "LF"
            BY <1>4, <1>8, <1>9, <3>1, <3>4
        <3>6. st - 2 \in LineEnds(req, 1)
            BY <1>1, <3>4, <3>5 DEF LineEnds
        <3>7. st \in LineStarts(req)
            BY <3>4, <3>6 DEF LineStarts
        <3>8. en \in LineEnds(req, 6)
            BY <1>1, <3>4, <3>5 DEF LineEnds
        <3>9. 1 < st
            BY <3>4
        <3>10. HasColon(req, st, en)
            BY <1>6, <3>4, <3>7, <3>8, <3>9 DEF EmptyLine
        <3>11. PICK k \in st..(en - 1) : req[k] \in Colon
            BY <3>10 DEF HasColon
        <3>12. k \in 1..b /\ s + k \in start..(end - 1)
            BY <1>3, <1>7, <1>8, <3>4
        <3>13. text[s + k] \in Colon
            BY <1>4, <3>11, <3>12
        <3>. QED BY <3>12, <3>13 DEF HasColon
    <2>. QED BY <1>3, <1>7, <2>4, <2>5
<1>. QED BY <1>3, <1>8, <1>10, <1>11

(***************************************************************************)
(* What a text is that is read after such a request has come as far as b:  *)
(* it ends with a copy of the request up to there, and all that is before  *)
(* the empty line of that copy has colons.                                 *)
(***************************************************************************)
Piled(text, req, b) ==
    LET s == Len(text) - b IN
    /\ s >= 0
    /\ \A i \in 1..b : text[s + i] = req[i]
    /\ ColonsUpTo(text, s + HeadEnd(req))

\* The next line of such a text is a header, or it is the empty one.
LEMMA NextLineOfPile ==
    ASSUME NEW req, AsksTunnel(req), NEW text \in Seq(Symbol), NEW b \in Nat, b <= Len(req),
           Piled(text, req, b),
           NEW p \in LineStarts(text), p <= Len(text) - b + HeadEnd(req),
           LineEnds(text, p) # {},
           NEW r \in ParsedType, r.state = "headers", r.method = "CONNECT"
    PROVE  LET f == FirstLineEnd(text, p)
               next == ParseLine(r, SubSeq(text, p, f - 1))
           IN  /\ next.method = "CONNECT"
               /\ \/ next.state = "complete" /\ b > HeadEnd(req)
                  \/ /\ next.state = "headers"
                     /\ f + 2 \in LineStarts(text)
                     /\ f + 2 <= Len(text) - b + HeadEnd(req)
<1> DEFINE f == FirstLineEnd(text, p)
           line == SubSeq(text, p, f - 1)
           next == ParseLine(r, line)
           s == Len(text) - b
           last == HeadEnd(req)
<1>1. p \in Nat \ {0} /\ (p = 1 \/ (p - 2 \in LineEnds(text, 1) /\ p >= 3))
    BY LineStartIs
<1>2. Len(text) \in Nat /\ Len(req) \in Nat
    BY LenProperties DEF AsksTunnel
<1>3. /\ f \in Nat /\ p <= f /\ f <= Len(text) - 1 /\ text[f] = "CR" /\ text[f + 1] = "LF"
      /\ \A i \in LineEnds(text, p) : f <= i
    BY <1>1, FirstLineEndIsFirst
<1>4. /\ last \in Nat /\ last >= 6 /\ req[last] = "CR" /\ req[last + 1] = "LF"
      /\ last - 2 \in LineEnds(req, 1)
    BY HeadEndOfTunnel
<1>5. /\ s \in Nat /\ Len(text) = s + b
      /\ \A i \in 1..b : text[s + i] = req[i]
      /\ ColonsUpTo(text, s + last)
    BY <1>2 DEF Piled
<1>6. f - 1 \in Nat /\ f - 1 <= Len(text)
    BY <1>1, <1>2, <1>3
<1>7. /\ line \in Seq(Symbol)
      /\ Len(line) = IF p <= f - 1 THEN f - 1 - p + 1 ELSE 0
      /\ \A i \in 1..(f - 1 - p + 1) : line[i] = text[p + i - 1]
    BY <1>1, <1>6, PieceOfText
<1>8. p <= s + last
    OBVIOUS
<1> HIDE DEF f, line, s, last
<1>9. f \in LineEnds(text, 1)
    BY <1>1, <1>2, <1>3 DEF LineEnds
<1>10. CASE p < s + last
    <2>1. PICK k \in p..(f - 1) : text[k] \in Colon
        BY <1>3, <1>5, <1>9, <1>10 DEF ColonsUpTo, HasColon
    <2>2. /\ k - p + 1 \in 1..(f - 1 - p + 1) /\ p + (k - p + 1) - 1 = k /\ p <= f - 1
          /\ f - 1 - p + 1 >= 1 /\ f - 1 - p + 1 \in Nat
        BY <1>1, <1>3
    <2>3. line[k - p + 1] \in Colon
        BY <1>7, <2>1, <2>2
    <2>4. DOMAIN line = 1..(f - 1 - p + 1)
        BY <1>7, <2>2, LenProperties
    <2>5. line # <<>>
        BY <1>7, <2>2, EmptySeq
    <2>6. next = ParseHeader(r, line)
        BY <2>5 DEF ParseLine
    <2>7. next = [r EXCEPT !.headers = @ \cup ({line[1]} \cap Header)]
        BY <2>2, <2>3, <2>4, <2>6 DEF ParseHeader
    <2>8. next.state = "headers" /\ next.method = "CONNECT"
        BY <2>7 DEF ParsedType
    <2>9. f + 2 \in LineStarts(text)
        BY <1>9 DEF LineStarts
    <2>10. f + 2 <= s + last
        <3>1. CASE b < last - 1
            BY <1>2, <1>3, <1>4, <1>5, <3>1
        <3>2. CASE b >= last - 1
            <4> DEFINE e == last - 2
            <4>1. e \in Nat \ {0} /\ req[e] = "CR" /\ req[e + 1] = "LF" /\ e + 1 = last - 1
                <5>1. e + 1 = last - 1 /\ e \in Nat \ {0}
                    BY <1>4
                <5>. QED BY <1>4, <5>1 DEF LineEnds
            <4>2. e \in 1..b /\ e + 1 \in 1..b /\ s + (e + 1) = s + e + 1
                BY <1>4, <1>5, <3>2
            <4>3. text[s + e] = "CR" /\ text[s + e + 1] = "LF"
                BY <1>5, <4>1, <4>2
            <4>4. p # s + e + 1
                <5>1. SUFFICES ASSUME p = s + e + 1 PROVE FALSE
                    OBVIOUS
                <5>2. p # 1
                    BY <1>4, <1>5, <4>1, <5>1
                <5>3. text[p - 2 + 1] = "LF"
                    BY <1>1, <5>2 DEF LineEnds
                <5>4. p - 2 + 1 = s + e
                    BY <1>5, <4>1, <5>1
                <5>. QED BY <4>3, <5>3, <5>4
            <4>5. p <= s + e
                BY <1>1, <1>4, <1>5, <1>10, <4>1, <4>4
            <4>6. s + e \in LineEnds(text, p)
                <5>1. e \in Nat /\ b \in Nat /\ e + 1 <= b
                    BY <4>1, <4>2
                <5> HIDE DEF e
                <5>2. s + e \in Int /\ s + e <= Len(text) - 1
                    BY <1>5, <5>1
                <5>3. s + e \in p..(Len(text) - 1)
                    BY <1>1, <1>2, <4>5, <5>2
                <5>. QED BY <4>3, <5>3 DEF LineEnds
            <4>7. f <= s + e
                BY <1>3, <4>6
            <4>. QED BY <1>3, <1>4, <1>5, <4>7
        <3>. QED BY <1>4, <3>1, <3>2
    <2>. QED BY <2>8, <2>9, <2>10 DEF f, line, s, last
<1>11. CASE p = s + last
    <2>1. b >= last + 1
        BY <1>1, <1>2, <1>3, <1>4, <1>5, <1>11
    <2>2. last \in 1..b /\ last + 1 \in 1..b /\ s + (last + 1) = p + 1
        BY <1>4, <1>5, <1>11, <2>1
    <2>3. text[p] = "CR" /\ text[p + 1] = "LF"
        BY <1>4, <1>5, <1>11, <2>2
    <2>4. p \in LineEnds(text, p)
        <3>1. p \in p..(Len(text) - 1)
            BY <1>1, <1>2, <1>3
        <3>. QED BY <2>3, <3>1 DEF LineEnds
    <2>5. f = p
        BY <1>1, <1>3, <2>4
    <2>6. line = <<>>
        BY <1>1, <2>5, SubSeqEmpty DEF line
    <2>7. next = EndOfHeaders(r)
        BY <2>6 DEF ParseLine
    <2>8. next.state = "complete" /\ next.method = "CONNECT"
        BY <2>7 DEF EndOfHeaders, ParsedType
    <2>9. b > last
        BY <1>4, <2>1
    <2>. QED BY <2>8, <2>9 DEF f, line, last
<1>. QED BY <1>1, <1>4, <1>5, <1>8, <1>10, <1>11

\* When there is no more line, the empty one has not come, and all lines have
\* colons.
LEMMA EndOfPile ==
    ASSUME NEW req, AsksTunnel(req), NEW text \in Seq(Symbol), NEW b \in Nat, b <= Len(req),
           Piled(text, req, b),
           NEW p \in LineStarts(text), p <= Len(text) - b + HeadEnd(req),
           LineEnds(text, p) = {}
    PROVE  /\ b <= HeadEnd(req)
           /\ ColonsUpTo(text, Len(text))
<1> DEFINE s == Len(text) - b
           last == HeadEnd(req)
<1>1. p \in Nat \ {0}
    BY LineStartIs
<1>2. Len(text) \in Nat /\ Len(req) \in Nat
    BY LenProperties DEF AsksTunnel
<1>3. last \in Nat /\ last >= 6 /\ req[last] = "CR" /\ req[last + 1] = "LF"
    BY HeadEndOfTunnel
<1>4. /\ s \in Nat /\ Len(text) = s + b
      /\ \A i \in 1..b : text[s + i] = req[i]
      /\ ColonsUpTo(text, s + last)
    BY <1>2 DEF Piled
<1>5. p <= s + last
    OBVIOUS
<1> HIDE DEF s, last
<1>6. b <= last
    <2>1. SUFFICES ASSUME b > last PROVE FALSE
        BY <1>3
    <2>2. last \in 1..b /\ last + 1 \in 1..b /\ s + (last + 1) = s + last + 1
        BY <1>3, <1>4, <2>1
    <2>3. text[s + last] = "CR" /\ text[s + last + 1] = "LF"
        BY <1>3, <1>4, <2>2
    <2>4. s + last \in p..(Len(text) - 1)
        BY <1>1, <1>3, <1>4, <1>5, <2>1
    <2>5. s + last \in LineEnds(text, p)
        BY <2>3, <2>4 DEF LineEnds
    <2>. QED BY <2>5
<1>7. ASSUME NEW start \in LineStarts(text), NEW end \in LineEnds(text, 1),
             start < Len(text), start <= end
      PROVE  HasColon(text, start, end)
    <2>1. start < s + last
        <3>1. start \in Nat
            BY LineStartIs
        <3>2. end \in Nat /\ end <= Len(text) - 1
            BY <1>2 DEF LineEnds
        <3>. QED BY <1>3, <1>4, <1>6, <1>7, <3>1, <3>2
    <2>. QED BY <1>4, <1>7, <2>1 DEF ColonsUpTo
<1>. QED BY <1>6, <1>7 DEF ColonsUpTo, last

Tunnel ==
    WellFormed(request) /\ AskedMethod = "CONNECT" /\ first >= 5 /\ outcome # "tooLarge" =>
    /\ parsed.state \in {"requestLine", "headers", "complete"}
    /\ parsed.state = "requestLine" =>
          outcome = "parsing" /\ pos = 1 /\ rawData = SubSeq(request, 1, bufferLen)
    /\ parsed.state # "requestLine" => parsed.method = "CONNECT"
    /\ parsed.state = "complete" => bufferLen > HeadEnd(request)
    /\ parsed.state \in {"requestLine", "headers"} /\ outcome = "parsing" =>
          /\ Piled(rawData, request, bufferLen)
          /\ pos \in LineStarts(rawData)
          /\ pos <= Len(rawData) - bufferLen + HeadEnd(request)
    /\ outcome = "reading" =>
          /\ parsed.state = "headers"
          /\ bufferLen <= HeadEnd(request)
          /\ ColonsUpTo(rawData, Len(rawData))
    /\ outcome \in {"reading", "parsing", "badGateway", "closed", "connected"}
    /\ outcome = "connected" => parsed.state = "complete"
    /\ outcome \in {"reading", "parsing"} => forwarded = <<>>

\* What Tunnel says, and what it says it of.
LEMMA TunnelOf ==
    ASSUME Typed, Tunnel, WellFormed(request), AskedMethod = "CONNECT", first >= 5,
           outcome # "tooLarge"
    PROVE  /\ AsksTunnel(request)
           /\ parsed.state \in {"requestLine", "headers", "complete"}
           /\ parsed.state = "requestLine" =>
                 outcome = "parsing" /\ pos = 1 /\ rawData = SubSeq(request, 1, bufferLen)
           /\ parsed.state # "requestLine" => parsed.method = "CONNECT"
           /\ parsed.state = "complete" => bufferLen > HeadEnd(request)
           /\ parsed.state \in {"requestLine", "headers"} /\ outcome = "parsing" =>
                 /\ Piled(rawData, request, bufferLen)
                 /\ pos \in LineStarts(rawData)
                 /\ pos <= Len(rawData) - bufferLen + HeadEnd(request)
           /\ outcome = "reading" =>
                 /\ parsed.state = "headers"
                 /\ bufferLen <= HeadEnd(request)
                 /\ ColonsUpTo(rawData, Len(rawData))
           /\ outcome \in {"reading", "parsing", "badGateway", "closed", "connected"}
           /\ outcome = "connected" => parsed.state = "complete"
           /\ outcome \in {"reading", "parsing"} => forwarded = <<>>
BY RequestIsText DEF Tunnel, AsksTunnel, AskedMethod

\* A segment is put on the pile.
LEMMA ReceivePiles ==
    ASSUME Typed, Counted, AsksTunnel(request), NEW n \in 1..Len(request), Receive(n),
           bufferLen' >= 5,
           ColonsUpTo(rawData, Len(rawData))
    PROVE  /\ Piled(rawData', request, bufferLen')
           /\ pos' \in LineStarts(rawData')
           /\ pos' <= Len(rawData') - bufferLen' + HeadEnd(request)
<1> DEFINE b == bufferLen'
           copy == SubSeq(request, 1, b)
<1>1. /\ request \in Seq(Symbol) /\ Len(request) \in Nat
      /\ rawData \in Seq(Symbol) /\ Len(rawData) \in Nat
    BY RequestIsText
<1>2. b \in Nat /\ b <= Len(request) /\ 5 <= b
    BY RequestIsText DEF Receive, Segment, Counted
<1>3. rawData' = rawData \o copy /\ pos' = 1
    BY DEF Receive
<1> HIDE DEF b
<1>4. ColonsUpTo(rawData \o copy, Len(rawData) + HeadEnd(request))
    BY <1>1, <1>2, PileUp
<1>5. /\ copy \in Seq(Symbol) /\ Len(copy) = b
      /\ \A i \in 1..b : copy[i] = request[i]
    <2>1. 1 \in Nat \ {0} /\ 1 <= b /\ b - 1 + 1 = b
        BY <1>2
    <2>2. /\ copy \in Seq(Symbol) /\ Len(copy) = b - 1 + 1
          /\ \A i \in 1..(b - 1 + 1) : copy[i] = request[1 + i - 1]
        BY <1>1, <1>2, <2>1, PieceOfText
    <2>3. \A i \in 1..b : 1 + i - 1 = i
        BY <1>2
    <2>. QED BY <2>1, <2>2, <2>3
<1> HIDE DEF copy
<1>6. /\ Len(rawData') = Len(rawData) + b
      /\ \A i \in 1..b : rawData'[Len(rawData) + i] = request[i]
    BY <1>1, <1>3, <1>5, JoinOfTexts
<1>7. Len(rawData') - b = Len(rawData)
    BY <1>1, <1>2, <1>6
<1>8. Piled(rawData', request, b)
    <2>1. Len(rawData') - b >= 0
        BY <1>1, <1>7
    <2>2. \A i \in 1..b : rawData'[Len(rawData') - b + i] = request[i]
        BY <1>6, <1>7
    <2>3. ColonsUpTo(rawData', Len(rawData') - b + HeadEnd(request))
        BY <1>3, <1>4, <1>7
    <2>. QED BY <2>1, <2>2, <2>3 DEF Piled
<1>9. pos' \in LineStarts(rawData')
    BY <1>3 DEF LineStarts
<1>10. pos' <= Len(rawData') - b + HeadEnd(request)
    BY <1>1, <1>3, <1>7, HeadEndOfTunnel
<1>. QED BY <1>8, <1>9, <1>10 DEF b

LEMMA TunnelReceive ==
    ASSUME Typed, Counted, Tunnel, NEW n \in 1..Len(request), Receive(n)
    PROVE  Tunnel'
<1> SUFFICES ASSUME WellFormed(request), AskedMethod = "CONNECT", first' >= 5
             PROVE  /\ parsed.state \in {"requestLine", "headers"}
                    /\ parsed.state = "requestLine" => rawData' = SubSeq(request, 1, bufferLen')
                    /\ parsed.state # "requestLine" => parsed.method = "CONNECT"
                    /\ Piled(rawData', request, bufferLen')
                    /\ pos' \in LineStarts(rawData')
                    /\ pos' <= Len(rawData') - bufferLen' + HeadEnd(request)
                    /\ forwarded = <<>>
    BY DEF Tunnel, Receive, Segment, AskedMethod, sentVars
<1>1. AsksTunnel(request)
    BY RequestIsText DEF AsksTunnel, AskedMethod
<1>2. /\ request \in Seq(Symbol) /\ Len(request) \in Nat /\ rawData \in Seq(Symbol)
      /\ bufferLen \in Nat /\ first \in Nat /\ taken = bufferLen
    BY RequestIsText DEF Typed, TypeOK, Counted, Receive
<1>3. /\ bufferLen' = bufferLen + n /\ outcome = "reading"
      /\ n \in 1..(Len(request) - taken) /\ first' = IF first = 0 THEN n ELSE first
    BY DEF Receive, Segment
<1>4. CASE first = 0
    <2>1. bufferLen = 0 /\ rawData = <<>> /\ parsed.state = "requestLine" /\ forwarded = <<>>
        BY <1>2, <1>4 DEF Counted
    <2>2. bufferLen' >= 5
        BY <1>2, <1>3, <1>4, <2>1
    <2>3. ColonsUpTo(rawData, Len(rawData))
        <3>1. LineEnds(<<>>, 1) = {}
            BY EmptySeq DEF LineEnds
        <3>. QED BY <2>1, <3>1 DEF ColonsUpTo
    <2>4. rawData' = SubSeq(request, 1, bufferLen')
        <3>1. bufferLen' \in Nat /\ bufferLen' <= Len(request)
            BY <1>2, <1>3, <2>1
        <3>2. SubSeq(request, 1, bufferLen') \in Seq(Symbol)
            BY <1>2, <3>1, PieceOfText
        <3>. QED BY <2>1, <3>2, ConcatEmptySeq DEF Receive
    <2>. QED BY <1>1, <2>1, <2>2, <2>3, <2>4, ReceivePiles
<1>5. CASE first # 0
    <2>1. first >= 5
        BY <1>3, <1>5
    <2>2. /\ parsed.state = "headers" /\ ColonsUpTo(rawData, Len(rawData))
          /\ parsed.method = "CONNECT" /\ forwarded = <<>>
        BY <1>3, <2>1, TunnelOf
    <2>3. bufferLen' >= 5
        BY <1>2, <1>3, <2>1 DEF Counted
    <2>. QED BY <1>1, <2>2, <2>3, ReceivePiles
<1>. QED BY <1>4, <1>5

LEMMA TunnelReadLine ==
    ASSUME Typed, Counted, Tunnel, ReadLine
    PROVE  Tunnel'
<1> SUFFICES ASSUME WellFormed(request), AskedMethod = "CONNECT", first >= 5
             PROVE  /\ parsed'.state \in {"headers", "complete"}
                    /\ parsed'.method = "CONNECT"
                    /\ parsed'.state = "headers" =>
                          /\ Piled(rawData, request, bufferLen)
                          /\ pos' \in LineStarts(rawData)
                          /\ pos' <= Len(rawData) - bufferLen + HeadEnd(request)
                    /\ parsed'.state = "complete" => bufferLen > HeadEnd(request)
                    /\ forwarded = <<>>
    BY DEF Tunnel, ReadLine, AskedMethod, sentVars
<1>1. outcome = "parsing" /\ parsed.state \notin {"complete", "err"} /\ LineEnds(rawData, pos) # {}
    BY DEF ReadLine, MoreToParse
<1>2. /\ AsksTunnel(request) /\ parsed.state \in {"requestLine", "headers"}
      /\ parsed.state = "requestLine" => pos = 1 /\ rawData = SubSeq(request, 1, bufferLen)
      /\ parsed.state # "requestLine" => parsed.method = "CONNECT"
      /\ Piled(rawData, request, bufferLen)
      /\ pos \in LineStarts(rawData)
      /\ pos <= Len(rawData) - bufferLen + HeadEnd(request)
      /\ forwarded = <<>>
    BY <1>1, TunnelOf
<1>3. /\ request \in Seq(Symbol) /\ Len(request) \in Nat
      /\ rawData \in Seq(Symbol) /\ Len(rawData) \in Nat /\ parsed \in ParsedType
      /\ bufferLen \in Nat /\ bufferLen <= Len(request) /\ first \in Nat
    BY RequestIsText DEF Typed, TypeOK
<1> DEFINE f == FirstLineEnd(rawData, pos)
           line == SubSeq(rawData, pos, f - 1)
<1>4. parsed' = ParseLine(parsed, line) /\ pos' = f + 2
    BY DEF ReadLine, AfterLine
<1>5. CASE parsed.state = "headers"
    <2>1. /\ parsed'.method = "CONNECT"
          /\ \/ parsed'.state = "complete" /\ bufferLen > HeadEnd(request)
             \/ /\ parsed'.state = "headers"
                /\ f + 2 \in LineStarts(rawData)
                /\ f + 2 <= Len(rawData) - bufferLen + HeadEnd(request)
        BY <1>1, <1>2, <1>3, <1>4, <1>5, NextLineOfPile
    <2>. QED BY <1>2, <1>4, <2>1
<1>6. CASE parsed.state = "requestLine"
    <2>1. pos = 1 /\ rawData = SubSeq(request, 1, bufferLen)
        BY <1>2, <1>6
    <2>2. bufferLen >= 5
        BY <1>1, <1>3 DEF Counted
    <2>3. FirstLineOf(rawData) /\ rawData[1] = "CONNECT" /\ Len(rawData) = bufferLen
        <3>1. 1 \in Nat \ {0} /\ 1 <= bufferLen /\ bufferLen - 1 + 1 = bufferLen
            BY <1>3, <2>2
        <3>2. /\ Len(rawData) = bufferLen - 1 + 1
              /\ \A i \in 1..(bufferLen - 1 + 1) : rawData[i] = request[1 + i - 1]
            BY <1>3, <2>1, <3>1, PieceOfText
        <3>3. \A i \in 1..bufferLen : 1 + i - 1 = i
            BY <1>3
        <3>4. Len(rawData) = bufferLen /\ \A i \in 1..bufferLen : rawData[i] = request[i]
            BY <3>1, <3>2, <3>3
        <3>5. 1 \in 1..bufferLen /\ 2 \in 1..bufferLen /\ 3 \in 1..bufferLen
              /\ 4 \in 1..bufferLen /\ 5 \in 1..bufferLen
            BY <1>3, <2>2
        <3>6. FirstLineOf(request) /\ request[1] = "CONNECT"
            BY <1>2, FirstLineOfTunnel
        <3>7. /\ rawData[1] = request[1] /\ rawData[2] = request[2] /\ rawData[3] = request[3]
              /\ rawData[4] = request[4] /\ rawData[5] = request[5]
            BY <3>4, <3>5
        <3>. QED BY <2>2, <3>4, <3>6, <3>7 DEF FirstLineOf
    <2>4. f = 4 /\ LineEnds(rawData, 1) # {}
        BY <1>3, <2>1, <2>3, FirstLineEndsAt4
    <2>5. parsed' = [parsed EXCEPT !.method = rawData[1], !.uri = rawData[2], !.state = "headers"]
        BY <1>3, <1>4, <1>6, <2>1, <2>3, FirstLineIsRead
    <2>6. parsed'.state = "headers" /\ parsed'.method = "CONNECT"
        BY <1>3, <2>3, <2>5 DEF ParsedType
    <2>7. pos' = 6
        BY <1>4, <2>4
    <2>8. 6 \in LineStarts(rawData)
        <3>1. 4 \in LineEnds(rawData, 1)
            BY <1>3, <2>3 DEF LineEnds, FirstLineOf
        <3>2. 6 = 4 + 2
            OBVIOUS
        <3>. QED BY <3>1, <3>2 DEF LineStarts
    <2>9. 6 <= Len(rawData) - bufferLen + HeadEnd(request)
        BY <1>2, <1>3, <2>3, HeadEndOfTunnel
    <2>. QED BY <1>2, <2>6, <2>7, <2>8, <2>9
<1>. QED BY <1>2, <1>5, <1>6

LEMMA TunnelAwaitMore ==
    ASSUME Typed, Counted, Tunnel, AwaitMore
    PROVE  Tunnel'
<1> SUFFICES ASSUME WellFormed(request), AskedMethod = "CONNECT", first >= 5
             PROVE  /\ parsed.state = "headers"
                    /\ parsed.method = "CONNECT"
                    /\ bufferLen <= HeadEnd(request)
                    /\ ColonsUpTo(rawData, Len(rawData))
                    /\ forwarded = <<>>
    BY DEF Tunnel, AwaitMore, Finish, AskedMethod, sentVars
<1>1. outcome = "parsing" /\ parsed.state \notin {"complete", "err"} /\ LineEnds(rawData, pos) = {}
    BY DEF AwaitMore, Finish, MoreToParse
<1>2. /\ AsksTunnel(request) /\ parsed.state \in {"requestLine", "headers"}
      /\ parsed.state = "requestLine" => pos = 1 /\ rawData = SubSeq(request, 1, bufferLen)
      /\ parsed.state # "requestLine" => parsed.method = "CONNECT"
      /\ Piled(rawData, request, bufferLen)
      /\ pos \in LineStarts(rawData)
      /\ pos <= Len(rawData) - bufferLen + HeadEnd(request)
      /\ forwarded = <<>>
    BY <1>1, TunnelOf
<1>3. /\ rawData \in Seq(Symbol) /\ Len(rawData) \in Nat /\ Len(request) \in Nat
      /\ bufferLen \in Nat /\ bufferLen <= Len(request) /\ first \in Nat
    BY RequestIsText DEF Typed, TypeOK
<1>4. bufferLen <= HeadEnd(request) /\ ColonsUpTo(rawData, Len(rawData))
    BY <1>1, <1>2, <1>3, EndOfPile
<1>5. parsed.state # "requestLine"
    <2>1. SUFFICES ASSUME parsed.state = "requestLine" PROVE FALSE
        OBVIOUS
    <2>2. bufferLen >= 5 /\ pos = 1
        BY <1>1, <1>2, <1>3, <2>1 DEF Counted
    <2>3. /\ Len(rawData) - bufferLen >= 0
          /\ \A i \in 1..bufferLen : rawData[Len(rawData) - bufferLen + i] = request[i]
        BY <1>2 DEF Piled
    <2> DEFINE s == Len(rawData) - bufferLen
    <2>4. s \in Nat /\ Len(rawData) = s + bufferLen
        BY <1>3, <2>3
    <2> HIDE DEF s
    <2>5. 4 \in 1..bufferLen /\ 5 \in 1..bufferLen /\ s + 5 = s + 4 + 1
        BY <1>3, <2>2, <2>4
    <2>6. rawData[s + 4] = "CR" /\ rawData[s + 4 + 1] = "LF"
        BY <1>2, <2>3, <2>5, FirstLineOfTunnel DEF s
    <2>7. s + 4 \in 1..(Len(rawData) - 1)
        BY <1>3, <2>2, <2>4
    <2>8. s + 4 \in LineEnds(rawData, pos)
        BY <2>2, <2>6, <2>7 DEF LineEnds
    <2>. QED BY <1>1, <2>8
<1>. QED BY <1>2, <1>4, <1>5

LEMMA TunnelInit == Init => Tunnel
<1> SUFFICES ASSUME Init PROVE Tunnel
    OBVIOUS
<1>1. ~ (first >= 5)
    BY DEF Init
<1>. QED BY <1>1 DEF Tunnel

LEMMA TunnelNext == Typed /\ Counted /\ Tunnel /\ [Next]_vars => Tunnel'
<1> SUFFICES ASSUME Typed, Counted, Tunnel, [Next]_vars PROVE Tunnel'
    OBVIOUS
<1>1. ASSUME NEW n \in 1..Len(request), TooLarge(n)
      PROVE  Tunnel'
    BY <1>1 DEF Tunnel, TooLarge
<1>2. ASSUME NEW n \in 1..Len(request), Receive(n)
      PROVE  Tunnel'
    BY <1>2, TunnelReceive
<1>3. ASSUME NEW n \in 1..Len(request), Relay(n)
      PROVE  Tunnel'
    <2>1. first' = first
        BY <1>3 DEF Relay, Segment, Counted
    <2>. QED BY <1>3, <2>1 DEF Tunnel, Relay, Segment, AskedMethod
<1>4. CASE ReadLine
    BY <1>4, TunnelReadLine
<1>5. CASE AwaitMore
    BY <1>5, TunnelAwaitMore
<1>6. CASE RefuseRequest
    <2>1. WellFormed(request) /\ AskedMethod = "CONNECT" /\ first >= 5 => FALSE
        <3>1. SUFFICES ASSUME WellFormed(request), AskedMethod = "CONNECT", first >= 5
                       PROVE  FALSE
            OBVIOUS
        <3>2. /\ parsed.state \in {"requestLine", "headers", "complete"}
              /\ parsed.state # "requestLine" => parsed.method = "CONNECT"
            BY <1>6, <3>1, TunnelOf DEF RefuseRequest, Finish
        <3>. QED BY <1>6, <3>2 DEF RefuseRequest, HasTarget
    <2>. QED BY <1>6, <2>1 DEF Tunnel, RefuseRequest, Finish, AskedMethod
<1>7. CASE ConnectFails
    BY <1>7 DEF Tunnel, ConnectFails, Finish, AskedMethod
<1>10. CASE RegistrationFails
    BY <1>10 DEF Tunnel, RegistrationFails, Finish, AskedMethod
<1>8. CASE ForwardRequest
    BY <1>8 DEF Tunnel, ForwardRequest, Finish, AskedMethod
<1>9. CASE UNCHANGED vars
    BY <1>9 DEF Tunnel, vars, AskedMethod
<1>. QED BY <1>1, <1>2, <1>3, <1>4, <1>5, <1>6, <1>7, <1>8, <1>9, <1>10
         DEF Next, ProcessClientData, Parse

(***************************************************************************)
(* What goes through the tunnel: what came after the segment with the end  *)
(* of the head, as long as send takes all it is given.                     *)
(***************************************************************************)
Sent ==
    WellFormed(request) /\ AskedMethod = "CONNECT" /\ first >= 5
        /\ outcome = "connected" /\ ~cut =>
            forwarded = SubSeq(request, bufferLen + 1, taken)

LEMMA AdjacentPieces ==
    ASSUME NEW text \in Seq(Symbol), NEW b \in Nat, NEW t \in Nat, NEW u \in Nat,
           b <= t, t <= u, u <= Len(text)
    PROVE  SubSeq(text, b + 1, t) \o SubSeq(text, t + 1, u) = SubSeq(text, b + 1, u)
<1>1. Len(text) \in Nat
    BY LenProperties
<1> DEFINE m == b + 1
<1>2. m \in 1..(Len(text) + 1) /\ t \in (m - 1)..Len(text) /\ u \in t..Len(text)
    BY <1>1
<1> HIDE DEF m
<1>3. SubSeq(text, m, t) \o SubSeq(text, t + 1, u) = SubSeq(text, m, u)
    BY <1>2, ConcatAdjacentSubSeq
<1>. QED BY <1>3 DEF m

LEMMA SentRelay ==
    ASSUME Typed, Counted, Sent, NEW n \in 1..Len(request), Relay(n)
    PROVE  Sent'
<1> SUFFICES ASSUME WellFormed(request), AskedMethod = "CONNECT", first' >= 5, ~cut'
             PROVE  forwarded' = SubSeq(request, bufferLen + 1, taken')
    BY DEF Sent, Relay, Segment, AskedMethod
<1>1. /\ request \in Seq(Symbol) /\ Len(request) \in Nat
      /\ bufferLen \in Nat /\ taken \in Nat /\ bufferLen <= taken /\ taken <= Len(request)
    BY RequestIsText
<1>2. /\ n \in 1..(Len(request) - taken) /\ taken' = taken + n
      /\ first' = (IF first = 0 THEN n ELSE first) /\ outcome = "connected"
    BY DEF Relay, Segment
<1>3. PICK k \in 0..n : /\ forwarded' = forwarded \o SubSeq(request, taken + 1, taken + k)
                        /\ cut' = (cut \/ k < n)
    BY DEF Relay
<1>4. ~cut /\ k = n
    <2>1. ~cut /\ ~(k < n)
        BY <1>3, Zenon
    <2>. QED BY <1>1, <1>2, <2>1
<1>5. first >= 5
    BY <1>2 DEF Counted
<1>6. forwarded = SubSeq(request, bufferLen + 1, taken)
    BY <1>2, <1>4, <1>5 DEF Sent
<1>7. taken' \in Nat /\ taken <= taken' /\ taken' <= Len(request)
    BY <1>1, <1>2
<1>8. SubSeq(request, bufferLen + 1, taken) \o SubSeq(request, taken + 1, taken')
        = SubSeq(request, bufferLen + 1, taken')
    BY <1>1, <1>7, AdjacentPieces
<1>. QED BY <1>2, <1>3, <1>4, <1>6, <1>8

LEMMA SentNext == Typed /\ Counted /\ Tunnel /\ Sent /\ [Next]_vars => Sent'
<1> SUFFICES ASSUME Typed, Counted, Tunnel, Sent, [Next]_vars PROVE Sent'
    OBVIOUS
<1>1. ASSUME NEW n \in 1..Len(request), TooLarge(n)
      PROVE  Sent'
    BY <1>1 DEF Sent, TooLarge
<1>2. ASSUME NEW n \in 1..Len(request), Receive(n)
      PROVE  Sent'
    BY <1>2 DEF Sent, Receive
<1>3. ASSUME NEW n \in 1..Len(request), Relay(n)
      PROVE  Sent'
    BY <1>3, SentRelay
<1>4. CASE ReadLine
    BY <1>4 DEF Sent, ReadLine
<1>5. CASE AwaitMore
    BY <1>5 DEF Sent, AwaitMore, Finish
<1>6. CASE RefuseRequest
    BY <1>6 DEF Sent, RefuseRequest, Finish
<1>7. CASE ConnectFails
    BY <1>7 DEF Sent, ConnectFails, Finish
<1>8. CASE RegistrationFails
    BY <1>8 DEF Sent, RegistrationFails, Finish
<1>9. CASE ForwardRequest
    <2> SUFFICES ASSUME WellFormed(request'), AskedMethod' = "CONNECT", first' >= 5
                 PROVE  forwarded' = SubSeq(request', bufferLen' + 1, taken')
        BY DEF Sent
    <2>1. /\ UNCHANGED <<request, first, bufferLen, taken>>
          /\ outcome = "parsing" /\ parsed.state = "complete"
        BY <1>9 DEF ForwardRequest, Finish
    <2>2. /\ WellFormed(request) /\ AskedMethod = "CONNECT" /\ first >= 5
        BY <2>1 DEF AskedMethod
    <2>3. parsed.method = "CONNECT" /\ forwarded = <<>>
        BY <2>1, <2>2, TunnelOf
    <2>4. forwarded' = <<>>
        BY <1>9, <2>3 DEF ForwardRequest, sentVars
    <2>5. taken = bufferLen /\ bufferLen \in Nat
        BY <2>1, RequestIsText DEF Counted
    <2>6. SubSeq(request, bufferLen + 1, bufferLen) = <<>>
        <3>1. bufferLen + 1 \in Int /\ bufferLen \in Int /\ bufferLen < bufferLen + 1
            BY <2>5
        <3>. QED BY <3>1, SubSeqEmpty
    <2>. QED BY <2>1, <2>4, <2>5, <2>6
<1>10. CASE UNCHANGED vars
    BY <1>10 DEF Sent, vars, AskedMethod
<1>. QED BY <1>1, <1>2, <1>3, <1>4, <1>5, <1>6, <1>7, <1>8, <1>9, <1>10
         DEF Next, ProcessClientData, Parse

\* A CONNECT whose first line came in one segment is not refused as a bad request
\* or left waiting, however the rest of it is cut; the tunnel opens behind the
\* head, and while send takes all it is given nothing that comes later is lost.
THEOREM TunnelAlwaysOpens == Spec => []TunnelOpens
<1>1. Init => Sent
    BY DEF Init, Sent
<1>2. Typed /\ Counted /\ Tunnel /\ [Next]_vars => Tunnel'
    BY TunnelNext
<1>3. Typed /\ Counted /\ Tunnel /\ Sent /\ [Next]_vars => Sent'
    BY SentNext
<1>4. Typed /\ Counted /\ Tunnel /\ Sent => TunnelOpens
    <2> SUFFICES ASSUME Typed, Counted, Tunnel, Sent,
                        WellFormed(request), AskedMethod = "CONNECT", FirstLineWhole
                 PROVE  /\ outcome # "badRequest"
                        /\ taken = Len(request) => outcome # "reading"
                        /\ outcome = "connected" => bufferLen > HeadEnd(request)
                        /\ outcome = "connected" /\ ~cut =>
                              forwarded = SubSeq(request, bufferLen + 1, taken)
        BY DEF TunnelOpens
    <2>1. AsksTunnel(request) /\ first \in Nat /\ bufferLen \in Nat
        BY RequestIsText DEF AsksTunnel, AskedMethod, Typed, TypeOK
    <2>2. first >= 5
        <3>1. FirstLineEnd(request, 1) = 4
            BY <2>1, FirstLineOfTunnel, FirstLineEndsAt4 DEF AsksTunnel
        <3>. QED BY <2>1, <3>1 DEF FirstLineWhole
    <2>3. outcome # "tooLarge" => outcome # "badRequest"
        BY <2>2, TunnelOf
    <2>4. outcome = "reading" => taken # Len(request)
        <3>1. outcome = "reading" => taken = bufferLen
            BY DEF Counted
        <3>. QED BY <2>1, <2>2, <3>1, TunnelOf, HeadEndOfTunnel
    <2>5. outcome = "connected" => bufferLen > HeadEnd(request)
        BY <2>2, TunnelOf
    <2>. QED BY <2>2, <2>3, <2>4, <2>5 DEF Sent
<1>. QED BY <1>1, <1>2, <1>3, <1>4, TunnelInit, CountedAlways, PTL DEF Spec
====
