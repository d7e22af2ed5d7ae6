-------------------------- MODULE HttpRequestParsing --------------------------
(***************************************************************************)
(* How an HTTP proxy reads a request from the segments in which TCP hands  *)
(* it over: ProcessClientData of http_proxy.cpp and the functions it       *)
(* calls, as the interface IForwarderCallback has it, OnClientData being   *)
(* called with each segment in turn.                                       *)
(*                                                                         *)
(* Each call appends the segment to clientBuffer and then the whole of     *)
(* clientBuffer to request.rawData, which it reads line by line from the   *)
(* beginning, in the state the previous call ended in.  A step is one      *)
(* iteration of that loop, or what comes before or after it.               *)
(*                                                                         *)
(* Text is a sequence of symbols: a word of the request line with the      *)
(* blank after it, a header ("length" is a Content-Length above 0), a      *)
(* piece of a body, CR, LF.  A segment may end after any of them; the cuts *)
(* inside a word are left out.  config.cpp keeps no rule without targets,  *)
(* so the server is always the first one of the rule, and ExtractTarget    *)
(* matters only when it fails.                                             *)
(***************************************************************************)
EXTENDS Naturals, Sequences, FiniteSetsExt

CONSTANTS
    Requests,    \* the requests a client may send
    BufferSize   \* of clientBuffer, in symbols

Method == {"GET", "POST", "CONNECT"}
Uri == {"absolute", "authority", "origin"}
Header == {"host", "length"}
Blank == {"CR", "LF"}
Symbol == Method \cup Uri \cup Header \cup {"version", "text"} \cup Blank

\* "http://host/path", "host:port" and every header have a colon in them.
Colon == {"absolute", "authority"} \cup Header

ASSUME RequestsAssumption == Requests \subseteq Seq(Symbol) \ {<<>>}
ASSUME BufferSizeAssumption == BufferSize \in Nat \ {0}

VARIABLES
    request,    \* what the client sends
    first,      \* the length of the first segment
    taken,      \* how much of the request the segments so far have brought
    bufferLen,  \* clientBufferLen: clientBuffer is the request up to there
    rawData,
    pos,        \* where the next line of rawData begins
    parsed,     \* the other fields of HttpRequest
    outcome,    \* what the connection is at, or what has become of it
    forwarded,  \* what was sent to the server
    cut         \* has send taken less than it was given?

vars == <<request, first, taken, bufferLen, rawData, pos, parsed, outcome, forwarded, cut>>

sentVars == <<forwarded, cut>>

Init ==
    /\ request \in Requests
    /\ first = 0
    /\ taken = 0
    /\ bufferLen = 0
    /\ rawData = <<>>
    /\ pos = 1
    /\ parsed = [state |-> "requestLine", method |-> "none", uri |-> "none", headers |-> {}]
    /\ outcome = "reading"
    /\ forwarded = <<>>
    /\ cut = FALSE

-----------------------------------------------------------------------------
\* Where CR LF is found at or after a position, and the first such place.
LineEnds(text, from) ==
    {i \in from..(Len(text) - 1) : text[i] = "CR" /\ text[i + 1] = "LF"}

FirstLineEnd(text, from) == Min(LineEnds(text, from))

\* A CR or LF inside a line is a blank.
WordsAt(line) == {i \in DOMAIN line : line[i] \notin Blank}

ParseRequestLine(r, line) ==
    LET method == Min(WordsAt(line))
        uri == Min(WordsAt(line) \ {method})
    IN  IF Cardinality(WordsAt(line)) >= 3
        THEN [r EXCEPT !.method = line[method], !.uri = line[uri], !.state = "headers"]
        ELSE [r EXCEPT !.state = "err"]

\* Mutant: the name is the word the line begins with, whatever it is.
ParseHeaderAny(r, line) == [r EXCEPT !.headers = @ \cup {line[1]}]

\* The name is what comes before the first colon: that of a header if the line
\* begins with one.
ParseHeader(r, line) ==
    IF \E i \in DOMAIN line : line[i] \in Colon
    THEN [r EXCEPT !.headers = @ \cup ({line[1]} \cap Header)]
    ELSE [r EXCEPT !.state = "err"]

\* Mutant: a CONNECT is taken to have a body.
EndOfHeadersStuck(r) ==
    [r EXCEPT !.state = IF r.method = "CONNECT" \/ "length" \in r.headers
                        THEN "body" ELSE "complete"]

\* The empty line: a request with a Content-Length has a body.
EndOfHeaders(r) ==
    [r EXCEPT !.state = IF r.method # "CONNECT" /\ "length" \in r.headers
                        THEN "body" ELSE "complete"]

\* One iteration of the loop of ParseHttpRequest.
ParseLine(r, line) ==
    CASE r.state = "requestLine"             -> ParseRequestLine(r, line)
      [] r.state = "headers" /\ line # <<>>  -> ParseHeader(r, line)
      [] r.state = "headers" /\ line = <<>>  -> EndOfHeaders(r)
      [] r.state = "body"                    -> [r EXCEPT !.state = "complete"]
      [] r.state \in {"complete", "err"}     -> r

\* ExtractTarget returns true.
HasTarget(r) ==
    r.method = "CONNECT" \/ "host" \in r.headers \/ r.uri = "absolute"

\* Mutant: the request is forwarded with its absolute URI.
ForwardDataAsIs(r, text) == text

\* The request that is sent on: an absolute URI is cut down to its path, and
\* the rest is rawData as it is.
ForwardData(r, text) ==
    LET end == FirstLineEnd(text, 1) IN
    (IF r.uri = "absolute" THEN <<r.method, "origin", "version">> ELSE SubSeq(text, 1, end - 1))
        \o SubSeq(text, end, Len(text))

-----------------------------------------------------------------------------
\* Mutant: the buffer is filled to its last byte.
FitsWhole(n) == bufferLen + n <= BufferSize

Fits(n) == bufferLen + n < BufferSize

Segment(n) ==
    /\ n \in 1..(Len(request) - taken)
    /\ taken' = taken + n
    /\ first' = IF first = 0 THEN n ELSE first
    /\ UNCHANGED request

\* The segment does not fit: 413, and the connection is closed.
TooLarge(n) ==
    /\ outcome = "reading"
    /\ Segment(n)
    /\ ~Fits(n)
    /\ outcome' = "tooLarge"
    /\ UNCHANGED <<bufferLen, rawData, pos, parsed, sentVars>>

\* The segment is appended to clientBuffer, and clientBuffer to rawData.
Receive(n) ==
    /\ outcome = "reading"
    /\ Segment(n)
    /\ Fits(n)
    /\ bufferLen' = bufferLen + n
    /\ rawData' = rawData \o SubSeq(request, 1, bufferLen')
    /\ pos' = 1
    /\ outcome' = "parsing"
    /\ UNCHANGED <<parsed, sentVars>>

\* After the request the segments are sent on as they come.  The socket does not
\* block: send takes what fits, or fails, and the rest is not kept.
Relay(n) ==
    /\ outcome = "connected"
    /\ Segment(n)
    /\ \E k \in 0..n :
         /\ forwarded' = forwarded \o SubSeq(request, taken + 1, taken + k)
         /\ cut' = (cut \/ k < n)
    /\ UNCHANGED <<bufferLen, rawData, pos, parsed, outcome>>

-----------------------------------------------------------------------------
\* Mutant: the loop does not get past the line it has read.
AfterLineStuck(end) == pos

AfterLine(end) == end + 2

\* The condition of the loop of ParseHttpRequest, and that it finds a line.
MoreToParse ==
    /\ parsed.state \notin {"complete", "err"}
    /\ LineEnds(rawData, pos) # {}

\* One iteration of the loop.
ReadLine ==
    /\ outcome = "parsing"
    /\ MoreToParse
    /\ LET end == FirstLineEnd(rawData, pos) IN
        /\ parsed' = ParseLine(parsed, SubSeq(rawData, pos, end - 1))
        /\ pos' = AfterLine(end)
    /\ UNCHANGED <<request, first, taken, bufferLen, rawData, outcome, sentVars>>

\* What the handler does after the loop.
Finish(result) ==
    /\ outcome = "parsing"
    /\ ~MoreToParse
    /\ outcome' = result
    /\ UNCHANGED <<request, first, taken, bufferLen, rawData, pos, parsed>>

AwaitMore ==
    /\ parsed.state \notin {"complete", "err"}
    /\ Finish("reading")
    /\ UNCHANGED sentVars

RefuseRequest ==
    /\ parsed.state = "err" \/ (parsed.state = "complete" /\ ~HasTarget(parsed))
    /\ Finish("badRequest")
    /\ UNCHANGED sentVars

ConnectFails ==
    /\ parsed.state = "complete" /\ HasTarget(parsed)
    /\ Finish("badGateway")
    /\ UNCHANGED sentVars

\* RegisterConnection has failed and closed both sockets; the handler goes on,
\* and what it sends reaches nobody.
RegistrationFails ==
    /\ parsed.state = "complete" /\ HasTarget(parsed)
    /\ Finish("closed")
    /\ UNCHANGED sentVars

\* The request is forwarded, as far as send takes it, or answered if it asks for
\* a tunnel: then nothing of clientBuffer is sent on.
ForwardRequest ==
    /\ parsed.state = "complete" /\ HasTarget(parsed)
    /\ Finish("connected")
    /\ IF parsed.method = "CONNECT" THEN UNCHANGED sentVars
       ELSE LET data == ForwardData(parsed, rawData) IN
            \E k \in 0..Len(data) :
                /\ forwarded' = SubSeq(data, 1, k)
                /\ cut' = (k < Len(data))

-----------------------------------------------------------------------------
\* The handler is called with a segment, and goes on until it returns.
ProcessClientData(n) == TooLarge(n) \/ Receive(n) \/ Relay(n)

Parse ==
    \/ ReadLine \/ AwaitMore
    \/ RefuseRequest \/ ConnectFails \/ RegistrationFails \/ ForwardRequest

Next == (\E n \in 1..Len(request) : ProcessClientData(n)) \/ Parse

\* Nothing is said of when a segment comes; the handler does not stop half way.
Spec == Init /\ [][Next]_vars /\ WF_vars(Parse)

-----------------------------------------------------------------------------
(***************************************************************************)
(* Properties.                                                             *)
(***************************************************************************)

\* Type invariant.
TypeOK ==
    /\ request \in Requests
    /\ first \in 0..Len(request)
    /\ taken \in 0..Len(request)
    /\ bufferLen \in 0..taken
    /\ rawData \in Seq(Symbol)
    /\ pos \in 1..(Len(rawData) + 1)
    /\ parsed \in [state : {"requestLine", "headers", "body", "complete", "err"},
                   method : Symbol \cup {"none"}, uri : Symbol \cup {"none"},
                   headers : SUBSET Header]
    /\ outcome \in {"reading", "parsing", "tooLarge", "badRequest", "badGateway", "closed",
                    "connected"}
    /\ forwarded \in Seq(Symbol)
    /\ cut \in BOOLEAN

\* The places where a line begins.
LineStarts(text) == {1} \cup {i + 2 : i \in LineEnds(text, 1)}

\* There is a colon in what comes from one place up to another.
HasColon(text, from, to) == \E i \in from..(to - 1) : text[i] \in Colon

\* The line that begins at a place is empty, and those before it have a colon.
EmptyLine(req, last) ==
    /\ last \in LineStarts(req) \cap LineEnds(req, 6)
    /\ \A start \in LineStarts(req), end \in LineEnds(req, 6) :
           1 < start /\ start < last /\ start <= end => HasColon(req, start, end)

(***************************************************************************)
(* A request as it should be: the three words of the first line, lines     *)
(* with a colon, and an empty line before whatever follows.                *)
(***************************************************************************)
WellFormed(req) ==
    /\ Len(req) >= 5
    /\ req[1] \in Method
    /\ req[2] \in Uri
    /\ req[1] = "CONNECT" <=> req[2] = "authority"
    /\ req[3] = "version" /\ req[4] = "CR" /\ req[5] = "LF"
    /\ \E last \in LineStarts(req) : EmptyLine(req, last)

\* Where the empty line of such a request is; the head ends with its CR LF.
HeadEnd(req) == CHOOSE last \in LineStarts(req) : EmptyLine(req, last)

\* The headers of the lines that begin before a place, and all of them.
HeadersBefore(req, place) == {req[i] : i \in LineStarts(req) \cap (2..(place - 1))} \cap Header
HeadersOf(req) == HeadersBefore(req, HeadEnd(req))

\* The method of the request that is sent.
AskedMethod == request[1]

\* The first segment has the whole of the first line.
FirstLineWhole == first > FirstLineEnd(request, 1)

(***************************************************************************)
(* A CONNECT whose first line comes in one segment is never refused as a   *)
(* bad request and, once it has come whole, is not left waiting, wherever  *)
(* the rest of it is cut: the copies of the beginning that pile up in      *)
(* rawData are read as headers, and its line has a colon.  The tunnel does *)
(* not open before the end of the head has come.  What goes through it is  *)
(* what came in the segments after that, without a gap as long as send     *)
(* takes all it is given (http_proxy.cpp:185 does not look); what came     *)
(* behind the head in the same segment is lost (http_proxy.cpp:240-244).   *)
(***************************************************************************)
TunnelOpens ==
    WellFormed(request) /\ AskedMethod = "CONNECT" /\ FirstLineWhole =>
        /\ outcome # "badRequest"
        /\ taken = Len(request) => outcome # "reading"
        /\ outcome = "connected" => bufferLen > HeadEnd(request)
        /\ outcome = "connected" /\ ~cut => forwarded = SubSeq(request, bufferLen + 1, taken)

\* What the server should get.
Rewritten(req) ==
    IF req[2] = "absolute" THEN <<req[1], "origin">> \o SubSeq(req, 3, Len(req)) ELSE req

\* A body is announced, and there is no line end behind the head.
Held(req) == "length" \in HeadersOf(req) /\ LineEnds(req, HeadEnd(req) + 2) = {}

(***************************************************************************)
(* What becomes of a request that comes in one segment and is not a        *)
(* CONNECT.  If a body is announced and no line ends behind the head, it   *)
(* is not sent on, though it has come whole (http_proxy.cpp:331-333 waits  *)
(* for a line of the body); any other is not left waiting.  It is refused  *)
(* only if it names no host.  If it is sent on, the server gets it as it   *)
(* was, but for its URI, with its body: all of it or, if send has taken    *)
(* less than it was given (http_proxy.cpp:261 does not look), a beginning. *)
(***************************************************************************)
WholeIsForwarded ==
    WellFormed(request) /\ AskedMethod # "CONNECT" /\ first = Len(request) =>
        /\ Held(request) => outcome \in {"parsing", "reading", "tooLarge"}
        /\ ~Held(request) => outcome # "reading"
        /\ outcome = "badRequest" => "host" \notin HeadersOf(request) /\ request[2] # "absolute"
        /\ outcome = "connected" =>
             /\ forwarded = SubSeq(Rewritten(request), 1, Len(forwarded))
             /\ ~cut => forwarded = Rewritten(request)

(***************************************************************************)
(* rawData is never cleared and grows by all of clientBuffer with every    *)
(* segment, but not without end: what clientBuffer can hold, sent one byte *)
(* at a time, makes it as long as this and no longer.                      *)
(***************************************************************************)
RawDataBounded == 2 * Len(rawData) <= (BufferSize - 1) * BufferSize

(***************************************************************************)
(* The loop of ParseHttpRequest comes to an end, whatever is in rawData.   *)
(***************************************************************************)
ParseEnds == outcome = "parsing" ~> outcome # "parsing"
=============================================================================
