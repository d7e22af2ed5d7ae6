------------------------- MODULE MCHttpRequestParsing -------------------------
EXTENDS HttpRequestParsing

CRLF == <<"CR", "LF">>

Line(words) == words \o CRLF

Get == Line(<<"GET", "absolute", "version">>) \o Line(<<"host">>) \o CRLF
GetOrigin == Line(<<"GET", "origin", "version">>) \o Line(<<"host">>) \o CRLF
GetNoHost == Line(<<"GET", "origin", "version">>) \o CRLF
Post == Line(<<"POST", "absolute", "version">>) \o Line(<<"length">>) \o CRLF
PostLine == Post \o Line(<<"text">>)
PostBody == Post \o <<"text">>
Tunnel == Line(<<"CONNECT", "authority", "version">>) \o Line(<<"host">>) \o CRLF
TunnelEarly == Tunnel \o <<"text", "host">>
TunnelLong == Tunnel \o <<"text", "text", "host", "text">>

\* Not as they should be: two words, a line without a colon, an end that never
\* comes, a blank in the first line.
TwoWords == Line(<<"GET", "origin">>) \o CRLF
NoColon == Line(<<"CONNECT", "origin", "version">>) \o Line(<<"text">>) \o CRLF
NoEnd == Line(<<"GET", "absolute", "version">>) \o Line(<<"host">>) \o Line(<<"host", "text", "text", "text">>)
Blanks == Line(<<"GET", "LF", "absolute", "CR", "version">>) \o CRLF

MCRequests == {Get, GetOrigin, GetNoHost, PostLine, PostBody, Tunnel, TunnelEarly, TunnelLong,
               TwoWords, NoColon, NoEnd, Blanks}
=============================================================================
