---------------------------- MODULE HttpRequest ----------------------------
(***************************************************************************)
(* rpc/http.cpp: framing a request out of the bytes read so far, and the   *)
(* screening of a framed request.                                          *)
(*                                                                         *)
(* A buffer is a sequence of symbols.  The bytes the parser looks at are   *)
(* symbols of their own; a method, a version, a header name or a media     *)
(* type is one symbol, already in lower case where HTTP ignores case.      *)
(***************************************************************************)
EXTENDS Integers, SequencesExt, FiniteSetsExt

CONSTANTS
    MaxHeaderBytes,       \* 8192
    MaxRequestBytes       \* 8 MiB

LineEnd == <<"cr", "lf">>
HeaderEnd == LineEnd \o LineEnd
Blank == {" ", "tab"}
Digit == <<"0", "1", "2", "3", "4", "5", "6", "7", "8", "9">>

\* find: the first place of a pattern, 0 if there is none.
Find(text, pattern) ==
    LET places == {i \in 1..Len(text) - Len(pattern) + 1 :
                      \A k \in DOMAIN pattern : text[i + k - 1] = pattern[k]}
    IN  IF places = {} THEN 0 ELSE Min(places)
After(text, place) == SubSeq(text, place + 1, Len(text))
Before(text, place) == SubSeq(text, 1, place - 1)

TrimOws(text) ==
    LET solid == {i \in DOMAIN text : text[i] \notin Blank}
    IN  IF solid = {} THEN <<>> ELSE SubSeq(text, Min(solid), Max(solid))

IsTokenName(name) == name # <<>> /\ ToSet(name) \cap (Blank \cup {"cr", "lf", ":"}) = {}

NoLength == -1
\* Read digit by digit: nothing is accepted that would pass the limit.
ParseLength(text, limit) ==
    IF text = <<>> \/ Len(text) > 20 \/ ~(ToSet(text) \subseteq ToSet(Digit)) THEN NoLength
    ELSE FoldLeft(LAMBDA value, c :
                      LET digit == SelectInSeq(Digit, LAMBDA d : d = c) - 1
                      IN  IF value = NoLength \/ value > (limit - digit) \div 10 THEN NoLength
                          ELSE value * 10 + digit,
                  0, text)

-----------------------------------------------------------------------------
(* FrameRequest *)

Refuse(state, status) == [state |-> state, status |-> status]
Malformed == Refuse("Malformed", 400)
TooLarge == Refuse("TooLarge", 413)
NeedMore == Refuse("NeedMore", 200)

RECURSIVE Lines(_)
Lines(text) ==
    LET end == Find(text, LineEnd)
    IN  IF text = <<>> THEN <<>>
        ELSE IF end = 0 THEN <<text>>
        ELSE <<Before(text, end)>> \o Lines(After(text, end + 1))

IsHeader(line) ==
    LET colon == Find(line, <<":">>)
    IN  line[1] \notin Blank /\ colon # 0 /\ IsTokenName(Before(line, colon))
HeaderOf(line) ==
    LET colon == Find(line, <<":">>)
    IN  [name |-> Before(line, colon), value |-> TrimOws(After(line, colon))]

Named(headers, name) == SelectSeq(headers, LAMBDA h : h.name = <<name>>)
CountHeader(headers, name) == Len(Named(headers, name))

\* The request line: a method, a target that starts with "/", a version.
FrameLine(line) ==
    LET first == Find(line, <<" ">>)
        rest == After(line, first)
        second == Find(rest, <<" ">>)
        target == Before(rest, second)
    IN  IF first = 0 \/ second = 0 THEN Malformed
        ELSE IF After(rest, second) \notin {<<"HTTP/1.1">>, <<"HTTP/1.0">>} THEN Malformed
        ELSE IF target = <<>> THEN Malformed
        ELSE IF target[1] # "/" THEN Malformed
        ELSE [state |-> "Complete", method |-> Before(line, first), target |-> target]

\* Mutant: the body is what has been read of it.
FrameBodyEager(line, headers, rest, begin) ==
    LET value == Named(headers, "content-length")[1].value
        length == ParseLength(value, MaxRequestBytes)
    IN  IF CountHeader(headers, "transfer-encoding") # 0 THEN Malformed
        ELSE IF CountHeader(headers, "content-length") # 1 THEN Malformed
        ELSE IF length = NoLength THEN Malformed
        ELSE [state |-> "Complete", method |-> line.method, target |-> line.target, headers |-> headers,
              body |-> SubSeq(rest, 1, Min({length, Len(rest)})), consumed |-> begin + length]
FrameBody(line, headers, rest, begin) ==
    LET value == Named(headers, "content-length")[1].value
        length == ParseLength(value, MaxRequestBytes)
        numeric == value # <<>> /\ ToSet(value) \subseteq ToSet(Digit)
    IN  IF CountHeader(headers, "transfer-encoding") # 0 THEN Malformed
        ELSE IF CountHeader(headers, "content-length") # 1 THEN Malformed
        ELSE IF length = NoLength THEN IF numeric THEN TooLarge ELSE Malformed
        ELSE IF Len(rest) < length THEN NeedMore
        ELSE [state |-> "Complete", method |-> line.method, target |-> line.target,
              headers |-> headers, body |-> SubSeq(rest, 1, length), consumed |-> begin + length]

FrameRequest(buffer) ==
    LET end == Find(buffer, HeaderEnd)
        lines == Lines(Before(buffer, end))
        fields == SelectSeq(Tail(lines), LAMBDA l : l # <<>>)
        line == FrameLine(lines[1])
    IN  IF end = 0 THEN IF Len(buffer) > MaxHeaderBytes THEN TooLarge ELSE NeedMore
        ELSE IF end - 1 > MaxHeaderBytes THEN TooLarge
        ELSE IF lines = <<>> THEN Malformed
        ELSE IF line.state # "Complete" THEN line
        ELSE IF \E i \in DOMAIN fields : ~IsHeader(fields[i]) THEN Malformed
        ELSE FrameBody(line, [i \in DOMAIN fields |-> HeaderOf(fields[i])], After(buffer, end + 3), end + 3)

-----------------------------------------------------------------------------
(* Screen *)

LoopbackNames == {<<"127.0.0.1">>, <<"localhost">>, <<"[", ":", ":", "1", "]">>}

\* Mutant: whatever follows the last colon is taken for the port.
IsLoopbackHostAnyColon(host, port) ==
    LET colon == SelectLastInSeq(host, LAMBDA c : c = ":")
    IN  IF colon # 0 THEN /\ ParseLength(After(host, colon), 65535) = port
                          /\ Before(host, colon) \in LoopbackNames
        ELSE host \in LoopbackNames
IsLoopbackHost(host, port) ==
    LET colon == SelectLastInSeq(host, LAMBDA c : c = ":")
        bracket == SelectLastInSeq(host, LAMBDA c : c = "]")
        has_port == colon # 0 /\ IF bracket = 0 THEN Find(host, <<":">>) = colon ELSE colon > bracket
    IN  IF has_port THEN /\ ParseLength(After(host, colon), 65535) = port
                         /\ Before(host, colon) \in LoopbackNames
        ELSE host \in LoopbackNames

\* Mutant: what is cheap to refuse is refused before the credential is looked at.
ScreenLate(request, policy) ==
    IF request.method # <<"POST">> THEN 405
    ELSE IF request.target # <<"/">> THEN 404
    ELSE IF CountHeader(request.headers, "authorization") # 1 THEN 401
    ELSE IF Named(request.headers, "authorization")[1].value # policy.expected_authorization THEN 401
    ELSE 200
\* The status a request is refused with, 200 if it may be answered.
Screen(request, policy) ==
    LET Value(name) == Named(request.headers, name)[1].value
        type == Named(request.headers, "content-type")
        media == LET text == type[1].value
                     end == Find(text, <<";">>)
                 IN  TrimOws(IF end = 0 THEN text ELSE Before(text, end))
    IN  IF CountHeader(request.headers, "authorization") # 1 THEN 401
        ELSE IF Value("authorization") # policy.expected_authorization THEN 401
        ELSE IF CountHeader(request.headers, "host") # 1 THEN 403
        ELSE IF ~IsLoopbackHost(Value("host"), policy.port) THEN 403
        ELSE IF request.method # <<"POST">> THEN 405
        ELSE IF request.target # <<"/">> THEN 404
        ELSE IF type = <<>> THEN 415
        ELSE IF media # <<"application/json">> THEN 415
        ELSE 200
=============================================================================
