----------------------------- MODULE HttpClient -----------------------------
(***************************************************************************)
(* The two ends of one call: the request rpc/client.cpp writes and the     *)
(* reply it reads, and the reply rpc/http.cpp writes.                      *)
(***************************************************************************)
EXTENDS HttpRequest

CONSTANT MaxResponseBytes   \* 16 MiB

\* std::to_string of a number below 10^9.
Decimal(n) ==
    LET size == Max({1} \cup {k + 1 : k \in {j \in 0..8 : 10^j <= n}})
    IN  [i \in 1..size |-> Digit[((n \div 10^(size - i)) % 10) + 1]]

Field(name, value) == <<name, ":", " ">> \o value
Message(lines, body) ==
    Head(lines) \o FlattenSeq([i \in DOMAIN Tail(lines) |-> LineEnd \o Tail(lines)[i]]) \o HeaderEnd \o body

RenderCall(authorization, host, port, body) ==
    Message(<<<<"POST", " ", "/", " ", "HTTP/1.1">>,
              Field("host", host \o <<":">> \o Decimal(port)),
              Field("authorization", authorization),
              Field("content-type", <<"application/json">>),
              Field("connection", <<"close">>),
              Field("content-length", Decimal(Len(body)))>>, body)

RenderResponse(status, body, content_type) ==
    Message(<<<<"HTTP/1.1", " ">> \o Decimal(status) \o <<" ", "reason">>,
              Field("content-type", content_type),
              Field("content-length", Decimal(Len(body))),
              Field("connection", <<"close">>),
              Field("x-content-type-options", <<"nosniff">>)>>
            \o (IF status = 401 THEN <<Field("www-authenticate", <<"basic">>)>> ELSE <<>>), body)

-----------------------------------------------------------------------------
(* Split, as ParseResponse while the connection is open and FinishResponse *)
(* once it is closed.                                                      *)

FailedReply == [state |-> "Malformed"]
MoreReply == [state |-> "NeedMore"]

\* Of the versions HTTP/1.x that are accepted two are told apart.
StatusOf(line) ==
    LET space == Find(line, <<" ">>)
        rest == After(line, space)
        second == Find(rest, <<" ">>)
    IN  IF space = 0 THEN NoLength
        ELSE IF line[1] \notin {"HTTP/1.1", "HTTP/1.0"} THEN NoLength
        ELSE ParseLength(IF second = 0 THEN rest ELSE Before(rest, second), 999)

\* What the reply says its length is, once for each time it says it.
Lengths(fields) ==
    LET Colon(line) == Find(line, <<":">>)
        told == SelectSeq(fields, LAMBDA l : Colon(l) # 0 /\ Before(l, Colon(l)) = <<"content-length">>)
    IN  [i \in DOMAIN told |-> ParseLength(TrimOws(After(told[i], Colon(told[i]))), MaxResponseBytes)]

\* Mutant: a body cut short by the close is taken as it is.
SplitShort(buffer, at_eof) ==
    LET end == Find(buffer, HeaderEnd)
        lines == Lines(Before(buffer, end))
        body == After(buffer, end + 3)
    IN  IF end = 0 THEN IF at_eof THEN FailedReply ELSE MoreReply
        ELSE IF ~at_eof /\ Len(body) < Lengths(Tail(lines))[1] THEN MoreReply
        ELSE [state |-> "Complete", status |-> StatusOf(lines[1]), body |-> body]
Split(buffer, at_eof) ==
    LET end == Find(buffer, HeaderEnd)
        lines == Lines(Before(buffer, end))
        status == StatusOf(lines[1])
        lengths == Lengths(Tail(lines))
        body == After(buffer, end + 3)
        length == IF lengths = <<>> THEN Len(body) ELSE lengths[1]
    IN  IF end = 0 THEN IF Len(buffer) > MaxResponseBytes \/ at_eof THEN FailedReply ELSE MoreReply
        ELSE IF lines = <<>> THEN FailedReply
        ELSE IF status < 100 THEN FailedReply
        ELSE IF Len(lengths) > 1 \/ NoLength \in ToSet(lengths) THEN FailedReply
        ELSE IF Len(body) < length THEN IF at_eof THEN FailedReply ELSE MoreReply
        ELSE IF lengths = <<>> /\ ~at_eof
             THEN IF Len(buffer) > MaxResponseBytes THEN FailedReply ELSE MoreReply
        ELSE [state |-> "Complete", status |-> status, body |-> SubSeq(body, 1, length)]
=============================================================================
