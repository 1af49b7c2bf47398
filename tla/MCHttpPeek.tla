----------------------------- MODULE MCHttpPeek -----------------------------
(***************************************************************************)
(* The messages HttpPeek is checked with, put together from parts.  A part *)
(* of Good is accepted, one of Bad is not; a line has at most one bad      *)
(* part.  All first lines are sent with one header, all headers with one   *)
(* first line.                                                             *)
(***************************************************************************)
EXTENDS HttpGrammar, FiniteSets, SequencesExt

(* `garbage found after status code' (http_peek.c:305): accepted.          *)
Glued == {<<"tok">>, <<"colon", "sp", "tok">>}

Good(part) ==
  CASE part = "lead"    -> {<<>>, <<"lf">>, <<"cr", "lf">>}
    [] part = "method"  -> {<<"tok">>, <<"P", "1">>}
    [] part = "gap"     -> {<<"sp">>, <<"sp", "sp">>}
    [] part = "path"    -> {<<"slash">>, <<"tok", "high", "sep">>}
    [] part = "version" -> {Append(Literal, "1")}
    [] part = "eol"     -> {<<"lf">>, <<"cr", "lf">>}
    [] part = "code"    -> {<<"2", "0", "0">>, <<"1", "0", "2">>}
    [] part = "reason"  -> {<<>>, <<"sp">>, <<"sp", "sp", "tok", "tab", "high", "sp", "T">>} \cup Glued
    [] part = "name"    -> {<<"tok">>, <<"tok", "dot">>}
    [] part = "colon"   -> {<<"colon">>}
    [] part = "blank"   -> {<<>>, <<"sp">>, <<"tab", "sp">>}
    [] part = "value"   -> {<<>>, <<"sep">>, <<"high", "sp", "colon", "tok", "tok">>}

Bad(part) ==
  CASE part = "lead"    -> {<<"cr">>, <<"lf", "lf">>}
    [] part = "method"  -> {<<>>, <<"sep">>, <<"tok", "colon">>}
    [] part = "gap"     -> {<<>>, <<"tab">>}
    [] part = "path"    -> {<<>>, <<"slash", "ctl">>}
    [] part = "version" -> {Literal, Append(Literal, "tok"), <<"H", "T", "T", "P", "slash", "2", "dot", "1">>}
    [] part = "eol"     -> {<<"cr">>, <<"sep">>, <<"ctl">>}
    [] part = "code"    -> {<<"2", "0">>, <<"2", "sep", "0">>}
    [] part = "reason"  -> {<<"sp", "ctl">>}
    [] part = "name"    -> {<<>>, <<"sep">>, <<"tok", "sp">>}
    [] part = "colon"   -> {<<"sp">>}
    [] part = "blank"   -> {}
    [] part = "value"   -> {<<"tok", "ctl">>, <<"cr", "cr">>}

Option(part) == Good(part) \cup Bad(part)

Faults(l, parts) == {i \in DOMAIN parts : l[i] \in Bad(parts[i])}

(* Where part i of a line begins, in a message where n bytes precede it.   *)
Start(l, i, n) == n + 1 + Len(FlattenSeq(SubSeq(l, 1, i - 1)))

Place(l, i, n) == <<Start(l, i, n), Len(l[i])>>

-----------------------------------------------------------------------------
RequestParts == <<"lead", "method", "gap", "path", "gap", "version", "eol">>

RequestLines ==
  {l \in {<<a, b, c, d, e, f, g>> :
            a \in Option("lead"), b \in Option("method"), c \in Option("gap"), d \in Option("path"),
            e \in Option("gap"), f \in Option("version"), g \in Option("eol")} :
     Cardinality(Faults(l, RequestParts)) <= 1}

StatusParts == <<"version", "gap", "code", "reason", "eol">>

StatusLines ==
  {l \in {<<a, b, c, d, e>> : a \in Option("version"), b \in Option("gap"), c \in Option("code"),
                              d \in Option("reason"), e \in Option("eol")} :
     Cardinality(Faults(l, StatusParts)) <= 1}

HeaderParts == <<"name", "colon", "blank", "value", "blank", "eol">>

Headers ==
  {h \in {<<a, b, c, d, e, f>> :
            a \in Option("name"), b \in Option("colon"), c \in Option("blank"), d \in Option("value"),
            e \in Option("blank"), f \in Option("eol")} :
     Cardinality(Faults(h, HeaderParts)) <= 1}

(* A header that begins with a blank has no name.                          *)
Continuations ==
  {<<<<>>, <<>>, c, d, e, f>> : c \in Good("blank") \ {<<>>}, d \in Good("value"),
                                e \in Good("blank"), f \in Good("eol")}

-----------------------------------------------------------------------------
(* The value of a header, without the blanks around it.                    *)
ValueOf(h, n) ==
  IF h \in Continuations
    THEN <<Start(h, 3, n), IF h[4] = <<>> THEN 0 ELSE Len(h[3]) + Len(h[4])>>
    ELSE IF h[4] = <<>> THEN <<Start(h, 6, n), 0>> ELSE Place(h, 4, n)

NameOf(h, n) == IF h \in Continuations THEN <<0, 0>> ELSE Place(h, 1, n)

(* A byte of the next header follows.                                      *)
Message(call, l, faulty, h, fields) ==
  LET line == FlattenSeq(l)
      text == FlattenSeq(h)
      bad  == faulty \/ (h \notin Continuations /\ Faults(h, HeaderParts) # {})
  IN  [call   |-> call,
       bytes  |-> line \o text \o <<"tok">>,
       whole  |-> IF bad THEN 0 ELSE Len(line) + Len(text),
       fields |-> [fields EXCEPT !.name = NameOf(h, Len(line)), !.value = ValueOf(h, Len(line)),
                                 !.version = 1]]

Request(l, h) ==
  Message("request", l, Faults(l, RequestParts) # {}, h,
          [NoFields EXCEPT !.method = Place(l, 2, 0), !.path = Place(l, 4, 0)])

(* The reason of a status line, without the spaces in front of it.         *)
ReasonOf(l) ==
  LET spaces == Cardinality({i \in DOMAIN l[4] : \A j \in 1..i : l[4][j] = "sp"})
  IN  <<Start(l, 4, 0) + spaces, Len(l[4]) - spaces>>

Response(l, h) ==
  Message("response", l, Faults(l, StatusParts) # {}, h,
          [NoFields EXCEPT !.res_code = IF l[3] = <<"2", "0", "0">> THEN 200 ELSE 102,
                           !.msg = ReasonOf(l)])

AnyHeader == Headers \cup Continuations
OneHeader == <<<<"tok">>, <<"colon">>, <<"sp">>, <<"tok">>, <<>>, <<"cr", "lf">>>>
OneRequest == <<<<>>, <<"tok">>, <<"sp">>, <<"slash">>, <<"sp">>, Append(Literal, "1"), <<"cr", "lf">>>>
OneStatus == <<Append(Literal, "1"), <<"sp">>, <<"2", "0", "0">>, <<>>, <<"lf">>>>

MCMessages ==
  {Request(l, OneHeader) : l \in RequestLines} \cup {Request(OneRequest, h) : h \in AnyHeader}
    \cup {Response(l, OneHeader) : l \in StatusLines} \cup {Response(OneStatus, h) : h \in AnyHeader}

(* What is said here of the messages is what the grammar finds in them.    *)
ASSUME MessagesAgreed == \A m \in MCMessages : Agreed(m)

=============================================================================
