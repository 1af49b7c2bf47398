------------------------------ MODULE HttpPeek ------------------------------
(***************************************************************************)
(* The parser of common/http_peek.c.  A caller peeks at the first line and *)
(* the first header of a message while its bytes arrive: after every byte  *)
(* it calls peek_http_request or peek_http_response anew, with the same    *)
(* p_head, which was zero at first.                                        *)
(*                                                                         *)
(* Every byte the parser looks at is a step.  Bytes are of the kinds the   *)
(* code tells apart.  Positions count from 1; p_head holds for every text  *)
(* its position and length.                                                *)
(***************************************************************************)
EXTENDS Integers, Sequences

CONSTANTS
  Messages,  \* what may be sent: see MessageType
  Unroll     \* 8 in the code: the bytes get_token_to_eol reads in a row

(* "tok" are token characters without a meaning of their own, "sep" other  *)
(* printable ones, "ctl" control characters, "high" bytes above 127.       *)
Digits == {"0", "1", "2"}
Controls == {"cr", "lf", "tab", "ctl"}
TokenChars == Digits \cup {"H", "T", "P", "dot", "tok"}
Bytes == TokenChars \cup Controls \cup {"sp", "colon", "slash", "sep", "high"}
IS_PRINTABLE_ASCII(c) == c \notin Controls \cup {"high"}

Value(d) == CASE d = "0" -> 0 [] d = "1" -> 1 [] d = "2" -> 2

Text == Nat \X Nat
Fields == [name : Text, value : Text, method : Text, path : Text,
           version : 0..2, res_code : 0..222, msg : Text]
NoFields == [name |-> <<0, 0>>, value |-> <<0, 0>>, method |-> <<0, 0>>,
             path |-> <<0, 0>>, version |-> 0, res_code |-> 0, msg |-> <<0, 0>>]

(* The function that is called, the bytes sent, how many of them the first *)
(* line and the first header take (0: they are not well-formed), and what  *)
(* the sender put in them.                                                 *)
MessageType == [call : {"request", "response"}, bytes : Seq(Bytes), whole : Nat, fields : Fields]

ASSUME HttpPeekAssumption ==
  /\ \A m \in Messages : m \in MessageType
  /\ Unroll \in Nat \ {0}

VARIABLES
  sent,    \* the message
  len,     \* the bytes that have arrived: the argument of the call
  buf,     \* the local of that name: the position of the next byte
  pc,      \* where the parser is
  tok,     \* token_start: where the current token begins
  unread,  \* reads left of the row that get_token_to_eol unrolls
  p_head,  \* the output
  result   \* what the last call returned

vars == <<sent, len, buf, pc, tok, unread, p_head, result>>
locals == <<tok, unread, p_head>>

buf_end == len + 1

(* Behind the message there is some other memory.  It is read after a lone *)
(* empty line only, where the version is not looked for in any case.       *)
At(i) == IF i <= Len(sent.bytes) THEN sent.bytes[i] ELSE "ctl"

Entry(m) == IF m.call = "request" THEN "empty" ELSE "version"

Init ==
  /\ sent \in Messages
  /\ len = 0 /\ buf = 1 /\ pc = Entry(sent) /\ tok = 1 /\ unread = 0
  /\ p_head = NoFields /\ result = FALSE

(* Another byte arrives, and the caller peeks again.                       *)
Arrive ==
  /\ pc = "idle" /\ len < Len(sent.bytes)
  /\ len' = len + 1 /\ buf' = 1 /\ pc' = Entry(sent)
  /\ UNCHANGED <<sent, locals, result>>

Return(r) ==
  /\ pc' = "idle" /\ result' = r
  /\ UNCHANGED buf

Goto(to, at) ==
  /\ pc' = to /\ buf' = at
  /\ UNCHANGED result

(* Variant with a fault: the end of the buffer is not looked for.          *)
AdvanceBlindly(to) == Goto(to, buf + 1)

(* ++buf; CHECK_EOF()                                                      *)
Advance(to) == IF buf + 1 = buf_end THEN Return(FALSE) ELSE Goto(to, buf + 1)

Put(field, v) == p_head' = [p_head EXCEPT ![field] = v]

-----------------------------------------------------------------------------
(* peek_http_request                                                       *)

(* The first empty line; after it parse_token reads a byte unasked.        *)
SkipEmptyLine ==
  /\ pc = "empty"
  /\ IF buf = buf_end THEN Return(FALSE)
     ELSE CASE At(buf) = "cr" -> Goto("lf_method", buf + 1)
            [] At(buf) = "lf" -> Goto("method", buf + 1)
            [] OTHER          -> Goto("method", buf)
  /\ tok' = IF At(buf) = "lf" THEN buf + 1 ELSE buf
  /\ UNCHANGED <<sent, len, unread, p_head>>

(* EXPECT_CHAR('\012'), after a carriage return before a token or header.  *)
ExpectLF ==
  /\ pc \in {"lf_method", "lf_header"}
  /\ IF buf = buf_end \/ At(buf) # "lf" THEN Return(FALSE)
     ELSE Goto(IF pc = "lf_method" THEN "method" ELSE "header", buf + 1)
  /\ tok' = buf + 1
  /\ UNCHANGED <<sent, len, unread, p_head>>

(* parse_token up to a space.                                              *)
ParseMethod ==
  /\ pc = "method"
  /\ CASE At(buf) = "sp"         -> Put("method", <<tok, buf - tok>>) /\ Advance("sp_path")
       [] At(buf) \in TokenChars -> Advance("method") /\ UNCHANGED p_head
       [] OTHER                  -> Return(FALSE) /\ UNCHANGED p_head
  /\ UNCHANGED <<sent, len, tok, unread>>

SkipToPath ==
  /\ pc = "sp_path"
  /\ IF At(buf) = "sp" THEN Advance("sp_path") ELSE Goto("path", buf)
  /\ tok' = buf
  /\ UNCHANGED <<sent, len, unread, p_head>>

(* ADVANCE_TOKEN: anything but a space or a control character.             *)
ParsePath ==
  /\ pc = "path"
  /\ CASE At(buf) = "sp"       -> Put("path", <<tok, buf - tok>>) /\ Advance("sp_version")
       [] At(buf) \in Controls -> Return(FALSE) /\ UNCHANGED p_head
       [] OTHER                -> Advance("path") /\ UNCHANGED p_head
  /\ UNCHANGED <<sent, len, tok, unread>>

SkipToVersion ==
  /\ pc = "sp_version"
  /\ CASE At(buf) = "sp" -> Advance("sp_version")
       [] At(buf) # "sp" /\ 0 \in {p_head.method[2], p_head.path[2]} -> Return(FALSE)
       [] OTHER -> Goto("version", buf)
  /\ UNCHANGED <<sent, len, locals>>

EndOfRequestLine ==
  /\ pc = "version_end"
  /\ CASE At(buf) = "cr" -> Goto("lf_header", buf + 1)
       [] At(buf) = "lf" -> Goto("header", buf + 1)
       [] OTHER          -> Return(FALSE)
  /\ UNCHANGED <<sent, len, locals>>

-----------------------------------------------------------------------------
(* parse_http_version, in both functions: `HTTP/1.', a digit and another   *)
(* byte.                                                                   *)
Literal == <<"H", "T", "T", "P", "slash", "1", "dot">>

parse_http_version ==
  /\ pc = "version"
  /\ IF \/ buf_end - buf < 9
        \/ \E i \in 1..7 : At(buf + i - 1) # Literal[i]
        \/ At(buf + 7) \notin Digits
       THEN Return(FALSE) /\ UNCHANGED p_head
       ELSE /\ Put("version", Value(At(buf + 7)))
            /\ Goto(IF sent.call = "request" THEN "version_end" ELSE "version_sp", buf + 8)
  /\ UNCHANGED <<sent, len, tok, unread>>

-----------------------------------------------------------------------------
(* peek_http_response                                                      *)

RequireSpace ==
  /\ pc = "version_sp"
  /\ IF At(buf) # "sp" THEN Return(FALSE) ELSE Advance("sp_status")
  /\ UNCHANGED <<sent, len, locals>>

SkipToStatus ==
  /\ pc = "sp_status"
  /\ IF At(buf) = "sp" THEN Advance("sp_status") ELSE Goto("status", buf)
  /\ UNCHANGED <<sent, len, locals>>

ParseStatus ==
  /\ pc = "status"
  /\ IF \/ buf_end - buf < 4
        \/ \E i \in 0..2 : At(buf + i) \notin Digits
       THEN Return(FALSE) /\ UNCHANGED p_head
       ELSE /\ Put("res_code", 100 * Value(At(buf)) + 10 * Value(At(buf + 1)) + Value(At(buf + 2)))
            /\ Goto("reason", buf + 3)
  /\ tok' = buf + 3
  /\ UNCHANGED <<sent, len, unread>>

msg_len == p_head.msg[2]

(* The reason phrase went to p_head->value, but msg_len is tested.  It is  *)
(* 0 as the caller left it, so that what is to be done with a phrase, to   *)
(* take off its space or to refuse the message, is never done.             *)
CheckMessage ==
  /\ pc = "message"
  /\ IF msg_len = 0 THEN Goto("header", buf) ELSE Return(FALSE)
  /\ UNCHANGED <<sent, len, locals>>

-----------------------------------------------------------------------------
(* parse_header                                                            *)

(* An empty line in place of a header: false.                              *)
StartHeader ==
  /\ pc = "header"
  /\ IF buf = buf_end \/ At(buf) \in {"cr", "lf"}
       THEN Return(FALSE) /\ UNCHANGED p_head
       ELSE IF At(buf) \in {"sp", "tab"}
              THEN Put("name", <<0, 0>>) /\ Goto("value", buf)
              ELSE Goto("name", buf) /\ UNCHANGED p_head
  /\ tok' = buf
  /\ UNCHANGED <<sent, len, unread>>

(* parse_token up to a colon.                                              *)
ParseName ==
  /\ pc = "name"
  /\ IF At(buf) = "colon"
       THEN /\ Put("name", <<tok, buf - tok>>)
            /\ IF buf = tok THEN Return(FALSE) ELSE Goto("sp_value", buf + 1)
       ELSE /\ IF At(buf) \in TokenChars THEN Advance("name") ELSE Return(FALSE)
            /\ UNCHANGED p_head
  /\ UNCHANGED <<sent, len, tok, unread>>

SkipToValue ==
  /\ pc = "sp_value"
  /\ CASE buf = buf_end                           -> Return(FALSE)
       [] buf # buf_end /\ At(buf) \in {"sp", "tab"} -> Goto("sp_value", buf + 1)
       [] OTHER                                   -> Goto("value", buf)
  /\ tok' = buf
  /\ UNCHANGED <<sent, len, unread, p_head>>

-----------------------------------------------------------------------------
(* get_token_to_eol, for a value or a reason                               *)

InToken == pc \in {"value", "reason"}

(* Unroll bytes are left: they are read without asking for the end.        *)
BeginRow ==
  /\ InToken /\ unread = 0 /\ buf_end - buf >= Unroll
  /\ unread' = Unroll
  /\ UNCHANGED <<sent, len, buf, pc, tok, p_head, result>>

EndsToken(c) == c \in Controls \ {"tab"}

(* A byte of a row: a tab or a byte above 127 ends the row.                *)
RowByte ==
  /\ InToken /\ unread > 0 /\ ~EndsToken(At(buf))
  /\ unread' = IF IS_PRINTABLE_ASCII(At(buf)) THEN unread - 1 ELSE 0
  /\ Goto(pc, buf + 1)
  /\ UNCHANGED <<sent, len, tok, p_head>>

(* A byte of the rest, which is too short for a row.                       *)
LastByte ==
  /\ InToken /\ unread = 0 /\ buf_end - buf < Unroll
  /\ \/ buf = buf_end /\ Return(FALSE)
     \/ buf # buf_end /\ ~EndsToken(At(buf)) /\ Goto(pc, buf + 1)
  /\ UNCHANGED <<sent, len, locals>>

(* The token's end: p_head->value, and for the reason its length too.      *)
EndToken(length) ==
  IF pc \in {"reason", "lf_reason"}
    THEN Put("value", <<tok, length>>) /\ Goto("message", buf + 1)
    ELSE Put("value", <<tok, length>>) /\ Goto("trim", buf + 1)

FoundCtl ==
  /\ InToken /\ EndsToken(At(buf))
  /\ unread > 0 \/ (buf # buf_end /\ buf_end - buf < Unroll)
  /\ unread' = 0
  /\ CASE At(buf) = "cr" -> Goto(IF pc = "value" THEN "lf_value" ELSE "lf_reason", buf + 1) /\ UNCHANGED p_head
       [] At(buf) = "lf" -> EndToken(buf - tok)
       [] OTHER          -> Return(FALSE) /\ UNCHANGED p_head
  /\ UNCHANGED <<sent, len, tok>>

(* Variant with a fault: the carriage return is taken for a part of it.    *)
TokenLFLong ==
  /\ pc \in {"lf_value", "lf_reason"}
  /\ IF buf = buf_end \/ At(buf) # "lf" THEN Return(FALSE) /\ UNCHANGED p_head
     ELSE EndToken(buf - tok)
  /\ UNCHANGED <<sent, len, tok, unread>>

(* EXPECT_CHAR('\012') at the end of a token.                              *)
TokenLF ==
  /\ pc \in {"lf_value", "lf_reason"}
  /\ IF buf = buf_end \/ At(buf) # "lf" THEN Return(FALSE) /\ UNCHANGED p_head
     ELSE EndToken(buf - 1 - tok)
  /\ UNCHANGED <<sent, len, tok, unread>>

Trimmed(n) ==
  CHOOSE k \in 0..n : /\ \A i \in k..(n - 1) : At(tok + i) \in {"sp", "tab"}
                      /\ k > 0 => At(tok + k - 1) \notin {"sp", "tab"}

(* Trailing blanks are taken off the value.                                *)
TrimValue ==
  /\ pc = "trim"
  /\ Put("value", <<tok, Trimmed(p_head.value[2])>>)
  /\ Return(TRUE)
  /\ UNCHANGED <<sent, len, tok, unread>>

-----------------------------------------------------------------------------
peek_http_request ==
  \/ SkipEmptyLine \/ ExpectLF \/ ParseMethod \/ SkipToPath \/ ParsePath
  \/ SkipToVersion \/ EndOfRequestLine

peek_http_response == RequireSpace \/ SkipToStatus \/ ParseStatus \/ CheckMessage

get_token_to_eol == BeginRow \/ RowByte \/ LastByte \/ FoundCtl \/ TokenLF

parse_header == StartHeader \/ ParseName \/ SkipToValue \/ TrimValue

Next ==
  \/ Arrive
  \/ peek_http_request \/ peek_http_response
  \/ parse_http_version \/ parse_header \/ get_token_to_eol

Spec == Init /\ [][Next]_vars

-----------------------------------------------------------------------------
(* The places where a byte is read without a look for the end first.       *)
Unasked == {"method", "sp_path", "path", "sp_version", "version_end",
            "version_sp", "sp_status", "name"}

(* What has arrived of a request is an empty line and nothing else.        *)
LoneEmptyLine ==
  sent.call = "request" /\ SubSeq(sent.bytes, 1, len) \in {<<"lf">>, <<"cr", "lf">>}

(***************************************************************************)
(* `Returned pointer is always within [buf, buf_end), or null'             *)
(* (http_peek.c:117 and 139): wherever the message is cut off, no byte is  *)
(* read behind the len bytes of the call, the row of reads that            *)
(* get_token_to_eol unrolls included.  The exception is a lone empty line, *)
(* behind which parse_token reads on.                                      *)
(***************************************************************************)
StaysInside ==
  LoneEmptyLine \/
    /\ buf <= buf_end
    /\ pc \in Unasked => buf < buf_end
    /\ buf + unread <= buf_end

(* What becomes of the fields a sender fills in: the reason phrase is put  *)
(* where the value of the header goes next, and is lost.                   *)
Reported(fields) == [fields EXCEPT !.msg = <<0, 0>>]

(***************************************************************************)
(* A call returns true when the first line and the first header have       *)
(* arrived in full and are well-formed, text glued to a status code        *)
(* allowed, and only then; and p_head, used for all calls before, has then *)
(* what the sender put in them, but for the reason phrase, `get message'   *)
(* (http_peek.c:291), which no call reports.                               *)
(***************************************************************************)
ParsesWhatWasSent ==
  pc = "idle" =>
    /\ result = (sent.whole > 0 /\ len >= sent.whole)
    /\ result => p_head = Reported(sent.fields)

=============================================================================
