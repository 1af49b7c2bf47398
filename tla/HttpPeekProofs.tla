--------------------------- MODULE HttpPeekProofs ---------------------------
(***************************************************************************)
(* Proofs about HttpPeek for every set of messages, however long, cut off  *)
(* anywhere, and for every length of the row that get_token_to_eol unrolls.*)
(***************************************************************************)
EXTENDS HttpGrammar, WellFoundedInduction, TLAPS

LineEnds == {"cr", "lf"}

(* None of the bytes from i up to, not including, j is of the set S.       *)
Free(i, j, S) == \A k \in i..(j - 1) : At(k) \notin S

(* A text of p_head: where it begins, and the position behind it.          *)
From(x) == x[1]
To(x) == x[1] + x[2]

(* What a text of p_head may be: a run of bytes, closed by a given one.    *)
IsToken(x, delimiter) ==
  From(x) >= 1 /\ Free(From(x), To(x), Bytes \ TokenChars) /\ At(To(x)) = delimiter

IsPath(x) ==
  From(x) >= 1 /\ Free(From(x), To(x), Controls \cup {"sp"}) /\ At(To(x)) = "sp"

IsLine(x) ==
  From(x) >= 1 /\ Free(From(x), To(x), Controls \ {"tab"}) /\ At(To(x)) \in LineEnds

(* The value: behind it only blanks, and the end of the line.              *)
IsValue(x) ==
  /\ From(x) >= 1 /\ Free(From(x), To(x), Controls \ {"tab"})
  /\ x[2] > 0 => At(To(x) - 1) \notin Blanks
  /\ \E e \in To(x)..(buf - 1) :
       At(e) \in LineEnds /\ \A k \in To(x)..(e - 1) : At(k) \in Blanks

MethodRead == IsToken(p_head.method, "sp") /\ To(p_head.method) < buf
PathRead == IsPath(p_head.path) /\ To(p_head.path) < buf
NameRead == \/ p_head.name = <<0, 0>>
            \/ p_head.name[2] > 0 /\ IsToken(p_head.name, "colon") /\ To(p_head.name) < buf
NoneEmpty == p_head.method[2] > 0 /\ p_head.path[2] > 0

-----------------------------------------------------------------------------
(* The places of the parser in the order it comes to them.                 *)
BeforePath == {"sp_path", "path"}
BeforeVersion == {"sp_version"}
AtVersion == {"version", "version_end", "lf_header"}
AtStatus == {"version_sp", "sp_status", "status", "reason", "lf_reason", "message"}
AtName == {"header", "name"}
AtValue == {"sp_value", "value", "lf_value", "trim"}
Lead == {"empty", "lf_method", "method"}
Places == {"idle"} \cup Lead \cup BeforePath \cup BeforeVersion \cup AtVersion
            \cup AtStatus \cup AtName \cup AtValue

(* p_head as the parser fills it: msg and msg_len stay zero.               *)
Filled == [name : Text, value : Text, method : Text, path : Text,
           version : 0..2, res_code : 0..222, msg : {<<0, 0>>}]

Types ==
  /\ sent \in MessageType /\ len \in 0..Len(sent.bytes)
  /\ buf \in Nat \ {0} /\ tok \in Nat \ {0} /\ unread \in Nat
  /\ pc \in Places /\ p_head \in Filled

(* Which places a request and a response know.                             *)
Ways ==
  /\ sent.call = "request" => pc \notin AtStatus
  /\ sent.call = "response" =>
       /\ pc \notin Lead \cup BeforePath \cup BeforeVersion \cup {"version_end", "lf_header"}
       /\ p_head.method = <<0, 0>> /\ p_head.path = <<0, 0>>
  /\ LoneEmptyLine => pc \in {"idle", "version"} \cup Lead \cup BeforePath \cup BeforeVersion

(* What the loops have passed over since they began.                       *)
Loops ==
  /\ pc = "empty" => buf = 1
  /\ pc = "lf_method" => buf = 2 /\ len >= 1 /\ At(1) = "cr"
  /\ pc \in {"method", "name"} => tok <= buf /\ Free(tok, buf, Bytes \ TokenChars)
  /\ pc = "path" => tok <= buf /\ Free(tok, buf, Controls \cup {"sp"})
  /\ InToken => tok <= buf /\ Free(tok, buf, Controls \ {"tab"})
  /\ ~InToken => unread = 0
  /\ pc \in {"lf_value", "lf_reason"} =>
       tok < buf /\ Free(tok, buf - 1, Controls \ {"tab"}) /\ At(buf - 1) = "cr"

(* What p_head holds already of the message this call looks at.            *)
Parsed ==
  /\ sent.call = "request" =>
       /\ pc \in BeforePath \cup BeforeVersion \cup AtVersion \cup AtName \cup AtValue => MethodRead
       /\ pc \in BeforeVersion \cup AtVersion \cup AtName \cup AtValue => PathRead
       /\ pc \in AtVersion \cup AtName \cup AtValue => NoneEmpty
  /\ pc \in AtValue => NameRead
  /\ pc = "trim" => /\ From(p_head.value) = tok /\ IsLine(p_head.value)
                    /\ To(p_head.value) < buf

(***************************************************************************)
(* What a call that returns true tells the caller: the texts p_head points *)
(* at are tokens, paths and values as the syntax of HTTP has them, ended   *)
(* by the byte that must end them, and they lie inside the bytes of the    *)
(* call; a request has a method and a path.                                *)
(***************************************************************************)
Reports ==
  /\ sent.call = "request" => MethodRead /\ PathRead /\ NoneEmpty
  /\ sent.call = "response" => p_head.method = <<0, 0>> /\ p_head.path = <<0, 0>>
  /\ NameRead /\ IsValue(p_head.value)
  /\ buf <= buf_end

Outcome == (pc = "idle" /\ result) => ~LoneEmptyLine /\ Reports

IInv == Types /\ Ways /\ Loops /\ StaysInside /\ Parsed /\ Outcome

-----------------------------------------------------------------------------
USE DEF Blanks, LineEnds, BeforePath, BeforeVersion, AtVersion, AtStatus, AtName, AtValue,
        Lead, Places

(* A run of bytes that grows by one.                                       *)
LEMMA FreeGrows ==
  ASSUME NEW i \in Nat, NEW j \in Nat, NEW S, Free(i, j, S), At(j) \notin S
  PROVE  Free(i, j + 1, S)
  BY DEF Free

(* No byte between a position and itself breaks a rule.                    *)
LEMMA FreeEmpty ==
  ASSUME NEW i \in Nat, NEW S
  PROVE  Free(i, i, S)
  BY DEF Free

(* Every byte is of a known kind, also behind the message.                 *)
LEMMA AtBytes ==
  ASSUME Types, NEW k \in Nat \ {0}
  PROVE  At(k) \in Bytes
  BY DEF Types, MessageType, At, Bytes, Controls

(* What Put leaves in p_head: the field is assigned, the others stay.      *)
LEMMA PutText ==
  ASSUME p_head \in Filled, NEW f \in {"name", "value", "method", "path"},
         NEW a \in Nat, NEW n \in Nat, Put(f, <<a, n>>)
  PROVE  /\ p_head' \in Filled
         /\ p_head'[f][1] = a /\ p_head'[f][2] = n
         /\ \A g \in {"name", "value", "method", "path"} \ {f} : p_head'[g] = p_head[g]
<1>1. <<a, n>> \in Text
  BY DEF Text
<1> QED
  BY <1>1 DEF Put, Filled

(* The invariant holds at first.                                           *)
LEMMA InitIInv == Init => IInv
<1> SUFFICES ASSUME Init PROVE IInv
  OBVIOUS
<1>1. sent \in MessageType
  BY HttpPeekAssumption DEF Init
<1>2. ~LoneEmptyLine
  <2>1. SubSeq(sent.bytes, 1, 0) = <<>>
    BY <1>1 DEF MessageType
  <2> QED
    BY <2>1 DEF LoneEmptyLine, Init
<1>3. NoFields \in Filled
  <2>1. <<0, 0>> \in Text
    BY DEF Text
  <2> QED
    BY <2>1 DEF NoFields, Filled
<1>4. Types
  BY <1>1, <1>3 DEF Init, Types, Entry, MessageType
<1> QED
  BY <1>1, <1>2, <1>4
  DEF Init, IInv, Ways, Loops, StaysInside, Parsed, Outcome, Entry, MessageType, InToken,
      Unasked, buf_end, NoFields

(* Within a call the bytes and how many there are do not change.           *)
LEMMA SameBytes ==
  ASSUME UNCHANGED <<sent, len>>
  PROVE  /\ \A k : At(k)' = At(k)
         /\ LoneEmptyLine' <=> LoneEmptyLine
         /\ buf_end' = buf_end
  BY DEF At, LoneEmptyLine, buf_end

(* What an empty line is, and that there are two bytes of it at most.      *)
LEMMA EmptyLine ==
  ASSUME Types, sent.call = "request"
  PROVE  /\ len = 1 /\ At(1) = "lf" => LoneEmptyLine
         /\ len = 2 /\ At(1) = "cr" /\ At(2) = "lf" => LoneEmptyLine
         /\ LoneEmptyLine => len <= 2
<1> DEFINE s == SubSeq(sent.bytes, 1, len)
<1>1. /\ sent.bytes \in Seq(Bytes) /\ len \in Nat /\ len <= Len(sent.bytes)
      /\ Len(sent.bytes) \in Nat
  BY DEF Types, MessageType
<1>2. /\ s \in Seq(Bytes) /\ Len(s) = len
      /\ \A k \in 1..len : s[k] = sent.bytes[k]
  BY <1>1
<1>3. \A k \in 1..len : s[k] = At(k)
  BY <1>1, <1>2 DEF At
<1> HIDE DEF s
<1>4. ASSUME len = 1, At(1) = "lf" PROVE s = <<"lf">>
  BY <1>2, <1>3, <1>4
<1>5. ASSUME len = 2, At(1) = "cr", At(2) = "lf" PROVE s = <<"cr", "lf">>
  BY <1>2, <1>3, <1>5
<1>6. ASSUME s \in {<<"lf">>, <<"cr", "lf">>} PROVE len <= 2
  BY <1>2, <1>6
<1> QED
  BY <1>4, <1>5, <1>6 DEF LoneEmptyLine, s

(* The call gives up: nothing is promised but that it stayed inside.       *)
LEMMA Refuse ==
  ASSUME IInv, UNCHANGED <<sent, len>>, Return(FALSE), unread' = 0, tok' \in Nat \ {0},
         p_head' \in Filled, p_head'.method = p_head.method, p_head'.path = p_head.path
  PROVE  IInv'
<1>1. /\ \A k : At(k)' = At(k)
      /\ LoneEmptyLine' <=> LoneEmptyLine
      /\ buf_end' = buf_end
  BY SameBytes
<1>2. Types' /\ Ways' /\ Loops' /\ Parsed' /\ Outcome'
  BY <1>1 DEF IInv, Types, Ways, Loops, Parsed, Outcome, Return, InToken
<1>3. StaysInside'
  BY <1>1 DEF IInv, Types, StaysInside, Return, Unasked, buf_end
<1> QED
  BY <1>2, <1>3 DEF IInv

(* Another byte: a new call begins at the first one.                       *)
LEMMA ArriveStep ==
  ASSUME IInv, Arrive
  PROVE  IInv'
<1>1. /\ pc = "idle" /\ sent' = sent /\ len' = len + 1 /\ buf' = 1
      /\ pc' = IF sent.call = "request" THEN "empty" ELSE "version"
      /\ tok' = tok /\ unread' = unread /\ p_head' = p_head /\ len + 1 <= Len(sent.bytes)
      /\ len \in Nat /\ Len(sent.bytes) \in Nat
      /\ sent.call \in {"request", "response"}
  BY DEF IInv, Types, MessageType, Arrive, locals, Entry
<1>2. Types'
  BY <1>1 DEF IInv, Types
<1>3. Ways' /\ Loops' /\ Parsed' /\ Outcome'
  BY <1>1 DEF IInv, Ways, Loops, Parsed, Outcome, LoneEmptyLine, InToken
<1>4. StaysInside'
  BY <1>1 DEF IInv, Loops, InToken, StaysInside, Unasked, buf_end
<1> QED
  BY <1>2, <1>3, <1>4 DEF IInv

(***************************************************************************)
(* The call goes on at another place, with the texts it has found: what    *)
(* has to be shown is that it stays inside, and what the loops passed over.*)
(***************************************************************************)
LEMMA GoOn ==
  ASSUME IInv, UNCHANGED <<sent, len>>, p_head' \in Filled, p_head'.method = p_head.method,
         p_head'.path = p_head.path, p_head'.name = p_head.name, NEW to \in Places \ {"idle", "trim"},
         NEW b \in Nat, Goto(to, b), b >= buf,
         tok' \in Nat \ {0}, unread' \in Nat,
         Ways', Loops', StaysInside',
         sent.call = "request" =>
           /\ to \in BeforePath \cup BeforeVersion \cup AtVersion \cup AtName \cup AtValue => MethodRead
           /\ to \in BeforeVersion \cup AtVersion \cup AtName \cup AtValue => PathRead
           /\ to \in AtVersion \cup AtName \cup AtValue => NoneEmpty,
         to \in AtValue => NameRead
  PROVE  IInv'
<1>1. /\ \A k : At(k)' = At(k)
      /\ pc' = to /\ buf' = b /\ sent' = sent
      /\ buf \in Nat /\ p_head \in Filled
  BY SameBytes DEF Goto, IInv, Types
<1>2. Types'
  BY <1>1 DEF IInv, Types
<1>3. /\ \A x \in Text : To(x) \in Nat
      /\ p_head.method \in Text /\ p_head.path \in Text /\ p_head.name \in Text
  BY <1>1 DEF Text, To, Filled
<1>4. /\ MethodRead => MethodRead'
      /\ PathRead => PathRead'
      /\ NameRead => NameRead'
      /\ NoneEmpty => NoneEmpty'
  BY <1>1, <1>3 DEF MethodRead, PathRead, NameRead, NoneEmpty, IsToken, IsPath, From, To, Free
<1>5. Parsed' /\ Outcome'
  BY <1>1, <1>4 DEF Parsed, Outcome
<1> QED
  BY <1>2, <1>5 DEF IInv

(* The facts every step inside a call starts from.                         *)
Start ==
  /\ IInv /\ UNCHANGED <<sent, len>>
  /\ \A k : At(k)' = At(k)
  /\ LoneEmptyLine' <=> LoneEmptyLine
  /\ len \in Nat /\ tok \in Nat \ {0} /\ buf \in Nat \ {0} /\ unread \in Nat
  /\ At(buf) \in Bytes /\ p_head \in Filled /\ sent.call \in {"request", "response"}

(* The facts every step of the parser begins from.                         *)
LEMMA Starts ==
  ASSUME IInv, UNCHANGED <<sent, len>>
  PROVE  Start
  BY SameBytes, AtBytes DEF Start, IInv, Types, MessageType

(* Skipping an empty line in front of the request line.                    *)
LEMMA EmptyStep ==
  ASSUME IInv, SkipEmptyLine
  PROVE  IInv'
<1> USE DEF SkipEmptyLine
<1>0. Start
  BY Starts
<1>1. buf = 1 /\ sent.call = "request" /\ unread = 0 /\ pc = "empty" /\ tok' \in Nat \ {0}
  BY <1>0 DEF Start, IInv, Loops, Ways, InToken
<1>2. CASE buf = buf_end
  <2>1. Return(FALSE) /\ p_head' = p_head /\ unread' = unread
    BY <1>2
  <2> QED
    BY <1>0, <1>1, <2>1, Refuse DEF Start
<1>3. CASE buf # buf_end
  <2>1. len >= 1
    BY <1>0, <1>1, <1>3 DEF Start, buf_end
  <2>2. CASE At(buf) = "cr"
    <3>1. Goto("lf_method", buf + 1)
      BY <1>3, <2>2
    <3>2. Ways' /\ Loops' /\ StaysInside'
      BY <1>0, <1>1, <2>1, <2>2, <3>1
      DEF Start, IInv, Ways, Loops, StaysInside, InToken, buf_end, Unasked, Goto
    <3> QED
      BY <1>0, <1>1, <3>1, <3>2, GoOn DEF Start
  <2>3. CASE At(buf) = "lf"
    <3>1. Goto("method", buf + 1) /\ tok' = buf + 1
      BY <1>3, <2>3
    <3>2. LoneEmptyLine \/ len > 1
      BY <1>0, <1>1, <2>1, <2>3, EmptyLine DEF Start, IInv
    <3>3. Ways' /\ Loops' /\ StaysInside'
      BY <1>0, <1>1, <2>1, <2>3, <3>1, <3>2
      DEF Start, IInv, Ways, Loops, StaysInside, InToken, buf_end, Unasked, Goto, Free
    <3> QED
      BY <1>0, <1>1, <3>1, <3>3, GoOn DEF Start
  <2>4. CASE At(buf) \notin {"cr", "lf"}
    <3>1. Goto("method", buf) /\ tok' = buf
      BY <1>3, <2>4
    <3>2. Ways' /\ Loops' /\ StaysInside'
      BY <1>0, <1>1, <2>1, <2>4, <3>1
      DEF Start, IInv, Ways, Loops, StaysInside, InToken, buf_end, Unasked, Goto, Free
    <3> QED
      BY <1>0, <1>1, <3>1, <3>2, GoOn DEF Start
  <2> QED
    BY <2>2, <2>3, <2>4
<1> QED
  BY <1>2, <1>3

(* The line feed that must follow a carriage return.                       *)
LEMMA ExpectLFStep ==
  ASSUME IInv, ExpectLF
  PROVE  IInv'
<1> USE DEF ExpectLF
<1>0. Start
  BY Starts
<1>1. unread = 0 /\ tok' = buf + 1 /\ sent.call = "request"
  BY <1>0 DEF Start, IInv, Loops, Ways, InToken
<1>2. CASE buf = buf_end \/ At(buf) # "lf"
  <2>1. Return(FALSE) /\ p_head' = p_head /\ unread' = unread
    BY <1>2
  <2> QED
    BY <1>0, <1>1, <2>1, Refuse DEF Start
<1>3. CASE ~(buf = buf_end \/ At(buf) # "lf") /\ pc = "lf_method"
  <2>1. Goto("method", buf + 1) /\ buf = 2 /\ len >= 1 /\ At(1) = "cr" /\ At(2) = "lf"
    BY <1>3 DEF IInv, Loops
  <2>2. LoneEmptyLine \/ len > 2
    BY <1>0, <1>1, <1>3, <2>1, EmptyLine DEF Start, IInv, buf_end
  <2>3. Ways' /\ Loops' /\ StaysInside'
    BY <1>0, <1>1, <2>1, <2>2
    DEF Start, IInv, Ways, Loops, StaysInside, InToken, buf_end, Unasked, Goto, Free
  <2> QED
    BY <1>0, <1>1, <2>1, <2>3, GoOn DEF Start
<1>4. CASE ~(buf = buf_end \/ At(buf) # "lf") /\ pc = "lf_header"
  <2>1. Goto("header", buf + 1) /\ ~LoneEmptyLine
    BY <1>4 DEF IInv, Ways
  <2>2. Ways' /\ Loops' /\ StaysInside'
    BY <1>0, <1>1, <1>4, <2>1
    DEF Start, IInv, Ways, Loops, StaysInside, InToken, buf_end, Unasked, Goto
  <2> QED
    BY <1>0, <1>1, <1>4, <2>1, <2>2, GoOn DEF Start, IInv, Parsed
<1> QED
  BY <1>2, <1>3, <1>4

(* Where the next byte is looked for the end first, the call may give up.  *)
LEMMA AdvanceStep ==
  ASSUME NEW to, Advance(to)
  PROVE  Return(FALSE) \/ (buf + 1 # buf_end /\ Goto(to, buf + 1))
  BY DEF Advance

(* One byte of the method.                                                 *)
LEMMA MethodStep ==
  ASSUME IInv, ParseMethod
  PROVE  IInv'
<1> USE DEF ParseMethod
<1>0. Start
  BY Starts
<1>1. /\ unread = 0 /\ sent.call = "request" /\ tok <= buf /\ pc = "method"
      /\ Free(tok, buf, Bytes \ TokenChars)
      /\ tok' = tok /\ unread' = unread
  BY <1>0 DEF Start, IInv, Loops, Ways, InToken
<1>2. CASE At(buf) = "sp"
  <2>1. Put("method", <<tok, buf - tok>>) /\ Advance("sp_path")
    BY <1>2 DEF TokenChars, Digits
  <2>2. PICK n \in Nat : n = buf - tok
    BY <1>0, <1>1 DEF Start
  <2>3. /\ p_head' \in Filled /\ p_head'.method[1] = tok /\ p_head'.method[2] = n
        /\ p_head'.name = p_head.name /\ p_head'.path = p_head.path
        /\ p_head'.value = p_head.value
    BY <1>0, <2>1, <2>2, PutText DEF Start
  <2>4. Types' /\ Ways' /\ Loops' /\ StaysInside' /\ Outcome'
    BY <1>0, <1>1, <2>1, <2>3
    DEF Start, IInv, Types, Ways, Loops, InToken, StaysInside, Unasked, buf_end, Outcome,
        Advance, Return, Goto
  <2>5. Parsed'
    BY <1>0, <1>1, <1>2, <2>1, <2>2, <2>3
    DEF Start, Parsed, Advance, Return, Goto, Free, IsToken, From, To, MethodRead
  <2> QED
    BY <2>4, <2>5 DEF IInv
<1>3. CASE At(buf) \in TokenChars
  <2>1. Advance("method") /\ p_head' = p_head
    BY <1>3 DEF TokenChars, Digits
  <2>2. CASE Return(FALSE)
    BY <1>0, <1>1, <2>1, <2>2, Refuse DEF Start
  <2>3. CASE buf + 1 # buf_end /\ Goto("method", buf + 1)
    <3>1. Ways' /\ Loops' /\ StaysInside'
      BY <1>0, <1>1, <1>3, <2>3
      DEF Start, IInv, Ways, Loops, StaysInside, InToken, buf_end, Unasked, Goto, Free
    <3> QED
      BY <1>0, <1>1, <2>1, <2>3, <3>1, GoOn DEF Start
  <2> QED
    BY <2>1, <2>2, <2>3, AdvanceStep
<1>4. CASE At(buf) \notin TokenChars \cup {"sp"}
  <2>1. Return(FALSE) /\ p_head' = p_head
    BY <1>4
  <2> QED
    BY <1>0, <1>1, <2>1, Refuse DEF Start
<1> QED
  BY <1>2, <1>3, <1>4

(* Spaces in front of the path.                                            *)
LEMMA ToPathStep ==
  ASSUME IInv, SkipToPath
  PROVE  IInv'
<1> USE DEF SkipToPath
<1>0. Start
  BY Starts
<1>1. /\ unread = 0 /\ sent.call = "request" /\ pc = "sp_path" /\ MethodRead
      /\ tok' = buf /\ unread' = unread /\ p_head' = p_head
  BY <1>0 DEF Start, IInv, Loops, Ways, Parsed, InToken
<1>2. CASE Return(FALSE)
  BY <1>0, <1>1, <1>2, Refuse DEF Start
<1>3. CASE buf + 1 # buf_end /\ Goto("sp_path", buf + 1)
  <2>1. Ways' /\ Loops' /\ StaysInside'
    BY <1>0, <1>1, <1>3
    DEF Start, IInv, Ways, Loops, StaysInside, InToken, buf_end, Unasked, Goto
  <2> QED
    BY <1>0, <1>1, <1>3, <2>1, GoOn DEF Start
<1>4. CASE Goto("path", buf)
  <2>1. Ways' /\ Loops' /\ StaysInside'
    BY <1>0, <1>1, <1>4
    DEF Start, IInv, Ways, Loops, StaysInside, InToken, buf_end, Unasked, Goto, Free
  <2> QED
    BY <1>0, <1>1, <1>4, <2>1, GoOn DEF Start
<1> QED
  BY <1>2, <1>3, <1>4, AdvanceStep

(* One byte of the path.                                                   *)
LEMMA PathStep ==
  ASSUME IInv, ParsePath
  PROVE  IInv'
<1> USE DEF ParsePath
<1>0. Start
  BY Starts
<1>1. /\ unread = 0 /\ sent.call = "request" /\ tok <= buf /\ pc = "path" /\ MethodRead
      /\ Free(tok, buf, Controls \cup {"sp"})
      /\ tok' = tok /\ unread' = unread
  BY <1>0 DEF Start, IInv, Loops, Ways, Parsed, InToken
<1>2. CASE At(buf) = "sp"
  <2>1. Put("path", <<tok, buf - tok>>) /\ Advance("sp_version")
    BY <1>2 DEF Controls
  <2>2. PICK n \in Nat : n = buf - tok
    BY <1>0, <1>1 DEF Start
  <2>3. /\ p_head' \in Filled /\ p_head'.path[1] = tok /\ p_head'.path[2] = n
        /\ p_head'.name = p_head.name /\ p_head'.method = p_head.method
        /\ p_head'.value = p_head.value
    BY <1>0, <2>1, <2>2, PutText DEF Start
  <2>4. Types' /\ Ways' /\ Loops' /\ StaysInside' /\ Outcome'
    BY <1>0, <1>1, <2>1, <2>3
    DEF Start, IInv, Types, Ways, Loops, InToken, StaysInside, Unasked, buf_end, Outcome,
        Advance, Return, Goto
  <2>5. p_head.method[1] \in Nat /\ p_head.method[2] \in Nat
    BY <1>0 DEF Start, Filled, Text
  <2>6. Parsed'
    BY <1>0, <1>1, <1>2, <2>1, <2>2, <2>3, <2>5
    DEF Start, Parsed, Advance, Return, Goto, Free, IsToken, IsPath, From, To, MethodRead, PathRead
  <2> QED
    BY <2>4, <2>6 DEF IInv
<1>3. CASE At(buf) \in Controls
  <2>1. Return(FALSE) /\ p_head' = p_head
    BY <1>3 DEF Controls
  <2> QED
    BY <1>0, <1>1, <2>1, Refuse DEF Start
<1>4. CASE At(buf) \notin Controls \cup {"sp"}
  <2>1. Advance("path") /\ p_head' = p_head
    BY <1>4
  <2>2. CASE Return(FALSE)
    BY <1>0, <1>1, <2>1, <2>2, Refuse DEF Start
  <2>3. CASE buf + 1 # buf_end /\ Goto("path", buf + 1)
    <3>1. Ways' /\ Loops' /\ StaysInside'
      BY <1>0, <1>1, <1>4, <2>3
      DEF Start, IInv, Ways, Loops, StaysInside, InToken, buf_end, Unasked, Goto, Free
    <3> QED
      BY <1>0, <1>1, <2>1, <2>3, <3>1, GoOn DEF Start
  <2> QED
    BY <2>1, <2>2, <2>3, AdvanceStep
<1> QED
  BY <1>2, <1>3, <1>4

(* Spaces in front of the version; a method and a path have been read.     *)
LEMMA ToVersionStep ==
  ASSUME IInv, SkipToVersion
  PROVE  IInv'
<1> USE DEF SkipToVersion, locals
<1>0. Start
  BY Starts
<1>1. /\ unread = 0 /\ sent.call = "request" /\ pc = "sp_version" /\ MethodRead /\ PathRead
      /\ tok' = tok /\ unread' = unread /\ p_head' = p_head
  BY <1>0 DEF Start, IInv, Loops, Ways, Parsed, InToken
<1>2. CASE Return(FALSE)
  BY <1>0, <1>1, <1>2, Refuse DEF Start
<1>3. CASE buf + 1 # buf_end /\ Goto("sp_version", buf + 1)
  <2>1. Ways' /\ Loops' /\ StaysInside'
    BY <1>0, <1>1, <1>3
    DEF Start, IInv, Ways, Loops, StaysInside, InToken, buf_end, Unasked, Goto
  <2> QED
    BY <1>0, <1>1, <1>3, <2>1, GoOn DEF Start
<1>4. CASE Goto("version", buf) /\ 0 \notin {p_head.method[2], p_head.path[2]}
  <2>1. Ways' /\ Loops' /\ StaysInside'
    BY <1>0, <1>1, <1>4
    DEF Start, IInv, Ways, Loops, StaysInside, InToken, buf_end, Unasked, Goto
  <2>2. NoneEmpty
    BY <1>0, <1>4 DEF Start, Filled, Text, NoneEmpty
  <2> QED
    BY <1>0, <1>1, <1>4, <2>1, <2>2, GoOn DEF Start
<1>5. \/ Advance("sp_version") \/ Return(FALSE)
      \/ Goto("version", buf) /\ 0 \notin {p_head.method[2], p_head.path[2]}
  OBVIOUS
<1> QED
  BY <1>2, <1>3, <1>4, <1>5, AdvanceStep

(* The end of the request line.                                            *)
LEMMA RequestLineStep ==
  ASSUME IInv, EndOfRequestLine
  PROVE  IInv'
<1> USE DEF EndOfRequestLine, locals
<1>0. Start
  BY Starts
<1>1. /\ unread = 0 /\ sent.call = "request" /\ pc = "version_end" /\ ~LoneEmptyLine
      /\ MethodRead /\ PathRead /\ NoneEmpty
      /\ tok' = tok /\ unread' = unread /\ p_head' = p_head
  BY <1>0 DEF Start, IInv, Loops, Ways, Parsed, InToken
<1>2. CASE Return(FALSE)
  BY <1>0, <1>1, <1>2, Refuse DEF Start
<1>3. ASSUME NEW to \in {"lf_header", "header"}, Goto(to, buf + 1) PROVE IInv'
  <2>1. Ways' /\ Loops' /\ StaysInside'
    BY <1>0, <1>1, <1>3
    DEF Start, IInv, Ways, Loops, StaysInside, InToken, buf_end, Unasked, Goto
  <2> QED
    BY <1>0, <1>1, <1>3, <2>1, GoOn DEF Start
<1>4. \/ Goto("lf_header", buf + 1) \/ Goto("header", buf + 1) \/ Return(FALSE)
  OBVIOUS
<1> QED
  BY <1>2, <1>3, <1>4

(* HTTP/1. and a digit: eight bytes, with one more behind them.            *)
LEMMA VersionStep ==
  ASSUME IInv, parse_http_version
  PROVE  IInv'
<1> USE DEF parse_http_version
<1>0. Start
  BY Starts
<1>1. /\ unread = 0 /\ pc = "version" /\ tok' = tok /\ unread' = unread
      /\ sent.call = "request" => MethodRead /\ PathRead /\ NoneEmpty
  BY <1>0 DEF Start, IInv, Loops, Parsed, InToken
<1>2. CASE Return(FALSE) /\ p_head' = p_head
  BY <1>0, <1>1, <1>2, Refuse DEF Start
<1>3. ASSUME buf_end - buf >= 9, At(buf + 7) \in Digits, Put("version", Value(At(buf + 7))),
             NEW to \in {"version_end", "version_sp"}, Goto(to, buf + 8),
             to = "version_end" <=> sent.call = "request"
      PROVE  IInv'
  <2>1. ~LoneEmptyLine
    BY <1>0, <1>3, EmptyLine DEF Start, IInv, buf_end, LoneEmptyLine
  <2>2. /\ p_head' \in Filled /\ p_head'.method = p_head.method
        /\ p_head'.path = p_head.path /\ p_head'.name = p_head.name
    <3>1. Value(At(buf + 7)) \in 0..2
      BY <1>3 DEF Digits, Value
    <3> QED
      BY <1>0, <1>3, <3>1 DEF Start, Filled, Put
  <2>3. Ways' /\ Loops' /\ StaysInside'
    BY <1>0, <1>1, <1>3, <2>1, <2>2
    DEF Start, IInv, Ways, Loops, StaysInside, InToken, buf_end, Unasked, Goto
  <2> QED
    BY <1>0, <1>1, <1>3, <2>2, <2>3, GoOn DEF Start
<1> DEFINE Bad == \/ buf_end - buf < 9
                  \/ \E i \in 1..7 : At(buf + i - 1) # Literal[i]
                  \/ At(buf + 7) \notin Digits
<1>4. CASE Bad
  BY <1>2, <1>4
<1>5. CASE ~Bad
  <2>1. buf_end - buf >= 9
    BY <1>0, <1>5 DEF Start, buf_end
  <2>2. Put("version", Value(At(buf + 7))) /\ At(buf + 7) \in Digits
    BY <1>5
  <2>3. CASE sent.call = "request"
    <3>1. Goto("version_end", buf + 8)
      BY <1>5, <2>3
    <3> QED
      BY <1>3, <2>1, <2>2, <2>3, <3>1
  <2>4. CASE sent.call # "request"
    <3>1. Goto("version_sp", buf + 8)
      BY <1>5, <2>4
    <3> QED
      BY <1>3, <2>1, <2>2, <2>4, <3>1
  <2> QED
    BY <2>3, <2>4
<1> QED
  BY <1>4, <1>5

(* The spaces in front of the status code, one at least.                   *)
LEMMA ToStatusStep ==
  ASSUME IInv, RequireSpace \/ SkipToStatus
  PROVE  IInv'
<1> USE DEF RequireSpace, SkipToStatus, locals
<1>0. Start
  BY Starts
<1>1. /\ unread = 0 /\ sent.call = "response" /\ ~LoneEmptyLine
      /\ pc \in {"version_sp", "sp_status"}
      /\ tok' = tok /\ unread' = unread /\ p_head' = p_head
  BY <1>0 DEF Start, IInv, Loops, Ways, InToken
<1>2. CASE Return(FALSE)
  BY <1>0, <1>1, <1>2, Refuse DEF Start
<1>3. CASE buf + 1 # buf_end /\ Goto("sp_status", buf + 1)
  <2>1. Ways' /\ Loops' /\ StaysInside'
    BY <1>0, <1>1, <1>3
    DEF Start, IInv, Ways, Loops, StaysInside, InToken, buf_end, Unasked, Goto
  <2> QED
    BY <1>0, <1>1, <1>3, <2>1, GoOn DEF Start
<1>4. CASE Goto("status", buf)
  <2>1. Ways' /\ Loops' /\ StaysInside'
    BY <1>0, <1>1, <1>4
    DEF Start, IInv, Ways, Loops, StaysInside, InToken, buf_end, Unasked, Goto
  <2> QED
    BY <1>0, <1>1, <1>4, <2>1, GoOn DEF Start
<1> QED
  BY <1>2, <1>3, <1>4, AdvanceStep

(* Three digits, with a byte behind them.                                  *)
LEMMA StatusStep ==
  ASSUME IInv, ParseStatus
  PROVE  IInv'
<1> USE DEF ParseStatus
<1>0. Start
  BY Starts
<1>1. /\ unread = 0 /\ pc = "status" /\ tok' = buf + 3 /\ unread' = unread
      /\ sent.call = "response" /\ ~LoneEmptyLine
  BY <1>0 DEF Start, IInv, Loops, Ways, InToken
<1>2. CASE Return(FALSE) /\ p_head' = p_head
  BY <1>0, <1>1, <1>2, Refuse DEF Start
<1>3. ASSUME buf_end - buf >= 4, \A i \in 0..2 : At(buf + i) \in Digits,
             Put("res_code", 100 * Value(At(buf)) + 10 * Value(At(buf + 1)) + Value(At(buf + 2))),
             Goto("reason", buf + 3)
      PROVE  IInv'
  <2>1. /\ p_head' \in Filled /\ p_head'.method = p_head.method
        /\ p_head'.path = p_head.path /\ p_head'.name = p_head.name
    <3>1. At(buf + 0) \in Digits /\ At(buf + 1) \in Digits /\ At(buf + 2) \in Digits
      BY <1>3
    <3>2. \A d \in Digits : Value(d) \in 0..2
      BY DEF Digits, Value
    <3>3. 100 * Value(At(buf)) + 10 * Value(At(buf + 1)) + Value(At(buf + 2)) \in 0..222
      BY <1>0, <3>1, <3>2 DEF Start
    <3> QED
      BY <1>0, <1>3, <3>3 DEF Start, Filled, Put
  <2>2. Ways' /\ Loops' /\ StaysInside'
    BY <1>0, <1>1, <1>3, <2>1
    DEF Start, IInv, Ways, Loops, StaysInside, InToken, buf_end, Unasked, Goto, Free
  <2> QED
    BY <1>0, <1>1, <1>3, <2>1, <2>2, GoOn DEF Start
<1> DEFINE Bad == buf_end - buf < 4 \/ \E i \in 0..2 : At(buf + i) \notin Digits
<1>4. CASE Bad
  BY <1>2, <1>4
<1>5. CASE ~Bad
  <2>1. buf_end - buf >= 4
    BY <1>0, <1>5 DEF Start, buf_end
  <2> QED
    BY <1>3, <1>5, <2>1
<1> QED
  BY <1>4, <1>5

(* What follows the status code.                                           *)
LEMMA MessageStep ==
  ASSUME IInv, CheckMessage
  PROVE  IInv'
<1> USE DEF CheckMessage, locals
<1>0. Start
  BY Starts
<1>1. /\ unread = 0 /\ pc = "message" /\ tok' = tok /\ unread' = unread /\ p_head' = p_head
      /\ sent.call = "response" /\ ~LoneEmptyLine
  BY <1>0 DEF Start, IInv, Loops, Ways, InToken
<1>2. Goto("header", buf)
  <2>1. p_head.msg = <<0, 0>>
    BY <1>0 DEF Start, Filled
  <2> QED
    BY <2>1 DEF msg_len
<1>3. Ways' /\ Loops' /\ StaysInside'
  BY <1>0, <1>1, <1>2
  DEF Start, IInv, Ways, Loops, StaysInside, InToken, buf_end, Unasked, Goto
<1> QED
  BY <1>0, <1>1, <1>2, <1>3, GoOn DEF Start

(* What a place in the header knows of the first line.                     *)
FirstLine == sent.call = "request" => MethodRead /\ PathRead /\ NoneEmpty

(* The first byte of a header line.                                        *)
LEMMA HeaderStep ==
  ASSUME IInv, StartHeader
  PROVE  IInv'
<1> USE DEF StartHeader
<1>0. Start
  BY Starts
<1>1. /\ unread = 0 /\ pc = "header" /\ tok' = buf /\ unread' = unread
      /\ ~LoneEmptyLine /\ FirstLine
  BY <1>0 DEF Start, IInv, Loops, Ways, Parsed, InToken, FirstLine
<1>2. CASE buf = buf_end \/ At(buf) \in {"cr", "lf"}
  BY <1>0, <1>1, <1>2, Refuse DEF Start
<1>3. CASE buf # buf_end /\ At(buf) \in {"sp", "tab"}
  <2>1. Put("name", <<0, 0>>) /\ Goto("value", buf)
    BY <1>3
  <2>2. /\ p_head' \in Filled /\ p_head'.method = p_head.method
        /\ p_head'.path = p_head.path /\ p_head'.name = <<0, 0>>
    <3>1. <<0, 0>> \in Text
      BY DEF Text
    <3> QED
      BY <1>0, <2>1, <3>1 DEF Start, Filled, Put
  <2>3. Types' /\ Ways' /\ Loops' /\ StaysInside' /\ Outcome'
    BY <1>0, <1>1, <1>3, <2>1, <2>2
    DEF Start, IInv, Types, Ways, Loops, StaysInside, InToken, buf_end, Unasked, Outcome, Goto, Free
  <2>4. Parsed'
    BY <1>0, <1>1, <2>1, <2>2
    DEF Start, FirstLine, Parsed, Goto, MethodRead, PathRead, NoneEmpty, NameRead, IsToken,
        IsPath, From, To, Free
  <2> QED
    BY <2>3, <2>4 DEF IInv
<1>4. CASE buf # buf_end /\ At(buf) \notin {"cr", "lf", "sp", "tab"}
  <2>1. Goto("name", buf) /\ p_head' = p_head
    BY <1>4
  <2>2. Ways' /\ Loops' /\ StaysInside'
    BY <1>0, <1>1, <1>4, <2>1
    DEF Start, IInv, Ways, Loops, StaysInside, InToken, buf_end, Unasked, Goto, Free
  <2> QED
    BY <1>0, <1>1, <2>1, <2>2, GoOn DEF Start, FirstLine
<1> QED
  BY <1>2, <1>3, <1>4

(* One byte of the name of a header.                                       *)
LEMMA NameStep ==
  ASSUME IInv, ParseName
  PROVE  IInv'
<1> USE DEF ParseName
<1>0. Start
  BY Starts
<1>1. /\ unread = 0 /\ pc = "name" /\ tok' = tok /\ unread' = unread /\ tok <= buf
      /\ Free(tok, buf, Bytes \ TokenChars) /\ ~LoneEmptyLine /\ FirstLine
  BY <1>0 DEF Start, IInv, Loops, Ways, Parsed, InToken, FirstLine
<1>2. CASE At(buf) = "colon"
  <2>1. PICK n \in Nat : n = buf - tok
    BY <1>0, <1>1 DEF Start
  <2>2. /\ p_head' \in Filled /\ p_head'.name[1] = tok /\ p_head'.name[2] = n
        /\ p_head'.method = p_head.method /\ p_head'.path = p_head.path
    BY <1>0, <1>2, <2>1, PutText DEF Start
  <2>3. CASE buf = tok
    BY <1>0, <1>1, <1>2, <2>2, <2>3, Refuse DEF Start
  <2>4. CASE buf # tok
    <3>1. Goto("sp_value", buf + 1)
      BY <1>2, <2>4
    <3>2. Types' /\ Ways' /\ Loops' /\ StaysInside' /\ Outcome'
      BY <1>0, <1>1, <2>2, <3>1
      DEF Start, IInv, Types, Ways, Loops, StaysInside, InToken, buf_end, Unasked, Outcome, Goto
    <3>3. NameRead'
      BY <1>0, <1>1, <1>2, <2>1, <2>2, <2>4, <3>1
      DEF Start, Goto, NameRead, IsToken, From, To, Free
    <3>4. /\ p_head.method[1] \in Nat /\ p_head.method[2] \in Nat
          /\ p_head.path[1] \in Nat /\ p_head.path[2] \in Nat
      BY <1>0 DEF Start, Filled, Text
    <3>5. Parsed'
      BY <1>0, <1>1, <2>2, <3>1, <3>3, <3>4
      DEF Start, FirstLine, Parsed, Goto, MethodRead, PathRead, NoneEmpty, IsToken, IsPath,
          From, To, Free
    <3> QED
      BY <3>2, <3>5 DEF IInv
  <2> QED
    BY <2>3, <2>4
<1>3. CASE At(buf) # "colon" /\ Return(FALSE)
  BY <1>0, <1>1, <1>3, Refuse DEF Start
<1>4. CASE At(buf) \in TokenChars /\ At(buf) # "colon" /\ buf + 1 # buf_end /\ Goto("name", buf + 1)
  <2>1. Ways' /\ Loops' /\ StaysInside'
    BY <1>0, <1>1, <1>4
    DEF Start, IInv, Ways, Loops, StaysInside, InToken, buf_end, Unasked, Goto, Free
  <2> QED
    BY <1>0, <1>1, <1>4, <2>1, GoOn DEF Start, FirstLine
<1> QED
  BY <1>2, <1>3, <1>4, AdvanceStep

(* Blanks in front of the value.                                           *)
LEMMA ToValueStep ==
  ASSUME IInv, SkipToValue
  PROVE  IInv'
<1> USE DEF SkipToValue
<1>0. Start
  BY Starts
<1>1. /\ unread = 0 /\ pc = "sp_value" /\ tok' = buf /\ unread' = unread /\ p_head' = p_head
      /\ ~LoneEmptyLine /\ FirstLine /\ NameRead
  BY <1>0 DEF Start, IInv, Loops, Ways, Parsed, InToken, FirstLine
<1>2. \/ Return(FALSE)
      \/ buf # buf_end /\ Goto("sp_value", buf + 1)
      \/ buf # buf_end /\ Goto("value", buf)
  OBVIOUS
<1>3. CASE Return(FALSE)
  BY <1>0, <1>1, <1>3, Refuse DEF Start
<1>4. ASSUME NEW to \in {"sp_value", "value"}, NEW b \in {buf, buf + 1}, buf # buf_end,
             Goto(to, b), to = "value" => b = buf
      PROVE  IInv'
  <2>1. Ways' /\ Loops' /\ StaysInside'
    BY <1>0, <1>1, <1>4
    DEF Start, IInv, Ways, Loops, StaysInside, InToken, buf_end, Unasked, Goto, Free
  <2>2. b \in Nat /\ b >= buf
    BY <1>0 DEF Start
  <2> QED
    BY <1>0, <1>1, <1>4, <2>1, <2>2, GoOn DEF Start, FirstLine
<1> QED
  BY <1>2, <1>3, <1>4

-----------------------------------------------------------------------------
(* What get_token_to_eol knows, for a value and for a reason alike.        *)
LEMMA InTokenFacts ==
  ASSUME IInv, InToken
  PROVE  /\ ~LoneEmptyLine /\ tok <= buf /\ Free(tok, buf, Controls \ {"tab"})
         /\ buf + unread <= buf_end /\ FirstLine
         /\ pc = "value" => NameRead
         /\ pc = "reason" => sent.call = "response"
  BY DEF IInv, Types, MessageType, Loops, Ways, StaysInside, Parsed, InToken, FirstLine

(* A row of which u bytes are left after one of n.                         *)
LEMMA RowArith ==
  ASSUME NEW b \in Nat, NEW n \in Nat, NEW l \in Nat, NEW u \in Nat, b + n <= l + 1, u + 1 <= n
  PROVE  b + 1 <= l + 1 /\ (b + 1) + u <= l + 1
  OBVIOUS

(* A row of bytes that is read without asking for the end.                 *)
LEMMA RowStep ==
  ASSUME IInv, BeginRow \/ RowByte
  PROVE  IInv'
<1>0. Start /\ InToken
  BY Starts DEF BeginRow, RowByte
<1>1. CASE BeginRow
  <2>1. /\ unread' = Unroll /\ Unroll \in Nat /\ buf_end - buf >= Unroll
        /\ tok' = tok /\ buf' = buf /\ pc' = pc /\ p_head' = p_head
    BY <1>1, HttpPeekAssumption DEF BeginRow
  <2>2. Types' /\ Ways' /\ Loops' /\ StaysInside' /\ Outcome'
    BY <1>0, <2>1, InTokenFacts
    DEF Start, IInv, Types, Ways, Loops, StaysInside, InToken, buf_end, Unasked, Outcome, Free
  <2>3. Parsed'
    BY <1>0, <2>1
    DEF Start, IInv, Parsed, InToken, MethodRead, PathRead, NoneEmpty, NameRead, IsToken, IsPath,
        From, To, Free
  <2> QED
    BY <2>2, <2>3 DEF IInv
<1>2. CASE RowByte
  <2>1. /\ Goto(pc, buf + 1) /\ tok' = tok /\ p_head' = p_head /\ unread > 0
        /\ unread' \in Nat /\ unread' <= unread - 1 /\ ~EndsToken(At(buf))
    BY <1>0, <1>2 DEF RowByte, Start
  <2>2. Ways' /\ Loops'
    BY <1>0, <2>1, InTokenFacts DEF Start, IInv, Ways, Loops, InToken, Goto, Free, EndsToken
  <2>3. StaysInside'
    <3>1. buf + unread <= len + 1
      BY <1>0, InTokenFacts DEF buf_end
    <3>2. buf' = buf + 1 /\ pc' = pc /\ len' = len /\ pc \notin Unasked
      BY <1>0, <2>1 DEF Start, InToken, Unasked, Goto
    <3>3. buf' <= len' + 1 /\ buf' + unread' <= len' + 1
      <4>1. buf \in Nat /\ unread \in Nat /\ len \in Nat
        BY <1>0 DEF Start
      <4>2. PICK u \in Nat : u = unread' /\ u + 1 <= unread
        BY <2>1, <4>1
      <4>3. buf + 1 <= len + 1 /\ (buf + 1) + u <= len + 1
        BY <3>1, <4>1, <4>2, RowArith
      <4> QED
        BY <3>2, <4>2, <4>3
    <3> QED
      BY <3>2, <3>3 DEF StaysInside, buf_end
  <2> QED
    BY <1>0, <2>1, <2>2, <2>3, InTokenFacts, GoOn DEF Start, InToken, FirstLine
<1> QED
  BY <1>1, <1>2

(* The bytes behind the last whole row.                                    *)
LEMMA LastStep ==
  ASSUME IInv, LastByte
  PROVE  IInv'
<1>0. Start /\ InToken
  BY Starts DEF LastByte
<1>1. tok' = tok /\ p_head' = p_head /\ unread = 0 /\ unread' = 0
  BY DEF LastByte, locals
<1>2. CASE Return(FALSE)
  BY <1>0, <1>1, <1>2, Refuse DEF Start
<1>3. CASE buf # buf_end /\ ~EndsToken(At(buf)) /\ Goto(pc, buf + 1)
  <2>1. Ways' /\ Loops' /\ StaysInside'
    BY <1>0, <1>1, <1>3, InTokenFacts
    DEF Start, IInv, Ways, Loops, StaysInside, InToken, buf_end, Unasked, Goto, Free, EndsToken
  <2> QED
    BY <1>0, <1>1, <1>3, <2>1, InTokenFacts, GoOn DEF Start, InToken, FirstLine
<1> QED
  BY <1>2, <1>3 DEF LastByte

(* The token ends at e, and the line at buf or with it.                    *)
LEMMA EndStep ==
  ASSUME Start, ~LoneEmptyLine, FirstLine, pc \in {"value", "lf_value"} => NameRead,
         pc \in {"reason", "lf_reason"} => sent.call = "response",
         pc \in {"value", "lf_value", "reason", "lf_reason"},
         buf < buf_end, unread' = 0, tok' = tok,
         NEW e \in Nat, tok <= e, e <= buf, Free(tok, e, Controls \ {"tab"}), At(e) \in LineEnds,
         EndToken(e - tok)
  PROVE  IInv'
<1>0. PICK n \in Nat : n = e - tok /\ tok + n = e
  BY DEF Start
<1>1. /\ p_head' \in Filled /\ p_head'.value[1] = tok /\ p_head'.value[2] = n
      /\ p_head'.name = p_head.name /\ p_head'.method = p_head.method
      /\ p_head'.path = p_head.path
  <2>1. Put("value", <<tok, n>>)
    BY <1>0 DEF EndToken
  <2> QED
    BY <2>1, PutText DEF Start
<1>2. CASE pc \in {"reason", "lf_reason"}
  <2>1. Goto("message", buf + 1)
    BY <1>2 DEF EndToken
  <2>2. Ways' /\ Loops' /\ StaysInside'
    BY <1>1, <1>2, <2>1
    DEF Start, IInv, Ways, Loops, StaysInside, InToken, buf_end, Unasked, Goto
  <2> QED
    BY <1>1, <1>2, <2>1, <2>2, GoOn DEF Start
<1>3. CASE pc \in {"value", "lf_value"}
  <2>1. Goto("trim", buf + 1)
    BY <1>3 DEF EndToken
  <2>2. Types' /\ Ways' /\ Loops' /\ StaysInside' /\ Outcome'
    BY <1>1, <1>3, <2>1
    DEF Start, IInv, Types, Ways, Loops, StaysInside, InToken, buf_end, Unasked, Outcome, Goto
  <2>3. /\ p_head.method[1] \in Nat /\ p_head.method[2] \in Nat
        /\ p_head.path[1] \in Nat /\ p_head.path[2] \in Nat
        /\ p_head.name[1] \in Nat /\ p_head.name[2] \in Nat
    BY DEF Start, Filled, Text
  <2>4. IsLine(p_head.value)' /\ (To(p_head.value) < buf)' /\ (From(p_head.value) = tok)'
    BY <1>0, <1>1, <2>1 DEF Start, IsLine, From, To, Free, Goto
  <2>5. NameRead'
    BY <1>1, <1>3, <2>1, <2>3 DEF Start, NameRead, IsToken, From, To, Free, Goto
  <2>6. FirstLine'
    BY <1>1, <2>1, <2>3
    DEF Start, FirstLine, MethodRead, PathRead, NoneEmpty, IsToken, IsPath, From, To, Free, Goto
  <2> QED
    BY <2>2, <2>4, <2>5, <2>6 DEF IInv, Parsed, FirstLine
<1> QED
  BY <1>2, <1>3

(* A byte that may end the token.                                          *)
LEMMA FoundStep ==
  ASSUME IInv, FoundCtl
  PROVE  IInv'
<1> USE DEF FoundCtl
<1>0. Start /\ InToken /\ pc \in {"value", "reason"}
  BY Starts DEF InToken
<1>1. unread' = 0 /\ tok' = tok
  OBVIOUS
<1>2. buf < buf_end
  BY <1>0, InTokenFacts DEF Start, buf_end
<1>3. CASE At(buf) = "cr"
  <2>1. PICK to \in {"lf_value", "lf_reason"} :
          Goto(to, buf + 1) /\ (to = "lf_value" <=> pc = "value")
    BY <1>0, <1>3
  <2>2. p_head' = p_head
    BY <1>3
  <2>3. Ways' /\ Loops'
    BY <1>0, <1>1, <1>3, <2>1, <2>2, InTokenFacts DEF Start, IInv, Ways, Loops, InToken, Goto, Free
  <2>4. StaysInside'
    BY <1>0, <1>1, <1>2, <2>1 DEF Start, StaysInside, buf_end, Unasked, Goto
  <2> QED
    BY <1>0, <1>1, <2>1, <2>2, <2>3, <2>4, InTokenFacts, GoOn DEF Start, FirstLine
<1>4. CASE At(buf) = "lf"
  <2>1. EndToken(buf - tok)
    BY <1>4
  <2> QED
    BY <1>0, <1>1, <1>2, <1>4, <2>1, InTokenFacts, EndStep DEF Start
<1>5. CASE At(buf) \notin {"cr", "lf"}
  <2>1. Return(FALSE) /\ p_head' = p_head
    BY <1>5
  <2> QED
    BY <1>0, <1>1, <2>1, Refuse DEF Start
<1> QED
  BY <1>3, <1>4, <1>5

(* The line feed behind the token.                                         *)
LEMMA TokenLFStep ==
  ASSUME IInv, TokenLF
  PROVE  IInv'
<1> USE DEF TokenLF
<1>0. Start
  BY Starts
<1>1. /\ pc \in {"lf_value", "lf_reason"} /\ unread = 0 /\ unread' = unread /\ tok' = tok
      /\ ~LoneEmptyLine /\ FirstLine /\ tok < buf
      /\ Free(tok, buf - 1, Controls \ {"tab"}) /\ At(buf - 1) = "cr"
      /\ pc = "lf_value" => NameRead
      /\ pc = "lf_reason" => sent.call = "response"
  BY <1>0 DEF Start, IInv, Loops, Ways, Parsed, InToken, FirstLine
<1>2. CASE buf = buf_end \/ At(buf) # "lf"
  <2>1. Return(FALSE) /\ p_head' = p_head
    BY <1>2
  <2> QED
    BY <1>0, <1>1, <2>1, Refuse DEF Start
<1>3. CASE ~(buf = buf_end \/ At(buf) # "lf")
  <2>1. EndToken(buf - 1 - tok)
    BY <1>3
  <2>2. buf < buf_end
    BY <1>0, <1>1, <1>3 DEF Start, IInv, StaysInside, buf_end
  <2>3. PICK e \in Nat : e = buf - 1 /\ e >= tok /\ e <= buf
    BY <1>0, <1>1 DEF Start
  <2> QED
    BY <1>0, <1>1, <2>1, <2>2, <2>3, EndStep
<1> QED
  BY <1>2, <1>3

(* A set of numbers has a least one.                                       *)
LEMMA LeastNumber ==
  ASSUME NEW T \in SUBSET Nat, T # {}
  PROVE  \E x \in T : \A y \in T : x <= y
<1>1. PICK x \in T : \A y \in T : ~(<<y, x>> \in OpToRel(<, Nat))
  BY NatLessThanWellFounded, WFMin
<1>2. \A y \in T : ~(y < x)
  BY <1>1 DEF OpToRel
<1> QED
  BY <1>2

(* The loop that takes off trailing blanks stops where it should.          *)
LEMMA TrimmedIs ==
  ASSUME NEW n \in Nat, tok \in Nat
  PROVE  /\ Trimmed(n) \in 0..n
         /\ \A i \in Trimmed(n)..(n - 1) : At(tok + i) \in Blanks
         /\ Trimmed(n) > 0 => At(tok + Trimmed(n) - 1) \notin Blanks
<1> DEFINE T == {k \in Nat : k <= n /\ \A i \in k..(n - 1) : At(tok + i) \in {"sp", "tab"}}
<1>1. PICK k \in T : \A y \in T : k <= y
  <2>1. n \in T
    OBVIOUS
  <2> QED
    BY <2>1, LeastNumber
<1>2. k > 0 => At(tok + k - 1) \notin {"sp", "tab"}
  <2> SUFFICES ASSUME k > 0, At(tok + k - 1) \in {"sp", "tab"} PROVE k - 1 \in T
    BY <1>1
  <2>1. \A i \in (k - 1)..(n - 1) : At(tok + i) \in {"sp", "tab"}
    <3> SUFFICES ASSUME NEW i \in (k - 1)..(n - 1) PROVE At(tok + i) \in {"sp", "tab"}
      OBVIOUS
    <3>1. CASE i = k - 1
      BY <3>1
    <3>2. CASE i # k - 1
      BY <3>2
    <3> QED
      BY <3>1, <3>2
  <2> QED
    BY <2>1
<1>3. \E j \in 0..n : /\ \A i \in j..(n - 1) : At(tok + i) \in {"sp", "tab"}
                      /\ j > 0 => At(tok + j - 1) \notin {"sp", "tab"}
  BY <1>1, <1>2
<1> QED
  BY <1>3 DEF Trimmed

(* What is left of a line of m bytes when the blanks behind j are taken off.*)
LEMMA ValueIs ==
  ASSUME NEW a \in Nat, NEW b \in Nat, NEW m \in Nat, NEW j \in Nat, a >= 1, j <= m,
         Free(a, a + m, Controls \ {"tab"}), At(a + m) \in LineEnds, a + m < b,
         \A i \in j..(m - 1) : At(a + i) \in Blanks,
         j > 0 => At(a + j - 1) \notin Blanks,
         \A i : At(i)' = At(i),
         p_head'.value[1] = a, p_head'.value[2] = j, buf' = b
  PROVE  IsValue(p_head.value)'
<1>1. \A i \in a..(a + j - 1) : At(i)' \notin Controls \ {"tab"}
  BY DEF Free
<1>2. \A i \in (a + j)..(a + m - 1) : At(i)' \in Blanks
  <2> SUFFICES ASSUME NEW i \in (a + j)..(a + m - 1) PROVE At(i) \in Blanks
    OBVIOUS
  <2>1. PICK l \in j..(m - 1) : i = a + l
    <3>1. i - a \in j..(m - 1) /\ i = a + (i - a)
      OBVIOUS
    <3> QED
      BY <3>1
  <2> QED
    BY <2>1
<1>3. \E e \in (a + j)..(b - 1) :
        At(e)' \in LineEnds /\ \A i \in (a + j)..(e - 1) : At(i)' \in Blanks
  <2>1. a + m \in (a + j)..(b - 1) /\ At(a + m)' \in LineEnds
    OBVIOUS
  <2> QED
    BY <1>2, <2>1
<1>4. j > 0 => At(a + j - 1)' \notin Blanks
  OBVIOUS
<1> QED
  BY <1>1, <1>3, <1>4 DEF IsValue, From, To, Free

(* One blank less at the end of the value.                                 *)
LEMMA TrimStep ==
  ASSUME IInv, TrimValue
  PROVE  IInv'
<1> USE DEF TrimValue
<1>0. Start
  BY Starts
<1> DEFINE n == p_head.value[2]
           k == Trimmed(n)
<1>1. /\ pc = "trim" /\ unread = 0 /\ unread' = unread /\ tok' = tok
      /\ ~LoneEmptyLine /\ FirstLine /\ NameRead
      /\ p_head.value[1] = tok /\ n \in Nat
      /\ Free(tok, tok + n, Controls \ {"tab"}) /\ At(tok + n) \in LineEnds /\ tok + n < buf
      /\ buf <= buf_end
  BY <1>0
  DEF Start, IInv, Loops, Ways, Parsed, StaysInside, InToken, FirstLine, Filled, Text, IsLine, From, To
<1>2. /\ k \in Nat /\ k <= n
      /\ \A i \in k..(n - 1) : At(tok + i) \in Blanks
      /\ k > 0 => At(tok + k - 1) \notin Blanks
  BY <1>0, <1>1, TrimmedIs DEF Start
<1>3. Put("value", <<tok, k>>) /\ Return(TRUE)
  OBVIOUS
<1> HIDE DEF n, k
<1>4. /\ p_head' \in Filled /\ p_head'.value[1] = tok /\ p_head'.value[2] = k
      /\ p_head'.name = p_head.name /\ p_head'.method = p_head.method
      /\ p_head'.path = p_head.path
  BY <1>0, <1>2, <1>3, PutText DEF Start
<1>5. Types' /\ Ways' /\ Loops' /\ Parsed'
  BY <1>0, <1>1, <1>3, <1>4 DEF Start, IInv, Types, Ways, Loops, InToken, Parsed, Return
<1>6. StaysInside'
  BY <1>0, <1>1, <1>3 DEF Start, StaysInside, Unasked, buf_end, Return
<1>7. NameRead' /\ FirstLine'
  BY <1>0, <1>1, <1>3, <1>4
  DEF Start, NameRead, FirstLine, MethodRead, PathRead, NoneEmpty, IsToken, IsPath, From, To,
      Free, Return
<1>8. IsValue(p_head.value)'
  <2>1. PICK a \in Nat, b \in Nat, m \in Nat, j \in Nat : a = tok /\ b = buf /\ m = n /\ j = k
    BY <1>0, <1>1, <1>2 DEF Start
  <2>2. /\ a >= 1 /\ j <= m /\ Free(a, a + m, Controls \ {"tab"}) /\ At(a + m) \in LineEnds
        /\ a + m < b /\ \A i \in j..(m - 1) : At(a + i) \in Blanks
        /\ j > 0 => At(a + j - 1) \notin Blanks
    BY <1>0, <1>1, <1>2, <2>1 DEF Start
  <2>3. /\ \A i : At(i)' = At(i)
        /\ p_head'.value[1] = a /\ p_head'.value[2] = j /\ buf' = b
    BY <1>0, <1>3, <1>4, <2>1 DEF Start, Return
  <2> QED
    BY <2>2, <2>3, ValueIs
<1>9. Reports'
  BY <1>0, <1>1, <1>3, <1>4, <1>7, <1>8 DEF Start, IInv, Ways, Reports, FirstLine, buf_end, Return
<1> QED
  BY <1>0, <1>1, <1>5, <1>6, <1>9 DEF Start, IInv, Outcome

-----------------------------------------------------------------------------
(* Every step of the parser preserves the invariant.                       *)
LEMMA NextIInv == IInv /\ [Next]_vars => IInv'
<1> SUFFICES ASSUME IInv, [Next]_vars PROVE IInv'
  OBVIOUS
<1>1. CASE UNCHANGED vars
  <2>1. UNCHANGED <<sent, len, buf, pc, tok, unread, p_head, result>>
    BY <1>1 DEF vars
  <2> QED
    BY <2>1
    DEF IInv, Types, Ways, Loops, StaysInside, Parsed, Outcome, Reports, LoneEmptyLine, InToken,
        buf_end, MethodRead, PathRead, NameRead, NoneEmpty, IsToken, IsPath, IsLine, IsValue,
        Free, From, To, At
<1>2. CASE Arrive \/ peek_http_request
  BY <1>2, ArriveStep, EmptyStep, ExpectLFStep, MethodStep, ToPathStep, PathStep, ToVersionStep,
     RequestLineStep DEF peek_http_request
<1>3. CASE peek_http_response \/ parse_http_version
  BY <1>3, ToStatusStep, StatusStep, MessageStep, VersionStep DEF peek_http_response
<1>4. CASE parse_header \/ get_token_to_eol
  BY <1>4, HeaderStep, NameStep, ToValueStep, TrimStep, RowStep, LastStep, FoundStep, TokenLFStep
  DEF parse_header, get_token_to_eol
<1> QED
  BY <1>1, <1>2, <1>3, <1>4 DEF Next

(* Whatever the message, what the parser's loops rely on holds.            *)
THEOREM Invariance == Spec => []IInv
<1>1. Init => IInv
  BY InitIInv
<1>2. IInv /\ [Next]_vars => IInv'
  BY NextIInv
<1> QED
  BY <1>1, <1>2, PTL DEF Spec

(***************************************************************************)
(* `Returned pointer is always within [buf, buf_end), or null'             *)
(* (http_peek.c:117 and 139): for every message, wherever it is cut off,   *)
(* and every length of the unrolled row, no byte behind those of the call  *)
(* is read, unless they are a lone empty line.                             *)
(***************************************************************************)
THEOREM StaysInsideTheorem == Spec => []StaysInside
<1>1. IInv => StaysInside
  BY DEF IInv
<1> QED
  BY <1>1, Invariance, PTL

(***************************************************************************)
(* A call that returns true has found what it reports, whatever was sent:  *)
(* a method and a path for a request, a name of token characters in front  *)
(* of a colon or none, and the value up to the blanks that end its line,   *)
(* all inside the bytes of the call; p_head keeps nothing of a call before *)
(* (http_peek.c, peek_http_request, peek_http_response, parse_header).     *)
(***************************************************************************)
THEOREM ReportsTheorem == Spec => []((pc = "idle" /\ result) => Reports)
<1>1. IInv => ((pc = "idle" /\ result) => Reports)
  BY DEF IInv, Outcome
<1> QED
  BY <1>1, Invariance, PTL

-----------------------------------------------------------------------------
(* The parser against the grammar: what it has found at each place.        *)

(* All bytes from i up to, not including, j are of the set S.              *)
Run(m, i, j, S) == i <= j /\ \A k \in i..(j - 1) : ByteOf(m, k) \in S

(* What the output h holds already of the message m.                       *)
MethodHeld(m, h) == h.method = <<MethodAt(m), MethodEnd(m) - MethodAt(m)>>
PathHeld(m, h) ==
  MethodHeld(m, h) /\ h.path = <<PathAt(m), PathEnd(m) - PathAt(m)>>
VersionHeld(m, h) ==
  /\ VersionOK(m) /\ h.version = Value(ByteOf(m, VersionAt(m) + 7))
  /\ m.call = "request" => PathHeld(m, h)
LineHeld(m, h) ==
  /\ VersionHeld(m, h)
  /\ m.call = "response" => StatusOK(m) /\ h.res_code = StatusOf(m)
NameHeld(m, h) == LineHeld(m, h) /\ NameOK(m) /\ h.name = NameText(m)

(* Where the parser is in the request line, ...                            *)
InRequest ==
  /\ pc = "method" => /\ LeadOK(sent) /\ tok = MethodAt(sent)
                      /\ Run(sent, tok, buf, TokenChars)
  /\ pc = "sp_path" => /\ MethodOK(sent) /\ MethodHeld(sent, p_head)
                       /\ Run(sent, MethodEnd(sent), buf, {"sp"})
  /\ pc = "path" => /\ MethodOK(sent) /\ MethodHeld(sent, p_head) /\ tok = PathAt(sent)
                    /\ Run(sent, tok, buf, PathChars)
  /\ pc = "sp_version" => /\ PathOK(sent) /\ PathHeld(sent, p_head)
                          /\ Run(sent, PathEnd(sent), buf, {"sp"})
  /\ pc = "version_end" => VersionHeld(sent, p_head) /\ buf = LineEnd(sent)
  /\ pc = "lf_header" => /\ VersionHeld(sent, p_head) /\ buf = LineEnd(sent) + 1
                         /\ ByteOf(sent, LineEnd(sent)) = "cr"

(* ... in the version and the status line, ...                             *)
InStatus ==
  /\ pc = "version" => /\ buf = VersionAt(sent)
                       /\ sent.call = "request" => RequestOK(sent) /\ PathHeld(sent, p_head)
  /\ pc = "version_sp" => VersionHeld(sent, p_head) /\ buf = 9
  /\ pc = "sp_status" => /\ VersionHeld(sent, p_head) /\ ByteOf(sent, 9) = "sp"
                         /\ Run(sent, 9, buf, {"sp"})
  /\ pc = "status" => /\ VersionHeld(sent, p_head) /\ ByteOf(sent, 9) = "sp"
                      /\ buf = StatusAt(sent)
  /\ pc = "reason" => /\ LineHeld(sent, p_head) /\ tok = StatusAt(sent) + 3
                      /\ Run(sent, tok, buf, LineChars)
  /\ pc = "lf_reason" => /\ LineHeld(sent, p_head) /\ buf = LineEnd(sent) + 1
                         /\ ByteOf(sent, LineEnd(sent)) = "cr"

(* ... and in the header.                                                  *)
InHeader ==
  /\ pc \in {"message", "header"} =>
       LineHeld(sent, p_head) /\ LineOK(sent) /\ buf = HeaderAt(sent)
  /\ pc = "name" => /\ LineHeld(sent, p_head) /\ LineOK(sent) /\ ~Continued(sent)
                    /\ tok = HeaderAt(sent) /\ Run(sent, tok, buf, TokenChars)
  /\ pc = "sp_value" => /\ NameHeld(sent, p_head) /\ ~Continued(sent)
                        /\ Run(sent, NameEnd(sent) + 1, buf, Blanks)
  /\ pc = "value" => /\ NameHeld(sent, p_head) /\ tok = ValueAt(sent)
                     /\ Run(sent, tok, buf, LineChars)
  /\ pc = "lf_value" => /\ NameHeld(sent, p_head) /\ tok = ValueAt(sent)
                        /\ buf = ValueEnd(sent) + 1 /\ ByteOf(sent, ValueEnd(sent)) = "cr"
  /\ pc = "trim" => /\ NameHeld(sent, p_head) /\ WellFormed(sent) /\ tok = ValueAt(sent)
                    /\ buf = Whole(sent) + 1
                    /\ p_head.value = <<tok, ValueEnd(sent) - ValueAt(sent)>>

(***************************************************************************)
(* A call returns true when a first line and a first header by the grammar *)
(* have arrived in full, and only then; p_head has then what is in them,   *)
(* but for the reason phrase.                                              *)
(***************************************************************************)
ParsesTheGrammar ==
  pc = "idle" =>
    /\ result = (WellFormed(sent) /\ len >= Whole(sent))
    /\ result => p_head = Reported(FieldsOf(sent))

(* The inductive invariant, beside IInv.                                   *)
Follows ==
  /\ sent.call = "request" => p_head.res_code = 0
  /\ InRequest /\ InStatus /\ InHeader /\ ParsesTheGrammar

-----------------------------------------------------------------------------
(* Where runs of bytes end.                                                *)

(* The byte that is read is the byte of the message.                       *)
LEMMA AtIs == \A k : At(k) = ByteOf(sent, k)
  BY DEF At, ByteOf

(* Every run ends, behind the message at the latest.                       *)
LEMMA RunEnds ==
  ASSUME NEW m \in MessageType, NEW i \in Nat, NEW S, "ctl" \notin S, i >= 1
  PROVE  /\ EndOf(m, i, S) \in Nat /\ EndOf(m, i, S) >= i
         /\ IsEnd(m, i, S, EndOf(m, i, S))
<1> DEFINE T == {j \in Nat : j >= i /\ ByteOf(m, j) \notin S}
           n == Len(m.bytes)
<1>1. n \in Nat
  BY DEF MessageType
<1>2. i + n \in T
  BY <1>1 DEF ByteOf
<1>3. PICK x \in T : \A y \in T : x <= y
  BY <1>2, LeastNumber
<1>4. x \in i..(i + n)
  BY <1>1, <1>2, <1>3
<1>5. IsEnd(m, i, S, x)
  <2>1. \A k \in i..(x - 1) : k \in Nat /\ k >= i /\ k < x
    BY <1>3
  <2>2. \A k \in i..(x - 1) : ByteOf(m, k) \in S
    BY <1>3, <2>1
  <2> QED
    BY <1>3, <2>2 DEF IsEnd
<1>6. EndOf(m, i, S) \in i..(i + n) /\ IsEnd(m, i, S, EndOf(m, i, S))
  BY <1>4, <1>5 DEF EndOf
<1> QED
  BY <1>1, <1>6

(* A run is not longer than to its end, and ends at a byte not of its kind.*)
LEMMA Reached ==
  ASSUME NEW m \in MessageType, NEW i \in Nat, NEW S, "ctl" \notin S, i >= 1,
         NEW b \in Nat, Run(m, i, b, S)
  PROVE  /\ b <= EndOf(m, i, S)
         /\ ByteOf(m, b) \in S => b < EndOf(m, i, S)
         /\ ByteOf(m, b) \notin S => b = EndOf(m, i, S)
<1> DEFINE e == EndOf(m, i, S)
<1>1. /\ e \in Nat /\ e >= i /\ ByteOf(m, e) \notin S
      /\ \A k \in i..(e - 1) : ByteOf(m, k) \in S
  BY RunEnds DEF IsEnd
<1>2. i <= b /\ \A k \in i..(b - 1) : ByteOf(m, k) \in S
  BY DEF Run
<1> HIDE DEF e
<1>3. b <= e
  <2> SUFFICES ASSUME e < b PROVE FALSE
    BY <1>1
  <2>1. e \in i..(b - 1)
    BY <1>1
  <2> QED
    BY <1>1, <1>2, <2>1
<1>4. ByteOf(m, b) \notin S => b = e
  <2> SUFFICES ASSUME ByteOf(m, b) \notin S, b < e PROVE FALSE
    BY <1>1, <1>3
  <2>1. b \in i..(e - 1)
    BY <1>1, <1>2
  <2> QED
    BY <1>1, <2>1
<1> QED
  BY <1>1, <1>3, <1>4 DEF e

(* A run begins empty and grows by a byte of its kind.                     *)
LEMMA RunNone ==
  ASSUME NEW m, NEW i \in Nat, NEW S
  PROVE  Run(m, i, i, S)
  BY DEF Run

(* A run grows by a byte of its kind.                                      *)
LEMMA RunMore ==
  ASSUME NEW m, NEW i \in Nat, NEW j \in Nat, NEW S, Run(m, i, j, S), ByteOf(m, j) \in S
  PROVE  Run(m, i, j + 1, S)
  BY DEF Run

(* The runs do not go behind the message.                                  *)
LEMMA NoControls ==
  /\ "ctl" \notin TokenChars /\ "ctl" \notin {"sp"} /\ "ctl" \notin Blanks
  /\ "ctl" \notin PathChars /\ "ctl" \notin LineChars
  BY DEF TokenChars, Digits, PathChars, LineChars, Controls

(* The marks of a message, in the order of its bytes.                      *)
LEMMA Marks ==
  ASSUME NEW m \in MessageType
  PROVE  /\ MethodAt(m) \in 1..3
         /\ MethodEnd(m) \in Nat /\ PathAt(m) \in Nat /\ PathEnd(m) \in Nat
         /\ VersionAt(m) \in Nat /\ StatusAt(m) \in Nat /\ LineEnd(m) \in Nat
         /\ HeaderAt(m) \in Nat /\ NameEnd(m) \in Nat
         /\ ValueAt(m) \in Nat /\ ValueEnd(m) \in Nat /\ Whole(m) \in Nat
         /\ MethodAt(m) <= MethodEnd(m) /\ MethodEnd(m) <= PathAt(m)
         /\ PathAt(m) <= PathEnd(m) /\ VersionAt(m) >= 1
         /\ m.call = "request" => PathEnd(m) <= VersionAt(m) /\ LineEnd(m) = VersionAt(m) + 8
         /\ 9 <= StatusAt(m)
         /\ m.call = "response" => StatusAt(m) + 3 <= LineEnd(m) /\ VersionAt(m) = 1
         /\ LineEnd(m) < HeaderAt(m) /\ HeaderAt(m) <= NameEnd(m)
         /\ Continued(m) => ValueAt(m) = HeaderAt(m)
         /\ ~Continued(m) => NameEnd(m) < ValueAt(m)
         /\ HeaderAt(m) <= ValueAt(m) /\ ValueAt(m) <= ValueEnd(m) /\ ValueEnd(m) <= Whole(m)
         /\ ByteOf(m, PathAt(m)) # "sp"
<1> USE NoControls
<1>0. m.call \in {"request", "response"}
  BY DEF MessageType
<1>1. MethodAt(m) \in 1..3
  BY DEF MethodAt
<1>2. MethodEnd(m) \in Nat /\ MethodAt(m) <= MethodEnd(m)
  BY <1>1, RunEnds DEF MethodEnd
<1>3. PathAt(m) \in Nat /\ MethodEnd(m) <= PathAt(m) /\ ByteOf(m, PathAt(m)) # "sp"
  <2>1. MethodEnd(m) >= 1
    BY <1>1, <1>2
  <2> QED
    BY <1>2, <2>1, RunEnds DEF PathAt, IsEnd
<1>4. PathEnd(m) \in Nat /\ PathAt(m) <= PathEnd(m) /\ PathEnd(m) >= 1
  <2>1. PathAt(m) >= 1
    BY <1>1, <1>2, <1>3
  <2>2. PathEnd(m) \in Nat /\ PathAt(m) <= PathEnd(m)
    BY <1>3, <2>1, RunEnds DEF PathEnd
  <2> QED
    BY <1>3, <2>1, <2>2
<1>5. /\ VersionAt(m) \in Nat /\ VersionAt(m) >= 1
      /\ m.call = "request" => PathEnd(m) <= VersionAt(m)
      /\ m.call = "response" => VersionAt(m) = 1
  <2>1. EndOf(m, PathEnd(m), {"sp"}) \in Nat /\ EndOf(m, PathEnd(m), {"sp"}) >= PathEnd(m)
    BY <1>4, RunEnds
  <2> QED
    BY <1>0, <1>4, <2>1 DEF VersionAt
<1>6. StatusAt(m) \in Nat /\ 9 <= StatusAt(m)
  BY RunEnds DEF StatusAt
<1>7. /\ LineEnd(m) \in Nat /\ LineEnd(m) >= 1
      /\ m.call = "request" => LineEnd(m) = VersionAt(m) + 8
      /\ m.call = "response" => StatusAt(m) + 3 <= LineEnd(m)
  <2>1. StatusAt(m) + 3 \in Nat /\ StatusAt(m) + 3 >= 1
    BY <1>6
  <2>2. /\ EndOf(m, StatusAt(m) + 3, LineChars) \in Nat
        /\ EndOf(m, StatusAt(m) + 3, LineChars) >= StatusAt(m) + 3
    BY <2>1, RunEnds
  <2> QED
    BY <1>0, <1>5, <1>6, <2>2 DEF LineEnd
<1>8. HeaderAt(m) \in Nat /\ LineEnd(m) < HeaderAt(m)
  BY <1>7 DEF HeaderAt, NextLine
<1>9. NameEnd(m) \in Nat /\ HeaderAt(m) <= NameEnd(m)
  <2>1. HeaderAt(m) >= 1
    BY <1>7, <1>8
  <2> QED
    BY <1>8, <2>1, RunEnds DEF NameEnd
<1>10. /\ ValueAt(m) \in Nat /\ HeaderAt(m) <= ValueAt(m)
       /\ Continued(m) => ValueAt(m) = HeaderAt(m)
       /\ ~Continued(m) => NameEnd(m) < ValueAt(m)
  <2>1. NameEnd(m) + 1 \in Nat /\ NameEnd(m) + 1 >= 1
    BY <1>9
  <2>2. /\ EndOf(m, NameEnd(m) + 1, Blanks) \in Nat
        /\ EndOf(m, NameEnd(m) + 1, Blanks) >= NameEnd(m) + 1
    BY <2>1, RunEnds
  <2> QED
    BY <1>8, <1>9, <2>2 DEF ValueAt
<1>11. ValueEnd(m) \in Nat /\ ValueAt(m) <= ValueEnd(m)
  <2>1. ValueAt(m) >= 1
    BY <1>7, <1>8, <1>10
  <2> QED
    BY <1>10, <2>1, RunEnds DEF ValueEnd
<1>12. Whole(m) \in Nat /\ ValueEnd(m) <= Whole(m)
  BY <1>11 DEF Whole, NextLine
<1> QED
  BY <1>1, <1>2, <1>3, <1>4, <1>5, <1>6, <1>7, <1>8, <1>9, <1>10, <1>11, <1>12

-----------------------------------------------------------------------------
(* Every step follows the grammar.                                         *)

(* What a well-formed message has.                                         *)
LEMMA Needs ==
  ASSUME NEW m, WellFormed(m)
  PROVE  /\ NameOK(m) /\ LineOK(m) /\ VersionOK(m)
         /\ EndsLine(m, LineEnd(m)) /\ EndsLine(m, ValueEnd(m))
         /\ m.call = "request" => /\ LeadOK(m) /\ MethodOK(m) /\ PathOK(m) /\ RequestOK(m)
         /\ m.call = "response" => StatusOK(m)
  BY DEF WellFormed, NameOK, LineOK, VersionOK, RequestOK, PathOK, MethodOK

(* What every step begins from.                                            *)
Begin ==
  /\ Start /\ sent \in MessageType /\ sent' = sent /\ len' = len
  /\ len \in Nat /\ tok \in Nat /\ buf \in Nat /\ tok >= 1 /\ buf >= 1
  /\ At(buf) = ByteOf(sent, buf) /\ ByteOf(sent, buf) \in Bytes
  /\ sent.call \in {"request", "response"}
  /\ sent.call = "request" => p_head.res_code = 0

(* What every step that is not an arrival begins from.                     *)
LEMMA Begins ==
  ASSUME IInv, Follows, UNCHANGED <<sent, len>>
  PROVE  Begin
<1>1. Start /\ sent \in MessageType
  BY Starts DEF IInv, Types
<1> QED
  BY <1>1, AtIs DEF Begin, Start, Follows

(* A call may return false when there is not all of a well-formed message. *)
LEMMA Refused ==
  ASSUME Begin, Return(FALSE), ~WellFormed(sent) \/ len < Whole(sent),
         p_head'.res_code = p_head.res_code
  PROVE  Follows'
<1>1. len \in Nat /\ Whole(sent) \in Nat
  BY Marks DEF Begin
<1>2. ~(WellFormed(sent) /\ len >= Whole(sent))
  BY <1>1
<1>3. pc' = "idle" /\ result' = FALSE /\ sent' = sent /\ len' = len
  BY DEF Return, Begin
<1>4. InRequest' /\ InStatus' /\ InHeader'
  BY <1>3 DEF InRequest, InStatus, InHeader
<1>5. ParsesTheGrammar'
  BY <1>2, <1>3 DEF ParsesTheGrammar
<1>6. sent'.call = "request" => p_head'.res_code = 0
  BY DEF Begin
<1> QED
  BY <1>4, <1>5, <1>6 DEF Follows

(* What Put leaves in p_head.                                              *)
LEMMA PutField ==
  ASSUME p_head \in Filled,
         NEW f \in {"name", "value", "method", "path", "version", "res_code"}, NEW v, Put(f, v)
  PROVE  /\ p_head'[f] = v
         /\ \A g \in {"name", "value", "method", "path", "version", "res_code"} \ {f} :
              p_head'[g] = p_head[g]
  BY DEF Put, Filled

(* What is held of the first line stays when other fields are assigned.    *)
LEMMA HeldOn ==
  ASSUME NEW m, NEW g, NEW h, h.method = g.method, h.path = g.path
  PROVE  /\ MethodHeld(m, g) => MethodHeld(m, h)
         /\ PathHeld(m, g) => PathHeld(m, h)
         /\ (VersionHeld(m, g) /\ h.version = g.version) => VersionHeld(m, h)
         /\ (LineHeld(m, g) /\ h.version = g.version /\ h.res_code = g.res_code) =>
              LineHeld(m, h)
  BY DEF MethodHeld, PathHeld, VersionHeld, LineHeld

(* A call begins.                                                          *)
LEMMA ArriveFollows ==
  ASSUME IInv, Follows, Arrive
  PROVE  Follows'
<1>1. /\ sent' = sent /\ buf' = 1 /\ p_head' = p_head
      /\ pc' = IF sent.call = "request" THEN "empty" ELSE "version"
  BY DEF Arrive, Entry, locals
<1>2. sent.call # "request" => VersionAt(sent) = 1
  BY DEF VersionAt
<1> QED
  BY <1>1, <1>2 DEF Follows, InRequest, InStatus, InHeader, ParsesTheGrammar

(* The empty line before a request.                                        *)
LEMMA EmptyFollows ==
  ASSUME IInv, Follows, SkipEmptyLine
  PROVE  Follows'
<1>0. Begin
  BY Begins DEF SkipEmptyLine
<1>1. /\ buf = 1 /\ p_head' = p_head /\ tok' = IF At(buf) = "lf" THEN buf + 1 ELSE buf
      /\ pc = "empty" /\ sent.call = "request"
  BY <1>0 DEF SkipEmptyLine, IInv, Loops, Ways, Begin
<1>2. CASE buf = buf_end
  <2>1. len < Whole(sent)
    BY <1>0, <1>1, <1>2, Marks DEF Begin, buf_end
  <2> QED
    BY <1>0, <1>1, <1>2, <2>1, Refused DEF SkipEmptyLine
<1>3. CASE buf # buf_end
  <2>1. CASE At(buf) = "cr"
    <3>1. pc' = "lf_method" /\ sent' = sent
      BY <1>0, <1>3, <2>1 DEF SkipEmptyLine, Goto, Begin
    <3> QED
      BY <1>0, <1>1, <3>1 DEF Begin, Follows, InRequest, InStatus, InHeader, ParsesTheGrammar
  <2>2. CASE At(buf) # "cr"
    <3>1. pc' = "method" /\ buf' = tok'
      BY <1>1, <1>3, <2>2 DEF SkipEmptyLine, Goto
    <3>2. tok' = MethodAt(sent) /\ LeadOK(sent) /\ tok' \in Nat
      BY <1>0, <1>1, <2>2 DEF MethodAt, LeadOK, Begin
    <3>3. Run(sent, tok', buf', TokenChars)
      BY <3>1, <3>2, RunNone
    <3> QED
      BY <1>0, <1>1, <3>1, <3>2, <3>3
      DEF Begin, Follows, InRequest, InStatus, InHeader, ParsesTheGrammar
  <2> QED
    BY <2>1, <2>2
<1> QED
  BY <1>2, <1>3

(* The line feed after a carriage return.                                  *)
LEMMA ExpectLFFollows ==
  ASSUME IInv, Follows, ExpectLF
  PROVE  Follows'
<1>0. Begin
  BY Begins DEF ExpectLF
<1>1. p_head' = p_head /\ tok' = buf + 1 /\ sent.call = "request"
  BY <1>0 DEF ExpectLF, IInv, Ways, Begin
<1>2. CASE pc = "lf_method"
  <2>1. buf = 2 /\ ByteOf(sent, 1) = "cr"
    BY <1>2, AtIs DEF IInv, Loops
  <2>2. CASE buf = buf_end \/ At(buf) # "lf"
    <3>1. ~WellFormed(sent) \/ len < Whole(sent)
      <4>1. CASE buf = buf_end
        BY <1>0, <1>1, <2>1, <4>1, Marks DEF Begin, buf_end
      <4>2. CASE At(buf) # "lf"
        BY <1>0, <1>1, <2>1, <4>2, Needs DEF Begin, LeadOK
      <4> QED
        BY <2>2, <4>1, <4>2
    <3> QED
      BY <1>0, <1>1, <2>2, <3>1, Refused DEF ExpectLF
  <2>3. CASE ~(buf = buf_end \/ At(buf) # "lf")
    <3>1. pc' = "method" /\ buf' = 3 /\ tok' = 3
      BY <1>1, <1>2, <2>1, <2>3 DEF ExpectLF, Goto
    <3>2. tok' = MethodAt(sent) /\ LeadOK(sent)
      BY <1>0, <2>1, <2>3, <3>1 DEF MethodAt, LeadOK, Begin
    <3>3. Run(sent, tok', buf', TokenChars)
      BY <3>1, RunNone
    <3> QED
      BY <1>0, <1>1, <3>1, <3>2, <3>3
      DEF Begin, Follows, InRequest, InStatus, InHeader, ParsesTheGrammar
  <2> QED
    BY <2>2, <2>3
<1>3. CASE pc = "lf_header"
  <2>1. /\ VersionHeld(sent, p_head) /\ buf = LineEnd(sent) + 1
        /\ ByteOf(sent, LineEnd(sent)) = "cr"
    BY <1>3 DEF Follows, InRequest
  <2>2. CASE buf = buf_end \/ At(buf) # "lf"
    <3>1. ~WellFormed(sent) \/ len < Whole(sent)
      <4>1. CASE buf = buf_end
        BY <1>0, <2>1, <4>1, Marks DEF Begin, buf_end
      <4>2. CASE At(buf) # "lf"
        BY <1>0, <2>1, <4>2, Needs DEF Begin, EndsLine
      <4> QED
        BY <2>2, <4>1, <4>2
    <3> QED
      BY <1>0, <1>1, <2>2, <3>1, Refused DEF ExpectLF
  <2>3. CASE ~(buf = buf_end \/ At(buf) # "lf")
    <3>1. pc' = "header" /\ buf' = LineEnd(sent) + 2
      <4>1. pc' = "header" /\ buf' = buf + 1
        BY <1>3, <2>3 DEF ExpectLF, Goto
      <4> QED
        BY <1>0, <2>1, <4>1, Marks DEF Begin
    <3>2. buf' = HeaderAt(sent)
      BY <2>1, <3>1 DEF HeaderAt, NextLine
    <3>3. LineOK(sent) /\ LineHeld(sent, p_head)
      BY <1>0, <1>1, <2>1, <2>3 DEF Begin, LineOK, LineHeld, VersionHeld, EndsLine
    <3> QED
      BY <1>0, <1>1, <3>1, <3>2, <3>3
      DEF Begin, Follows, InRequest, InStatus, InHeader, ParsesTheGrammar
  <2> QED
    BY <2>2, <2>3
<1> QED
  BY <1>2, <1>3 DEF ExpectLF

(* One byte of the method, or its end.                                     *)
LEMMA MethodFollows ==
  ASSUME IInv, Follows, ParseMethod
  PROVE  Follows'
<1>0. Begin
  BY Begins DEF ParseMethod
<1>1. /\ pc = "method" /\ tok' = tok /\ LeadOK(sent) /\ tok = MethodAt(sent)
      /\ Run(sent, tok, buf, TokenChars) /\ sent.call = "request"
  BY <1>0 DEF ParseMethod, Follows, InRequest, IInv, Ways, Begin
<1>2. /\ buf <= MethodEnd(sent)
      /\ ByteOf(sent, buf) \in TokenChars => buf < MethodEnd(sent)
      /\ ByteOf(sent, buf) \notin TokenChars => buf = MethodEnd(sent)
  BY <1>0, <1>1, Reached, NoControls DEF Begin, MethodEnd
<1>3. buf + 1 = buf_end => len < Whole(sent)
  BY <1>0, <1>1, <1>2, Marks DEF Begin, buf_end
<1>4. CASE At(buf) = "sp"
  <2>1. buf = MethodEnd(sent) /\ MethodOK(sent)
    BY <1>0, <1>1, <1>2, <1>4 DEF Begin, TokenChars, Digits, MethodOK
  <2>2. Put("method", <<tok, buf - tok>>) /\ Advance("sp_path")
    BY <1>4 DEF ParseMethod, TokenChars, Digits
  <2>3. MethodHeld(sent, p_head') /\ p_head'.res_code = p_head.res_code
    BY <1>0, <1>1, <2>1, <2>2, PutField DEF Begin, Start, MethodHeld
  <2>4. CASE buf + 1 = buf_end
    BY <1>0, <1>3, <2>2, <2>3, <2>4, Refused DEF Advance
  <2>5. CASE buf + 1 # buf_end
    <3>1. pc' = "sp_path" /\ buf' = buf + 1
      BY <2>2, <2>5 DEF Advance, Goto
    <3>2. Run(sent, MethodEnd(sent), buf', {"sp"})
      <4>1. ByteOf(sent, buf) \in {"sp"} /\ buf \in Nat
        BY <1>0, <1>4 DEF Begin
      <4> QED
        BY <2>1, <3>1, <4>1, RunNone, RunMore
    <3> QED
      BY <1>0, <2>1, <2>3, <3>1, <3>2
      DEF Begin, Follows, InRequest, InStatus, InHeader, ParsesTheGrammar
  <2> QED
    BY <2>4, <2>5
<1>5. CASE At(buf) # "sp" /\ At(buf) \in TokenChars
  <2>1. p_head' = p_head /\ Advance("method")
    BY <1>5 DEF ParseMethod, TokenChars, Digits
  <2>2. CASE buf + 1 = buf_end
    BY <1>0, <1>3, <2>1, <2>2, Refused DEF Advance
  <2>3. CASE buf + 1 # buf_end
    <3>1. pc' = "method" /\ buf' = buf + 1
      BY <2>1, <2>3 DEF Advance, Goto
    <3>2. Run(sent, tok, buf', TokenChars)
      BY <1>0, <1>1, <1>5, <3>1, RunMore DEF Begin
    <3> QED
      BY <1>0, <1>1, <2>1, <3>1, <3>2
      DEF Begin, Follows, InRequest, InStatus, InHeader, ParsesTheGrammar
  <2> QED
    BY <2>2, <2>3
<1>6. CASE At(buf) # "sp" /\ At(buf) \notin TokenChars
  <2>1. Return(FALSE) /\ p_head' = p_head
    BY <1>6 DEF ParseMethod
  <2>2. ~WellFormed(sent)
    BY <1>0, <1>1, <1>2, <1>6, Needs DEF Begin, MethodOK
  <2> QED
    BY <1>0, <2>1, <2>2, Refused
<1> QED
  BY <1>4, <1>5, <1>6

(* Spaces in front of the path.                                            *)
LEMMA ToPathFollows ==
  ASSUME IInv, Follows, SkipToPath
  PROVE  Follows'
<1>0. Begin
  BY Begins DEF SkipToPath
<1>1. /\ pc = "sp_path" /\ tok' = buf /\ p_head' = p_head /\ MethodOK(sent)
      /\ MethodHeld(sent, p_head) /\ Run(sent, MethodEnd(sent), buf, {"sp"})
      /\ sent.call = "request"
  BY <1>0 DEF SkipToPath, Follows, InRequest, IInv, Ways, Begin
<1>2. /\ ByteOf(sent, buf) \in {"sp"} => buf < PathAt(sent)
      /\ ByteOf(sent, buf) \notin {"sp"} => buf = PathAt(sent)
  <2>1. MethodEnd(sent) \in Nat /\ MethodEnd(sent) >= 1
    BY <1>0, Marks DEF Begin
  <2> QED
    BY <1>0, <1>1, <2>1, Reached, NoControls DEF Begin, PathAt
<1>3. CASE At(buf) = "sp"
  <2>1. Advance("sp_path")
    BY <1>3 DEF SkipToPath
  <2>2. CASE buf + 1 = buf_end
    <3>1. len < Whole(sent)
      BY <1>0, <1>1, <1>2, <1>3, <2>2, Marks DEF Begin, buf_end
    <3> QED
      BY <1>0, <1>1, <2>1, <2>2, <3>1, Refused DEF Advance
  <2>3. CASE buf + 1 # buf_end
    <3>1. pc' = "sp_path" /\ buf' = buf + 1
      BY <2>1, <2>3 DEF Advance, Goto
    <3>2. Run(sent, MethodEnd(sent), buf', {"sp"})
      <4>1. ByteOf(sent, buf) \in {"sp"} /\ MethodEnd(sent) \in Nat /\ buf \in Nat
        BY <1>0, <1>3, Marks DEF Begin
      <4> QED
        BY <1>1, <3>1, <4>1, RunMore
    <3> QED
      BY <1>0, <1>1, <3>1, <3>2
      DEF Begin, Follows, InRequest, InStatus, InHeader, ParsesTheGrammar
  <2> QED
    BY <2>2, <2>3
<1>4. CASE At(buf) # "sp"
  <2>1. pc' = "path" /\ buf' = buf
    BY <1>4 DEF SkipToPath, Goto
  <2>2. tok' = PathAt(sent) /\ Run(sent, tok', buf', PathChars)
    BY <1>0, <1>1, <1>2, <1>4, <2>1, RunNone DEF Begin
  <2> QED
    BY <1>0, <1>1, <2>1, <2>2
    DEF Begin, Follows, InRequest, InStatus, InHeader, ParsesTheGrammar
<1> QED
  BY <1>3, <1>4

(* One byte of the path, or its end.                                       *)
LEMMA PathFollows ==
  ASSUME IInv, Follows, ParsePath
  PROVE  Follows'
<1>0. Begin
  BY Begins DEF ParsePath
<1>1. /\ pc = "path" /\ tok' = tok /\ MethodOK(sent) /\ MethodHeld(sent, p_head)
      /\ tok = PathAt(sent) /\ Run(sent, tok, buf, PathChars) /\ sent.call = "request"
  BY <1>0 DEF ParsePath, Follows, InRequest, IInv, Ways, Begin
<1>2. /\ buf <= PathEnd(sent)
      /\ ByteOf(sent, buf) \notin PathChars => buf = PathEnd(sent)
  BY <1>0, <1>1, Reached, NoControls DEF Begin, PathEnd
<1>3. buf + 1 = buf_end => len < Whole(sent)
  BY <1>0, <1>1, <1>2, Marks DEF Begin, buf_end
<1>4. CASE At(buf) = "sp"
  <2>1. buf = PathEnd(sent) /\ PathOK(sent)
    BY <1>0, <1>1, <1>2, <1>4 DEF Begin, PathChars, PathOK
  <2>2. Put("path", <<tok, buf - tok>>) /\ Advance("sp_version")
    BY <1>4 DEF ParsePath, Controls
  <2>3. PathHeld(sent, p_head') /\ p_head'.res_code = p_head.res_code
    <3>1. p_head'.path = <<tok, buf - tok>> /\ p_head'.method = p_head.method
          /\ p_head'.res_code = p_head.res_code
      BY <1>0, <2>2, PutField DEF Begin, Start
    <3> QED
      BY <1>1, <2>1, <3>1 DEF PathHeld, MethodHeld
  <2>4. CASE buf + 1 = buf_end
    BY <1>0, <1>3, <2>2, <2>3, <2>4, Refused DEF Advance
  <2>5. CASE buf + 1 # buf_end
    <3>1. pc' = "sp_version" /\ buf' = buf + 1
      BY <2>2, <2>5 DEF Advance, Goto
    <3>2. Run(sent, PathEnd(sent), buf', {"sp"})
      <4>1. ByteOf(sent, buf) \in {"sp"} /\ buf \in Nat
        BY <1>0, <1>4 DEF Begin
      <4> QED
        BY <2>1, <3>1, <4>1, RunNone, RunMore
    <3> QED
      BY <1>0, <2>1, <2>3, <3>1, <3>2
      DEF Begin, Follows, InRequest, InStatus, InHeader, ParsesTheGrammar
  <2> QED
    BY <2>4, <2>5
<1>5. CASE At(buf) # "sp" /\ At(buf) \notin Controls
  <2>1. p_head' = p_head /\ Advance("path")
    BY <1>5 DEF ParsePath
  <2>2. CASE buf + 1 = buf_end
    BY <1>0, <1>3, <2>1, <2>2, Refused DEF Advance
  <2>3. CASE buf + 1 # buf_end
    <3>1. pc' = "path" /\ buf' = buf + 1
      BY <2>1, <2>3 DEF Advance, Goto
    <3>2. ByteOf(sent, buf) \in PathChars
      BY <1>0, <1>5 DEF Begin, PathChars
    <3>3. Run(sent, tok, buf', PathChars)
      BY <1>0, <1>1, <3>1, <3>2, RunMore DEF Begin
    <3> QED
      BY <1>0, <1>1, <2>1, <3>1, <3>3
      DEF Begin, Follows, InRequest, InStatus, InHeader, ParsesTheGrammar
  <2> QED
    BY <2>2, <2>3
<1>6. CASE At(buf) \in Controls
  <2>1. At(buf) # "sp" /\ At(buf) \notin PathChars
    BY <1>6 DEF Controls, PathChars
  <2>2. Return(FALSE) /\ p_head' = p_head
    BY <1>6, <2>1 DEF ParsePath
  <2>3. ~WellFormed(sent)
    BY <1>0, <1>1, <1>2, <2>1, Needs DEF Begin, PathOK
  <2> QED
    BY <1>0, <2>2, <2>3, Refused
<1> QED
  BY <1>4, <1>5, <1>6

(* Spaces in front of the version; a method or path of length 0 is refused.*)
LEMMA ToVersionFollows ==
  ASSUME IInv, Follows, SkipToVersion
  PROVE  Follows'
<1>0. Begin
  BY Begins DEF SkipToVersion
<1>1. /\ pc = "sp_version" /\ p_head' = p_head /\ PathOK(sent) /\ PathHeld(sent, p_head)
      /\ Run(sent, PathEnd(sent), buf, {"sp"}) /\ sent.call = "request"
  BY <1>0 DEF SkipToVersion, locals, Follows, InRequest, IInv, Ways, Begin
<1>2. /\ ByteOf(sent, buf) \in {"sp"} => buf < VersionAt(sent)
      /\ ByteOf(sent, buf) \notin {"sp"} => buf = VersionAt(sent)
  <2>1. PathEnd(sent) \in Nat /\ PathEnd(sent) >= 1
    BY <1>0, Marks DEF Begin
  <2> QED
    BY <1>0, <1>1, <2>1, Reached, NoControls DEF Begin, VersionAt
<1>3. CASE At(buf) = "sp"
  <2>1. Advance("sp_version")
    BY <1>3 DEF SkipToVersion
  <2>2. CASE buf + 1 = buf_end
    <3>1. len < Whole(sent)
      BY <1>0, <1>1, <1>2, <1>3, <2>2, Marks DEF Begin, buf_end
    <3> QED
      BY <1>0, <1>1, <2>1, <2>2, <3>1, Refused DEF Advance
  <2>3. CASE buf + 1 # buf_end
    <3>1. pc' = "sp_version" /\ buf' = buf + 1
      BY <2>1, <2>3 DEF Advance, Goto
    <3>2. Run(sent, PathEnd(sent), buf', {"sp"})
      <4>1. ByteOf(sent, buf) \in {"sp"} /\ PathEnd(sent) \in Nat /\ buf \in Nat
        BY <1>0, <1>3, Marks DEF Begin
      <4> QED
        BY <1>1, <3>1, <4>1, RunMore
    <3> QED
      BY <1>0, <1>1, <3>1, <3>2
      DEF Begin, Follows, InRequest, InStatus, InHeader, ParsesTheGrammar
  <2> QED
    BY <2>2, <2>3
<1>4. CASE At(buf) # "sp"
  <2>1. /\ p_head.method[2] = MethodEnd(sent) - MethodAt(sent)
        /\ p_head.path[2] = PathEnd(sent) - PathAt(sent)
    BY <1>1 DEF PathHeld, MethodHeld
  <2>2. CASE 0 \in {p_head.method[2], p_head.path[2]}
    <3>1. Return(FALSE)
      BY <1>4, <2>2 DEF SkipToVersion
    <3>2. PathEnd(sent) # PathAt(sent)
      BY <1>0, <1>1, Marks DEF Begin, PathOK
    <3>3. MethodEnd(sent) = MethodAt(sent)
      BY <1>0, <2>1, <2>2, <3>2, Marks DEF Begin
    <3>4. ~WellFormed(sent)
      BY <1>0, <1>1, <3>3, Needs, Marks DEF Begin, RequestOK
    <3> QED
      BY <1>0, <1>1, <3>1, <3>4, Refused
  <2>3. CASE 0 \notin {p_head.method[2], p_head.path[2]}
    <3>1. pc' = "version" /\ buf' = buf
      BY <1>4, <2>3 DEF SkipToVersion, Goto
    <3>2. buf = VersionAt(sent) /\ RequestOK(sent)
      BY <1>0, <1>1, <1>2, <1>4, <2>1, <2>3, Marks DEF Begin, RequestOK
    <3> QED
      BY <1>0, <1>1, <3>1, <3>2
      DEF Begin, Follows, InRequest, InStatus, InHeader, ParsesTheGrammar
  <2> QED
    BY <2>2, <2>3
<1> QED
  BY <1>3, <1>4

(* The version, in both functions.                                         *)
LEMMA VersionFollows ==
  ASSUME IInv, Follows, parse_http_version
  PROVE  Follows'
<1>0. Begin
  BY Begins DEF parse_http_version
<1>1. /\ pc = "version" /\ buf = VersionAt(sent)
      /\ sent.call = "request" => RequestOK(sent) /\ PathHeld(sent, p_head)
  BY DEF parse_http_version, Follows, InStatus
<1> DEFINE bad == \/ buf_end - buf < 9
                  \/ \E i \in 1..7 : At(buf + i - 1) # Literal[i]
                  \/ At(buf + 7) \notin Digits
<1>2. CASE bad
  <2>1. Return(FALSE) /\ p_head' = p_head
    BY <1>2 DEF parse_http_version
  <2>2. ~WellFormed(sent) \/ len < Whole(sent)
    <3>1. CASE buf_end - buf < 9
      BY <1>0, <1>1, <3>1, Marks DEF Begin, buf_end
    <3>2. CASE ~(buf_end - buf < 9)
      <4>1. \/ \E i \in 1..7 : ByteOf(sent, VersionAt(sent) + i - 1) # Literal[i]
            \/ ByteOf(sent, VersionAt(sent) + 7) \notin Digits
        BY <1>1, <1>2, <3>2, AtIs
      <4>2. ~VersionOK(sent)
        BY <4>1 DEF VersionOK
      <4> QED
        BY <4>2, Needs
    <3> QED
      BY <3>1, <3>2
  <2> QED
    BY <1>0, <2>1, <2>2, Refused
<1>3. CASE ~bad
  <2>1. /\ Put("version", Value(At(buf + 7))) /\ buf' = buf + 8
        /\ pc' = IF sent.call = "request" THEN "version_end" ELSE "version_sp"
    BY <1>3 DEF parse_http_version, Goto
  <2>2. VersionOK(sent) /\ At(buf + 7) = ByteOf(sent, VersionAt(sent) + 7)
    BY <1>1, <1>3, AtIs DEF VersionOK
  <2> HIDE DEF bad
  <2>3. /\ p_head'.version = Value(ByteOf(sent, VersionAt(sent) + 7))
        /\ p_head'.method = p_head.method /\ p_head'.path = p_head.path
        /\ p_head'.res_code = p_head.res_code
    BY <1>0, <2>1, <2>2, PutField DEF Begin, Start
  <2>4. VersionHeld(sent, p_head')
    BY <1>1, <2>2, <2>3, HeldOn DEF VersionHeld
  <2>5. /\ sent.call = "request" => buf' = LineEnd(sent)
        /\ sent.call = "response" => buf' = 9
    BY <1>0, <1>1, <2>1, Marks DEF Begin
  <2> QED
    BY <1>0, <2>1, <2>3, <2>4, <2>5
    DEF Begin, Follows, InRequest, InStatus, InHeader, ParsesTheGrammar
<1> QED
  BY <1>2, <1>3

(* The end of the request line.                                            *)
LEMMA RequestLineFollows ==
  ASSUME IInv, Follows, EndOfRequestLine
  PROVE  Follows'
<1>0. Begin
  BY Begins DEF EndOfRequestLine
<1>1. /\ pc = "version_end" /\ p_head' = p_head /\ VersionHeld(sent, p_head)
      /\ buf = LineEnd(sent) /\ sent.call = "request"
  BY <1>0 DEF EndOfRequestLine, locals, Follows, InRequest, IInv, Ways, Begin
<1>2. CASE At(buf) = "cr"
  <2>1. pc' = "lf_header" /\ buf' = LineEnd(sent) + 1 /\ ByteOf(sent, LineEnd(sent)) = "cr"
    BY <1>0, <1>1, <1>2 DEF EndOfRequestLine, Goto, Begin
  <2> QED
    BY <1>0, <1>1, <2>1 DEF Begin, Follows, InRequest, InStatus, InHeader, ParsesTheGrammar
<1>3. CASE At(buf) = "lf"
  <2>1. pc' = "header" /\ buf' = buf + 1
    BY <1>3 DEF EndOfRequestLine, Goto
  <2>2. buf' = HeaderAt(sent)
    BY <1>0, <1>1, <1>3, <2>1 DEF Begin, HeaderAt, NextLine
  <2>3. LineOK(sent) /\ LineHeld(sent, p_head)
    BY <1>0, <1>1, <1>3 DEF Begin, LineOK, LineHeld, VersionHeld, EndsLine
  <2> QED
    BY <1>0, <1>1, <2>1, <2>2, <2>3
    DEF Begin, Follows, InRequest, InStatus, InHeader, ParsesTheGrammar
<1>4. CASE At(buf) \notin {"cr", "lf"}
  <2>1. Return(FALSE)
    BY <1>4 DEF EndOfRequestLine
  <2>2. ~WellFormed(sent)
    BY <1>0, <1>1, <1>4, Needs DEF Begin, EndsLine
  <2> QED
    BY <1>0, <1>1, <2>1, <2>2, Refused
<1> QED
  BY <1>2, <1>3, <1>4

(* The space behind the version of a response, and those that follow it.   *)
LEMMA ToStatusFollows ==
  ASSUME IInv, Follows, RequireSpace \/ SkipToStatus
  PROVE  Follows'
<1>0. Begin
  BY Begins DEF RequireSpace, SkipToStatus
<1>1. /\ pc \in {"version_sp", "sp_status"} /\ p_head' = p_head /\ VersionHeld(sent, p_head)
      /\ sent.call = "response" /\ Run(sent, 9, buf, {"sp"})
      /\ pc = "version_sp" => buf = 9
      /\ pc = "sp_status" => ByteOf(sent, 9) = "sp"
  <2>1. Run(sent, 9, 9, {"sp"})
    BY RunNone
  <2> QED
    BY <1>0, <2>1 DEF RequireSpace, SkipToStatus, locals, Follows, InStatus, IInv, Ways, Begin
<1>2. /\ ByteOf(sent, buf) \in {"sp"} => buf < StatusAt(sent)
      /\ ByteOf(sent, buf) \notin {"sp"} => buf = StatusAt(sent)
  BY <1>0, <1>1, Reached, NoControls DEF Begin, StatusAt
<1>3. CASE At(buf) = "sp"
  <2>1. Advance("sp_status")
    BY <1>3 DEF RequireSpace, SkipToStatus
  <2>2. CASE buf + 1 = buf_end
    <3>1. len < Whole(sent)
      BY <1>0, <1>1, <1>2, <1>3, <2>2, Marks DEF Begin, buf_end
    <3> QED
      BY <1>0, <1>1, <2>1, <2>2, <3>1, Refused DEF Advance
  <2>3. CASE buf + 1 # buf_end
    <3>1. pc' = "sp_status" /\ buf' = buf + 1
      BY <2>1, <2>3 DEF Advance, Goto
    <3>2. Run(sent, 9, buf', {"sp"}) /\ ByteOf(sent, 9) = "sp"
      BY <1>0, <1>1, <1>3, <3>1, RunMore DEF Begin
    <3> QED
      BY <1>0, <1>1, <3>1, <3>2
      DEF Begin, Follows, InRequest, InStatus, InHeader, ParsesTheGrammar
  <2> QED
    BY <2>2, <2>3
<1>4. CASE At(buf) # "sp" /\ pc = "version_sp"
  <2>1. Return(FALSE)
    BY <1>4 DEF RequireSpace, SkipToStatus
  <2>2. ~WellFormed(sent)
    BY <1>0, <1>1, <1>4, Needs DEF Begin, StatusOK
  <2> QED
    BY <1>0, <1>1, <2>1, <2>2, Refused
<1>5. CASE At(buf) # "sp" /\ pc = "sp_status"
  <2>1. pc' = "status" /\ buf' = buf
    BY <1>5 DEF RequireSpace, SkipToStatus, Goto
  <2>2. buf' = StatusAt(sent)
    BY <1>0, <1>2, <1>5, <2>1 DEF Begin
  <2> QED
    BY <1>0, <1>1, <1>5, <2>1, <2>2
    DEF Begin, Follows, InRequest, InStatus, InHeader, ParsesTheGrammar
<1> QED
  BY <1>1, <1>3, <1>4, <1>5

(* The three digits of the status.                                         *)
LEMMA StatusFollows ==
  ASSUME IInv, Follows, ParseStatus
  PROVE  Follows'
<1>0. Begin
  BY Begins DEF ParseStatus
<1>1. /\ pc = "status" /\ tok' = buf + 3 /\ VersionHeld(sent, p_head)
      /\ ByteOf(sent, 9) = "sp" /\ buf = StatusAt(sent) /\ sent.call = "response"
  BY <1>0 DEF ParseStatus, Follows, InStatus, IInv, Ways, Begin
<1> DEFINE bad == buf_end - buf < 4 \/ \E i \in 0..2 : At(buf + i) \notin Digits
<1>2. CASE bad
  <2>1. Return(FALSE) /\ p_head' = p_head
    BY <1>2 DEF ParseStatus
  <2>2. ~WellFormed(sent) \/ len < Whole(sent)
    <3>1. CASE buf_end - buf < 4
      BY <1>0, <1>1, <3>1, Marks DEF Begin, buf_end
    <3>2. CASE \E i \in 0..2 : At(buf + i) \notin Digits
      <4>1. ~StatusOK(sent)
        BY <1>1, <3>2, AtIs DEF StatusOK
      <4> QED
        BY <1>1, <4>1, Needs
    <3> QED
      BY <1>2, <3>1, <3>2
  <2> QED
    BY <1>0, <2>1, <2>2, Refused
<1>3. CASE ~bad
  <2> DEFINE code == 100 * Value(At(buf)) + 10 * Value(At(buf + 1)) + Value(At(buf + 2))
  <2>1. Put("res_code", code) /\ buf' = buf + 3 /\ pc' = "reason"
    BY <1>3 DEF ParseStatus, Goto
  <2>2. StatusOK(sent)
    BY <1>1, <1>3, AtIs DEF StatusOK
  <2>3. code = StatusOf(sent)
    BY <1>1, AtIs DEF StatusOf
  <2> HIDE DEF bad, code
  <2>4. /\ p_head'.res_code = StatusOf(sent) /\ p_head'.version = p_head.version
        /\ p_head'.method = p_head.method /\ p_head'.path = p_head.path
    BY <1>0, <2>1, <2>3, PutField DEF Begin, Start
  <2>5. LineHeld(sent, p_head')
    BY <1>1, <2>2, <2>4, HeldOn DEF LineHeld
  <2>6. tok' = StatusAt(sent) + 3 /\ Run(sent, tok', buf', LineChars)
    BY <1>0, <1>1, <2>1, RunNone DEF Begin
  <2> QED
    BY <1>0, <1>1, <2>1, <2>5, <2>6
    DEF Begin, Follows, InRequest, InStatus, InHeader, ParsesTheGrammar
<1> QED
  BY <1>2, <1>3

(* The test of msg_len.                                                    *)
LEMMA MessageFollows ==
  ASSUME IInv, Follows, CheckMessage
  PROVE  Follows'
<1>0. Begin
  BY Begins DEF CheckMessage
<1>1. pc = "message" /\ pc' = "header" /\ buf' = buf /\ p_head' = p_head
  <2>1. p_head.msg = <<0, 0>>
    BY DEF IInv, Types, Filled
  <2> QED
    BY <2>1 DEF CheckMessage, msg_len, Goto, locals
<1> QED
  BY <1>0, <1>1 DEF Begin, Follows, InRequest, InStatus, InHeader, ParsesTheGrammar

(* The beginning of the header.                                            *)
LEMMA HeaderFollows ==
  ASSUME IInv, Follows, StartHeader
  PROVE  Follows'
<1>0. Begin
  BY Begins DEF StartHeader
<1>1. /\ pc = "header" /\ tok' = buf /\ LineHeld(sent, p_head) /\ LineOK(sent)
      /\ buf = HeaderAt(sent)
  BY DEF StartHeader, Follows, InHeader
<1>2. CASE buf = buf_end
  <2>1. Return(FALSE) /\ p_head' = p_head
    BY <1>2 DEF StartHeader
  <2>2. HeaderAt(sent) = len + 1
    BY <1>1, <1>2 DEF buf_end
  <2>3. /\ Whole(sent) \in Nat /\ len \in Nat /\ ValueAt(sent) \in Nat /\ ValueEnd(sent) \in Nat
        /\ HeaderAt(sent) \in Nat /\ HeaderAt(sent) <= ValueAt(sent)
        /\ ValueAt(sent) <= ValueEnd(sent) /\ ValueEnd(sent) <= Whole(sent)
    BY <1>0, Marks DEF Begin, IInv, Types
  <2>4. len < Whole(sent)
    BY <2>2, <2>3
  <2> QED
    BY <1>0, <2>1, <2>4, Refused
<1>3. CASE buf # buf_end /\ At(buf) \in {"cr", "lf"}
  <2>1. Return(FALSE) /\ p_head' = p_head
    BY <1>3 DEF StartHeader
  <2>2. NameEnd(sent) = HeaderAt(sent)
    <3>1. ByteOf(sent, buf) \notin TokenChars
      BY <1>0, <1>3 DEF Begin, TokenChars, Digits
    <3>2. Run(sent, buf, buf, TokenChars)
      BY <1>0, RunNone DEF Begin
    <3> QED
      BY <1>0, <1>1, <3>1, <3>2, Reached, NoControls DEF Begin, NameEnd
  <2>3. ~Continued(sent)
    BY <1>0, <1>1, <1>3 DEF Begin, Continued
  <2>4. ~WellFormed(sent)
    BY <1>0, <2>2, <2>3, Needs, Marks DEF Begin, NameOK
  <2> QED
    BY <1>0, <2>1, <2>4, Refused
<1>4. CASE buf # buf_end /\ At(buf) \in Blanks
  <2>1. Put("name", <<0, 0>>) /\ pc' = "value" /\ buf' = buf
    BY <1>4 DEF StartHeader, Goto
  <2>2. Continued(sent) /\ tok' = ValueAt(sent)
    BY <1>0, <1>1, <1>4, Marks DEF Begin, Continued
  <2>3. /\ p_head'.name = <<0, 0>> /\ p_head'.res_code = p_head.res_code
        /\ p_head'.version = p_head.version
        /\ p_head'.method = p_head.method /\ p_head'.path = p_head.path
    BY <1>0, <2>1, PutField DEF Begin, Start
  <2>4. NameHeld(sent, p_head')
    BY <1>1, <2>2, <2>3, HeldOn DEF NameHeld, NameOK, NameText
  <2>5. Run(sent, tok', buf', LineChars)
    BY <1>0, <1>1, <2>1, RunNone DEF Begin
  <2> QED
    BY <1>0, <2>1, <2>2, <2>3, <2>4, <2>5
    DEF Begin, Follows, InRequest, InStatus, InHeader, ParsesTheGrammar
<1>5. CASE buf # buf_end /\ At(buf) \notin {"cr", "lf"} \cup Blanks
  <2>1. pc' = "name" /\ buf' = buf /\ p_head' = p_head
    BY <1>5 DEF StartHeader, Goto
  <2>2. ~Continued(sent)
    BY <1>0, <1>1, <1>5 DEF Begin, Continued
  <2>3. tok' = HeaderAt(sent) /\ Run(sent, tok', buf', TokenChars)
    BY <1>0, <1>1, <2>1, RunNone DEF Begin
  <2> QED
    BY <1>0, <1>1, <2>1, <2>2, <2>3
    DEF Begin, Follows, InRequest, InStatus, InHeader, ParsesTheGrammar
<1> QED
  BY <1>2, <1>3, <1>4, <1>5

(* One byte of the name, or the colon behind it.                           *)
LEMMA NameFollows ==
  ASSUME IInv, Follows, ParseName
  PROVE  Follows'
<1>0. Begin
  BY Begins DEF ParseName
<1>1. /\ pc = "name" /\ tok' = tok /\ LineHeld(sent, p_head) /\ LineOK(sent)
      /\ ~Continued(sent) /\ tok = HeaderAt(sent) /\ Run(sent, tok, buf, TokenChars)
  BY DEF ParseName, Follows, InHeader
<1>2. /\ ByteOf(sent, buf) \in TokenChars => buf < NameEnd(sent)
      /\ ByteOf(sent, buf) \notin TokenChars => buf = NameEnd(sent)
  BY <1>0, <1>1, Reached, NoControls DEF Begin, NameEnd
<1>3. CASE At(buf) = "colon"
  <2>1. buf = NameEnd(sent) /\ ByteOf(sent, NameEnd(sent)) = "colon"
    BY <1>0, <1>2, <1>3 DEF Begin, TokenChars, Digits
  <2>2. Put("name", <<tok, buf - tok>>)
    BY <1>3 DEF ParseName
  <2>3. /\ p_head'.name = NameText(sent) /\ p_head'.res_code = p_head.res_code
        /\ p_head'.version = p_head.version
        /\ p_head'.method = p_head.method /\ p_head'.path = p_head.path
    BY <1>0, <1>1, <2>1, <2>2, PutField DEF Begin, Start, NameText
  <2>4. CASE buf = tok
    <3>1. Return(FALSE)
      BY <1>3, <2>4 DEF ParseName
    <3>2. ~WellFormed(sent)
      <4>1. NameEnd(sent) = HeaderAt(sent) /\ HeaderAt(sent) \in Nat
        BY <1>0, <1>1, <2>1, <2>4, Marks DEF Begin
      <4>2. ~NameOK(sent)
        BY <1>1, <4>1 DEF NameOK
      <4> QED
        BY <1>0, <4>2, Needs DEF Begin
    <3> QED
      BY <1>0, <2>3, <3>1, <3>2, Refused
  <2>5. CASE buf # tok
    <3>1. pc' = "sp_value" /\ buf' = NameEnd(sent) + 1
      BY <1>3, <2>1, <2>5 DEF ParseName, Goto
    <3>2. NameOK(sent)
      BY <1>0, <1>1, <2>1, <2>5, Marks DEF Begin, NameOK
    <3>3. NameHeld(sent, p_head')
      BY <1>1, <2>3, <3>2, HeldOn DEF NameHeld
    <3>4. Run(sent, NameEnd(sent) + 1, buf', Blanks)
      BY <1>0, <2>1, <3>1, RunNone DEF Begin
    <3> QED
      BY <1>0, <1>1, <2>3, <3>1, <3>3, <3>4
      DEF Begin, Follows, InRequest, InStatus, InHeader, ParsesTheGrammar
  <2> QED
    BY <2>4, <2>5
<1>4. CASE At(buf) # "colon" /\ At(buf) \in TokenChars
  <2>1. Advance("name") /\ p_head' = p_head
    BY <1>4 DEF ParseName
  <2>2. CASE buf + 1 = buf_end
    <3>1. len < Whole(sent)
      BY <1>0, <1>1, <1>2, <1>4, <2>2, Marks DEF Begin, buf_end
    <3> QED
      BY <1>0, <2>1, <2>2, <3>1, Refused DEF Advance
  <2>3. CASE buf + 1 # buf_end
    <3>1. pc' = "name" /\ buf' = buf + 1
      BY <2>1, <2>3 DEF Advance, Goto
    <3>2. Run(sent, tok, buf', TokenChars)
      BY <1>0, <1>1, <1>4, <3>1, RunMore DEF Begin
    <3> QED
      BY <1>0, <1>1, <2>1, <3>1, <3>2
      DEF Begin, Follows, InRequest, InStatus, InHeader, ParsesTheGrammar
  <2> QED
    BY <2>2, <2>3
<1>5. CASE At(buf) # "colon" /\ At(buf) \notin TokenChars
  <2>1. Return(FALSE) /\ p_head' = p_head
    BY <1>5 DEF ParseName
  <2>2. ~WellFormed(sent)
    BY <1>0, <1>1, <1>2, <1>5, Needs DEF Begin, NameOK
  <2> QED
    BY <1>0, <2>1, <2>2, Refused
<1> QED
  BY <1>3, <1>4, <1>5

(* Blanks in front of the value.                                           *)
LEMMA ToValueFollows ==
  ASSUME IInv, Follows, SkipToValue
  PROVE  Follows'
<1>0. Begin
  BY Begins DEF SkipToValue
<1>1. /\ pc = "sp_value" /\ tok' = buf /\ p_head' = p_head /\ NameHeld(sent, p_head)
      /\ ~Continued(sent) /\ Run(sent, NameEnd(sent) + 1, buf, Blanks)
  BY DEF SkipToValue, Follows, InHeader
<1>2. /\ buf <= ValueAt(sent)
      /\ ByteOf(sent, buf) \notin Blanks => buf = ValueAt(sent)
  <2>1. NameEnd(sent) + 1 \in Nat /\ NameEnd(sent) + 1 >= 1
    BY <1>0, Marks DEF Begin
  <2> QED
    BY <1>0, <1>1, <2>1, Reached, NoControls DEF Begin, ValueAt
<1>3. CASE buf = buf_end
  <2>1. Return(FALSE)
    BY <1>3 DEF SkipToValue
  <2>2. len < Whole(sent)
    BY <1>0, <1>1, <1>2, <1>3, Marks DEF Begin, buf_end
  <2> QED
    BY <1>0, <1>1, <2>1, <2>2, Refused
<1>4. CASE buf # buf_end /\ At(buf) \in Blanks
  <2>1. pc' = "sp_value" /\ buf' = buf + 1
    BY <1>4 DEF SkipToValue, Goto
  <2>2. Run(sent, NameEnd(sent) + 1, buf', Blanks)
    <3>1. NameEnd(sent) + 1 \in Nat /\ buf \in Nat /\ ByteOf(sent, buf) \in Blanks
      BY <1>0, <1>4, Marks DEF Begin
    <3> QED
      BY <1>1, <2>1, <3>1, RunMore
  <2> QED
    BY <1>0, <1>1, <2>1, <2>2
    DEF Begin, Follows, InRequest, InStatus, InHeader, ParsesTheGrammar
<1>5. CASE buf # buf_end /\ At(buf) \notin Blanks
  <2>1. pc' = "value" /\ buf' = buf
    BY <1>5 DEF SkipToValue, Goto
  <2>2. tok' = ValueAt(sent) /\ Run(sent, tok', buf', LineChars)
    BY <1>0, <1>1, <1>2, <1>5, <2>1, RunNone DEF Begin
  <2> QED
    BY <1>0, <1>1, <2>1, <2>2
    DEF Begin, Follows, InRequest, InStatus, InHeader, ParsesTheGrammar
<1> QED
  BY <1>3, <1>4, <1>5

(* What get_token_to_eol has passed over, and where the line ends.         *)
TokenEnd == IF pc = "value" THEN ValueEnd(sent) ELSE LineEnd(sent)

(* get_token_to_eol stays on the line it is on.                            *)
LEMMA TokenAt ==
  ASSUME Begin, Follows, IInv, InToken
  PROVE  /\ Run(sent, tok, buf, LineChars) /\ buf <= TokenEnd
         /\ ByteOf(sent, buf) \notin LineChars => buf = TokenEnd
         /\ pc = "value" => NameHeld(sent, p_head) /\ tok = ValueAt(sent)
         /\ pc = "reason" => LineHeld(sent, p_head) /\ tok = StatusAt(sent) + 3
                             /\ sent.call = "response"
<1>1. /\ pc \in {"value", "reason"} /\ Run(sent, tok, buf, LineChars)
      /\ pc = "value" => NameHeld(sent, p_head) /\ tok = ValueAt(sent)
      /\ pc = "reason" => LineHeld(sent, p_head) /\ tok = StatusAt(sent) + 3
                          /\ sent.call = "response"
  BY DEF InToken, Follows, InStatus, InHeader, IInv, Ways, Begin
<1>2. EndOf(sent, tok, LineChars) = TokenEnd
  BY <1>1 DEF TokenEnd, ValueEnd, LineEnd
<1>3. /\ buf <= EndOf(sent, tok, LineChars)
      /\ ByteOf(sent, buf) \notin LineChars => buf = EndOf(sent, tok, LineChars)
  BY <1>1, Reached, NoControls DEF Begin
<1> QED
  BY <1>1, <1>2, <1>3

(* One byte of the value or the reason.                                    *)
LEMMA RowFollows ==
  ASSUME IInv, Follows, BeginRow \/ RowByte \/ LastByte
  PROVE  Follows'
<1>0. Begin /\ InToken
  BY Begins DEF BeginRow, RowByte, LastByte
<1>1. /\ p_head' = p_head /\ tok' = tok
      /\ \/ pc' = pc /\ buf' = buf
         \/ pc' = pc /\ buf' = buf + 1 /\ ~EndsToken(At(buf))
         \/ buf = buf_end /\ Return(FALSE)
  BY DEF BeginRow, RowByte, LastByte, Goto, locals
<1>2. /\ Run(sent, tok, buf, LineChars) /\ buf <= TokenEnd
      /\ pc = "value" => NameHeld(sent, p_head) /\ tok = ValueAt(sent)
      /\ pc = "reason" => LineHeld(sent, p_head) /\ tok = StatusAt(sent) + 3
  BY <1>0, TokenAt
<1>3. CASE buf = buf_end /\ Return(FALSE)
  <2>1. TokenEnd \in Nat /\ TokenEnd <= Whole(sent)
    BY <1>0, Marks DEF Begin, TokenEnd
  <2>2. len + 1 = buf /\ len \in Nat /\ Whole(sent) \in Nat
    BY <1>0, <1>3, Marks DEF Begin, buf_end
  <2>3. len < Whole(sent)
    BY <1>2, <2>1, <2>2
  <2> QED
    BY <1>0, <1>1, <1>3, <2>3, Refused
<1>4. CASE pc' = pc /\ (buf' = buf \/ (buf' = buf + 1 /\ ~EndsToken(At(buf))))
  <2>1. Run(sent, tok, buf', LineChars)
    <3>1. ~EndsToken(At(buf)) => ByteOf(sent, buf) \in LineChars
      BY <1>0 DEF Begin, EndsToken, LineChars
    <3> QED
      BY <1>0, <1>2, <1>4, <3>1, RunMore DEF Begin
  <2> QED
    BY <1>0, <1>1, <1>2, <1>4, <2>1
    DEF Begin, Follows, InRequest, InStatus, InHeader, ParsesTheGrammar, InToken
<1> QED
  BY <1>1, <1>3, <1>4

(* The end of a line: the reason or the value is put in p_head.            *)
LEMMA EndTokenFollows ==
  ASSUME Begin, IInv, NEW e \in Nat, EndToken(e - tok), tok' = tok,
         pc \in {"reason", "lf_reason"} => /\ LineHeld(sent, p_head) /\ LineOK(sent)
                                           /\ buf + 1 = HeaderAt(sent),
         pc \in {"value", "lf_value"} => /\ NameHeld(sent, p_head) /\ WellFormed(sent)
                                         /\ tok = ValueAt(sent) /\ e = ValueEnd(sent)
                                         /\ buf = Whole(sent),
         pc \in {"reason", "lf_reason", "value", "lf_value"}
  PROVE  Follows'
<1>1. /\ Put("value", <<tok, e - tok>>) /\ buf' = buf + 1
      /\ pc' = IF pc \in {"reason", "lf_reason"} THEN "message" ELSE "trim"
  BY DEF EndToken, Goto
<1>2. /\ p_head'.value = <<tok, e - tok>> /\ p_head'.res_code = p_head.res_code
      /\ p_head'.version = p_head.version /\ p_head'.name = p_head.name
      /\ p_head'.method = p_head.method /\ p_head'.path = p_head.path
  BY <1>1, PutField DEF Begin, Start
<1>3. /\ LineHeld(sent, p_head) => LineHeld(sent, p_head')
      /\ NameHeld(sent, p_head) => NameHeld(sent, p_head')
  BY <1>2, HeldOn DEF NameHeld
<1> QED
  BY <1>1, <1>2, <1>3 DEF Begin, Follows, InRequest, InStatus, InHeader, ParsesTheGrammar

(* A control character ends the value or the reason.                       *)
LEMMA FoundFollows ==
  ASSUME IInv, Follows, FoundCtl
  PROVE  Follows'
<1>0. Begin /\ InToken
  BY Begins DEF FoundCtl
<1>1. tok' = tok /\ EndsToken(At(buf)) /\ pc \in {"value", "reason"}
  BY DEF FoundCtl, InToken
<1>2. /\ buf = TokenEnd
      /\ pc = "value" => NameHeld(sent, p_head) /\ tok = ValueAt(sent)
      /\ pc = "reason" => LineHeld(sent, p_head) /\ tok = StatusAt(sent) + 3
                          /\ sent.call = "response"
  <2>1. ByteOf(sent, buf) \notin LineChars
    BY <1>0, <1>1 DEF Begin, EndsToken, LineChars, Controls
  <2> QED
    BY <1>0, <2>1, TokenAt
<1>3. CASE At(buf) = "cr"
  <2>1. /\ p_head' = p_head /\ buf' = buf + 1
        /\ pc' = IF pc = "value" THEN "lf_value" ELSE "lf_reason"
    BY <1>3 DEF FoundCtl, Goto
  <2>2. ByteOf(sent, TokenEnd) = "cr"
    BY <1>0, <1>2, <1>3 DEF Begin
  <2>3. CASE pc = "value"
    BY <1>0, <1>1, <1>2, <2>1, <2>2, <2>3
    DEF Begin, Follows, InRequest, InStatus, InHeader, ParsesTheGrammar, TokenEnd
  <2>4. CASE pc = "reason"
    BY <1>0, <1>1, <1>2, <2>1, <2>2, <2>4
    DEF Begin, Follows, InRequest, InStatus, InHeader, ParsesTheGrammar, TokenEnd
  <2> QED
    BY <1>1, <2>3, <2>4
<1>4. CASE At(buf) = "lf"
  <2>1. EndToken(buf - tok)
    BY <1>4 DEF FoundCtl
  <2>2. ASSUME pc = "reason"
        PROVE  LineHeld(sent, p_head) /\ LineOK(sent) /\ buf + 1 = HeaderAt(sent)
    BY <1>0, <1>2, <1>4, <2>2
    DEF Begin, TokenEnd, LineOK, LineHeld, VersionHeld, EndsLine, HeaderAt, NextLine
  <2>3. ASSUME pc = "value"
        PROVE  /\ NameHeld(sent, p_head) /\ WellFormed(sent)
               /\ tok = ValueAt(sent) /\ buf = ValueEnd(sent) /\ buf = Whole(sent)
    BY <1>0, <1>2, <1>4, <2>3
    DEF Begin, TokenEnd, NameHeld, WellFormed, EndsLine, Whole, NextLine
  <2> QED
    BY <1>0, <1>1, <2>1, <2>2, <2>3, EndTokenFollows DEF Begin
<1>5. CASE At(buf) \notin {"cr", "lf"}
  <2>1. Return(FALSE) /\ p_head' = p_head
    BY <1>5 DEF FoundCtl
  <2>2. ~WellFormed(sent)
    BY <1>0, <1>1, <1>2, <1>5, Needs DEF Begin, TokenEnd, EndsLine
  <2> QED
    BY <1>0, <2>1, <2>2, Refused
<1> QED
  BY <1>3, <1>4, <1>5

(* The line feed that ends the value or the reason.                        *)
LEMMA TokenLFFollows ==
  ASSUME IInv, Follows, TokenLF
  PROVE  Follows'
<1>0. Begin
  BY Begins DEF TokenLF
<1> DEFINE e == IF pc = "lf_value" THEN ValueEnd(sent) ELSE LineEnd(sent)
<1>1. /\ tok' = tok /\ pc \in {"lf_value", "lf_reason"}
      /\ buf = e + 1 /\ ByteOf(sent, e) = "cr"
      /\ pc = "lf_value" => NameHeld(sent, p_head) /\ tok = ValueAt(sent)
      /\ pc = "lf_reason" => LineHeld(sent, p_head) /\ sent.call = "response"
  BY <1>0 DEF TokenLF, Follows, InStatus, InHeader, IInv, Ways, Begin
<1>2. e \in Nat /\ buf - 1 = e
  BY <1>0, <1>1, Marks DEF Begin
<1>3. CASE buf = buf_end \/ At(buf) # "lf"
  <2>1. Return(FALSE) /\ p_head' = p_head
    BY <1>3 DEF TokenLF
  <2>2. ~WellFormed(sent) \/ len < Whole(sent)
    <3>1. CASE At(buf) # "lf"
      BY <1>0, <1>1, <3>1, Needs DEF Begin, EndsLine
    <3>2. CASE buf = buf_end /\ pc = "lf_value"
      BY <1>0, <1>1, <1>2, <3>2 DEF Begin, buf_end, Whole, NextLine
    <3>3. CASE buf = buf_end /\ pc = "lf_reason"
      BY <1>0, <1>1, <1>2, <3>3, Marks DEF Begin, buf_end
    <3> QED
      BY <1>1, <1>3, <3>1, <3>2, <3>3
  <2> QED
    BY <1>0, <2>1, <2>2, Refused
<1>4. CASE ~(buf = buf_end \/ At(buf) # "lf")
  <2>1. EndToken(e - tok)
    BY <1>2, <1>4 DEF TokenLF
  <2>2. ASSUME pc = "lf_reason"
        PROVE  LineHeld(sent, p_head) /\ LineOK(sent) /\ buf + 1 = HeaderAt(sent)
    BY <1>0, <1>1, <1>2, <1>4, <2>2
    DEF Begin, LineOK, LineHeld, VersionHeld, EndsLine, HeaderAt, NextLine
  <2>3. ASSUME pc = "lf_value"
        PROVE  /\ NameHeld(sent, p_head) /\ WellFormed(sent)
               /\ tok = ValueAt(sent) /\ e = ValueEnd(sent) /\ buf = Whole(sent)
    BY <1>0, <1>1, <1>2, <1>4, <2>3
    DEF Begin, NameHeld, WellFormed, EndsLine, Whole, NextLine
  <2> HIDE DEF e
  <2> QED
    BY <1>0, <1>1, <1>2, <2>1, <2>2, <2>3, EndTokenFollows
<1> QED
  BY <1>3, <1>4

(* What trim takes off is what the grammar leaves off.                     *)
LEMMA LengthIs ==
  ASSUME NEW m \in MessageType, NEW n \in Nat, n <= ValueEnd(m) - ValueAt(m), IsLength(m, n)
  PROVE  n = ValueLength(m)
<1>1. ValueAt(m) \in Nat /\ ValueEnd(m) \in Nat /\ ValueAt(m) <= ValueEnd(m)
  BY Marks
<1> DEFINE w == ValueEnd(m) - ValueAt(m)
           k == ValueLength(m)
<1>2. n \in 0..w
  BY <1>1
<1>3. k \in 0..w /\ IsLength(m, k)
  BY <1>2 DEF ValueLength
<1>4. w \in Nat /\ w - 1 = ValueEnd(m) - ValueAt(m) - 1
  BY <1>1
<1> HIDE DEF w, k
<1>5. \A x, y \in 0..w : IsLength(m, x) /\ IsLength(m, y) => ~(x < y)
  <2> SUFFICES ASSUME NEW x \in 0..w, NEW y \in 0..w, IsLength(m, x), IsLength(m, y), x < y
               PROVE  FALSE
    OBVIOUS
  <2>1. y > 0 /\ y - 1 \in x..(w - 1) /\ ValueAt(m) + y - 1 = ValueAt(m) + (y - 1)
    BY <1>1, <1>4
  <2>2. ByteOf(m, ValueAt(m) + y - 1) \notin Blanks
    BY <2>1 DEF IsLength
  <2>3. ByteOf(m, ValueAt(m) + (y - 1)) \in Blanks
    BY <1>4, <2>1 DEF IsLength
  <2> QED
    BY <2>1, <2>2, <2>3
<1> QED
  BY <1>2, <1>3, <1>4, <1>5 DEF k

(* The call returns true with the fields of the message.                   *)
LEMMA TrimFollows ==
  ASSUME IInv, Follows, TrimValue
  PROVE  Follows'
<1>0. Begin
  BY Begins DEF TrimValue
<1> DEFINE n == p_head.value[2]
           k == Trimmed(n)
           w == ValueEnd(sent) - ValueAt(sent)
<1>1. /\ pc = "trim" /\ NameHeld(sent, p_head) /\ WellFormed(sent) /\ buf = Whole(sent) + 1
      /\ tok = ValueAt(sent) /\ p_head.value = <<tok, w>>
  BY DEF TrimValue, Follows, InHeader
<1>2. n = w /\ w \in Nat
  BY <1>0, <1>1, Marks DEF Begin
<1>3. len >= Whole(sent)
  <2>1. ~LoneEmptyLine /\ buf <= buf_end
    BY <1>1 DEF IInv, Ways, StaysInside
  <2> QED
    BY <1>0, <1>1, <2>1, Marks DEF Begin, buf_end
<1>4. Put("value", <<tok, k>>) /\ pc' = "idle" /\ result' = TRUE
  BY DEF TrimValue, Return
<1>5. /\ k \in 0..w
      /\ \A i \in k..(w - 1) : At(tok + i) \in Blanks
      /\ k > 0 => At(tok + k - 1) \notin Blanks
  BY <1>0, <1>2, TrimmedIs DEF Begin
<1> HIDE DEF n, k
<1>6. k = ValueLength(sent)
  <2>1. IsLength(sent, k)
    BY <1>1, <1>5, AtIs DEF IsLength
  <2>2. k \in Nat /\ k <= w
    BY <1>2, <1>5
  <2> QED
    BY <1>0, <2>1, <2>2, LengthIs DEF Begin
<1>7. /\ p_head'.value = <<ValueAt(sent), ValueLength(sent)>>
      /\ p_head'.name = p_head.name /\ p_head'.method = p_head.method
      /\ p_head'.path = p_head.path /\ p_head'.version = p_head.version
      /\ p_head'.res_code = p_head.res_code
  BY <1>0, <1>1, <1>4, <1>6, PutField DEF Begin, Start
<1>8. /\ p_head.name = NameText(sent)
      /\ p_head.version = Value(ByteOf(sent, VersionAt(sent) + 7))
      /\ p_head.method = IF sent.call = "request"
                           THEN <<MethodAt(sent), MethodEnd(sent) - MethodAt(sent)>> ELSE <<0, 0>>
      /\ p_head.path = IF sent.call = "request"
                         THEN <<PathAt(sent), PathEnd(sent) - PathAt(sent)>> ELSE <<0, 0>>
      /\ p_head.res_code = IF sent.call = "request" THEN 0 ELSE StatusOf(sent)
  BY <1>0, <1>1
  DEF Begin, NameHeld, LineHeld, VersionHeld, PathHeld, MethodHeld, IInv, Ways
<1>9. p_head' = Reported(FieldsOf(sent))
  <2>1. p_head' = [p_head EXCEPT !["value"] = <<tok, k>>] /\ p_head \in Filled
    BY <1>0, <1>4 DEF Put, Begin, Start
  <2>2. p_head' = [name |-> p_head.name, value |-> <<tok, k>>, method |-> p_head.method,
                   path |-> p_head.path, version |-> p_head.version,
                   res_code |-> p_head.res_code, msg |-> <<0, 0>>]
    BY <2>1 DEF Filled
  <2> QED
    BY <1>1, <1>6, <1>8, <2>2 DEF FieldsOf, Reported
<1>10. ParsesTheGrammar'
  BY <1>0, <1>1, <1>3, <1>4, <1>9 DEF Begin, ParsesTheGrammar
<1>11. InRequest' /\ InStatus' /\ InHeader'
  BY <1>4 DEF InRequest, InStatus, InHeader
<1> QED
  BY <1>0, <1>7, <1>10, <1>11 DEF Begin, Follows

(* Every step of the parser follows the grammar.                           *)
LEMMA NextFollows == IInv /\ Follows /\ [Next]_vars => Follows'
<1> SUFFICES ASSUME IInv, Follows, [Next]_vars PROVE Follows'
  OBVIOUS
<1>1. CASE UNCHANGED vars
  <2>1. UNCHANGED <<sent, len, buf, pc, tok, unread, p_head, result>>
    BY <1>1 DEF vars
  <2> QED
    BY <2>1 DEF Follows, InRequest, InStatus, InHeader, ParsesTheGrammar
<1>2. CASE Arrive \/ peek_http_request
  BY <1>2, ArriveFollows, EmptyFollows, ExpectLFFollows, MethodFollows, ToPathFollows,
     PathFollows, ToVersionFollows, RequestLineFollows DEF peek_http_request
<1>3. CASE peek_http_response \/ parse_http_version
  BY <1>3, ToStatusFollows, StatusFollows, MessageFollows, VersionFollows
  DEF peek_http_response
<1>4. CASE parse_header \/ get_token_to_eol
  BY <1>4, HeaderFollows, NameFollows, ToValueFollows, TrimFollows, RowFollows, FoundFollows,
     TokenLFFollows DEF parse_header, get_token_to_eol
<1> QED
  BY <1>1, <1>2, <1>3, <1>4 DEF Next

(* The first call follows the grammar from the first byte on.              *)
LEMMA InitFollows == Init => Follows
<1> SUFFICES ASSUME Init PROVE Follows
  OBVIOUS
<1>1. /\ buf = 1 /\ p_head.res_code = 0
      /\ pc = IF sent.call = "request" THEN "empty" ELSE "version"
  BY DEF Init, Entry, NoFields
<1>2. sent.call # "request" => VersionAt(sent) = 1
  BY DEF VersionAt
<1> QED
  BY <1>1, <1>2 DEF Follows, InRequest, InStatus, InHeader, ParsesTheGrammar

(***************************************************************************)
(* http_peek.c parses its grammar: whatever is sent and however it arrives,*)
(* a call of peek_http_request or peek_http_response returns true exactly  *)
(* when a well-formed first line and first header have arrived in full,    *)
(* and p_head, used for all calls before, is then what is in them, but for *)
(* the reason phrase.                                                      *)
(***************************************************************************)
THEOREM ParsesTheGrammarTheorem == Spec => []ParsesTheGrammar
<1>1. Follows => ParsesTheGrammar
  BY DEF Follows
<1> QED
  BY <1>1, InitFollows, NextFollows, Invariance, PTL DEF Spec

(* The message that is sent is one of Messages, and stays the same.        *)
LEMMA SentAgreed ==
  ASSUME \A m \in Messages : Agreed(m)
  PROVE  Spec => []Agreed(sent)
<1>1. Init => Agreed(sent)
  BY DEF Init
<1>2. [Next]_vars => sent' = sent
  BY DEF Next, vars, Arrive, peek_http_request, peek_http_response, parse_http_version,
         parse_header, get_token_to_eol, SkipEmptyLine, ExpectLF, ParseMethod, SkipToPath,
         ParsePath, SkipToVersion, EndOfRequestLine, RequireSpace, SkipToStatus, ParseStatus,
         CheckMessage, StartHeader, ParseName, SkipToValue, TrimValue, BeginRow, RowByte,
         LastByte, FoundCtl, TokenLF
<1>3. Agreed(sent) /\ [Next]_vars => Agreed(sent)'
  BY <1>2
<1> QED
  BY <1>1, <1>3, PTL DEF Spec

(***************************************************************************)
(* When sender and grammar agree on the messages, the parser finds what    *)
(* was sent: it returns true when the first line and the first header are  *)
(* there in full and well-formed, and only then, and reports their fields, *)
(* but for the reason phrase.                                              *)
(***************************************************************************)
THEOREM ParsesWhatWasSentTheorem ==
  ASSUME \A m \in Messages : Agreed(m)
  PROVE  Spec => []ParsesWhatWasSent
<1>1. IInv /\ Agreed(sent) /\ ParsesTheGrammar => ParsesWhatWasSent
  <2> SUFFICES ASSUME IInv, Agreed(sent), ParsesTheGrammar, pc = "idle"
               PROVE  /\ result = (sent.whole > 0 /\ len >= sent.whole)
                      /\ result => p_head = Reported(sent.fields)
    BY DEF ParsesWhatWasSent
  <2>1. sent \in MessageType
    BY DEF IInv, Types
  <2>2. Whole(sent) \in Nat /\ Whole(sent) > 0
    BY <2>1, Marks
  <2>3. CASE WellFormed(sent)
    <3>1. sent.whole = Whole(sent) /\ sent.fields = FieldsOf(sent)
      BY <2>3 DEF Agreed
    <3>2. result = (len >= Whole(sent)) /\ (result => p_head = Reported(FieldsOf(sent)))
      BY <2>3 DEF ParsesTheGrammar
    <3>3. (sent.whole > 0) = TRUE
      BY <2>2, <3>1
    <3>4. (sent.whole > 0 /\ len >= sent.whole) = (len >= Whole(sent))
      BY <3>1, <3>3
    <3> QED
      BY <3>1, <3>2, <3>4
  <2>4. CASE ~WellFormed(sent)
    <3>1. sent.whole = 0 /\ result = FALSE
      BY <2>4 DEF Agreed, ParsesTheGrammar
    <3>2. (sent.whole > 0 /\ len >= sent.whole) = FALSE
      BY <3>1
    <3> QED
      BY <3>1, <3>2
  <2> QED
    BY <2>3, <2>4
<1> QED
  BY <1>1, SentAgreed, ParsesTheGrammarTheorem, Invariance, PTL

=============================================================================
