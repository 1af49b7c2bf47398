----------------------------- MODULE HttpGrammar -----------------------------
(***************************************************************************)
(* What HttpPeek has to find in a message: its first line and first header *)
(* as a grammar, without buffer, calls or state.  A message is cut at the  *)
(* ends of runs of bytes; it is well-formed if the runs are there and the  *)
(* bytes between them are the right ones.                                  *)
(***************************************************************************)
EXTENDS HttpPeek

ByteOf(m, i) == IF i <= Len(m.bytes) THEN m.bytes[i] ELSE "ctl"

(* From i on the bytes are of S, up to j, the first that is not.           *)
IsEnd(m, i, S, j) ==
  ByteOf(m, j) \notin S /\ \A k \in i..(j - 1) : ByteOf(m, k) \in S

EndOf(m, i, S) == CHOOSE j \in i..(i + Len(m.bytes)) : IsEnd(m, i, S, j)

Blanks == {"sp", "tab"}
PathChars == Bytes \ (Controls \cup {"sp"})
LineChars == (Bytes \ Controls) \cup {"tab"}

(* A line ends with a line feed, or with a carriage return and one.        *)
EndsLine(m, e) == \/ ByteOf(m, e) = "lf"
                  \/ ByteOf(m, e) = "cr" /\ ByteOf(m, e + 1) = "lf"
NextLine(m, e) == IF ByteOf(m, e) = "cr" THEN e + 2 ELSE e + 1

-----------------------------------------------------------------------------
(* A request line, after an empty line or none: method, path, version.     *)
MethodAt(m) == CASE ByteOf(m, 1) = "lf" -> 2 [] ByteOf(m, 1) = "cr" -> 3 [] OTHER -> 1
MethodEnd(m) == EndOf(m, MethodAt(m), TokenChars)
PathAt(m) == EndOf(m, MethodEnd(m), {"sp"})
PathEnd(m) == EndOf(m, PathAt(m), PathChars)

LeadOK(m) == ByteOf(m, 1) = "cr" => ByteOf(m, 2) = "lf"
MethodOK(m) == LeadOK(m) /\ ByteOf(m, MethodEnd(m)) = "sp"
PathOK(m) == MethodOK(m) /\ ByteOf(m, PathEnd(m)) = "sp"
RequestOK(m) == PathOK(m) /\ MethodEnd(m) > MethodAt(m)

(* The version stands at the end of one and at the beginning of the other. *)
VersionAt(m) == IF m.call = "request" THEN EndOf(m, PathEnd(m), {"sp"}) ELSE 1
VersionOK(m) ==
  /\ m.call = "request" => RequestOK(m)
  /\ \A i \in 1..7 : ByteOf(m, VersionAt(m) + i - 1) = Literal[i]
  /\ ByteOf(m, VersionAt(m) + 7) \in Digits

(* A status line: version, status, and the reason: any text or none, and   *)
(* also one that no space parts from the status.                           *)
StatusAt(m) == EndOf(m, 9, {"sp"})
StatusOK(m) ==
  ByteOf(m, 9) = "sp" /\ \A i \in 0..2 : ByteOf(m, StatusAt(m) + i) \in Digits
StatusOf(m) ==
  100 * Value(ByteOf(m, StatusAt(m))) + 10 * Value(ByteOf(m, StatusAt(m) + 1))
    + Value(ByteOf(m, StatusAt(m) + 2))

ReasonAt(m) == EndOf(m, StatusAt(m) + 3, {"sp"})

LineEnd(m) ==
  IF m.call = "request" THEN VersionAt(m) + 8 ELSE EndOf(m, StatusAt(m) + 3, LineChars)
LineOK(m) ==
  VersionOK(m) /\ (m.call = "response" => StatusOK(m)) /\ EndsLine(m, LineEnd(m))

-----------------------------------------------------------------------------
(* The header: name, colon, value; or, after a blank, only a value.        *)
HeaderAt(m) == NextLine(m, LineEnd(m))
Continued(m) == ByteOf(m, HeaderAt(m)) \in Blanks
NameEnd(m) == EndOf(m, HeaderAt(m), TokenChars)
ValueAt(m) == IF Continued(m) THEN HeaderAt(m) ELSE EndOf(m, NameEnd(m) + 1, Blanks)
ValueEnd(m) == EndOf(m, ValueAt(m), LineChars)

NameOK(m) == LineOK(m) /\ (Continued(m) \/ ( /\ NameEnd(m) > HeaderAt(m)
                                            /\ ByteOf(m, NameEnd(m)) = "colon"))
WellFormed(m) == NameOK(m) /\ EndsLine(m, ValueEnd(m))

(* The last byte of the header.                                            *)
Whole(m) == NextLine(m, ValueEnd(m)) - 1

NameText(m) == IF Continued(m) THEN <<0, 0>> ELSE <<HeaderAt(m), NameEnd(m) - HeaderAt(m)>>

(* The value is n long: from there on the line has only blanks.            *)
IsLength(m, n) ==
  /\ n > 0 => ByteOf(m, ValueAt(m) + n - 1) \notin Blanks
  /\ \A i \in n..(ValueEnd(m) - ValueAt(m) - 1) : ByteOf(m, ValueAt(m) + i) \in Blanks

ValueLength(m) == CHOOSE n \in 0..(ValueEnd(m) - ValueAt(m)) : IsLength(m, n)

FieldsOf(m) ==
  [name     |-> NameText(m),
   value    |-> <<ValueAt(m), ValueLength(m)>>,
   method   |-> IF m.call = "request" THEN <<MethodAt(m), MethodEnd(m) - MethodAt(m)>>
                ELSE <<0, 0>>,
   path     |-> IF m.call = "request" THEN <<PathAt(m), PathEnd(m) - PathAt(m)>> ELSE <<0, 0>>,
   version  |-> Value(ByteOf(m, VersionAt(m) + 7)),
   res_code |-> IF m.call = "request" THEN 0 ELSE StatusOf(m),
   msg      |-> IF m.call = "request" THEN <<0, 0>>
                ELSE <<ReasonAt(m), LineEnd(m) - ReasonAt(m)>>]

(* The sender of a message and the grammar agree on what is in it.         *)
Agreed(m) ==
  /\ WellFormed(m) => m.whole = Whole(m) /\ m.fields = FieldsOf(m)
  /\ ~WellFormed(m) => m.whole = 0

=============================================================================
