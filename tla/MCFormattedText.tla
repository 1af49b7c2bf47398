--------------------------- MODULE MCFormattedText ---------------------------
(* FormattedText for model checking, with the functions of TextLine: every *)
(* short line as a file of one line, and files of two lines.               *)
EXTENDS FormattedText

Line == INSTANCE TextLine

MCFormatLine(l, f) == Line!format_line(l, f)
MCCheckLine(l, f) == Line!check_line(l, f)

MCShort == {<<>>, <<"x", "c", "c", "x", "c">>, <<"c", "c">>, <<"x", "c", "t">>, <<"c", "x", "c", "s">>}
MCSingle == SeqOf(Line!Kinds, 3) \cup MCShort

MCOriginals == {<<l>> : l \in MCSingle} \cup {<<l, m>> : l \in MCShort, m \in MCShort}

(* The lines of the originals and what formatting makes of them.           *)
Formatted(S) == S \cup {MCFormatLine(l, f) : l \in S, f \in FlagSets}
MCLines == Formatted(Formatted(MCSingle))

=============================================================================
