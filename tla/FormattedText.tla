---------------------------- MODULE FormattedText ----------------------------
(***************************************************************************)
(* The formatter of formatted_text at work on files: formatting_check and  *)
(* formatting_file with its backup, and what a crash, a full disk or a     *)
(* file that cannot be opened leave behind.                                *)
(*                                                                         *)
(* A file is its lines and whether the last one ends with a newline.  A    *)
(* stream is opened, which empties the file, and its content reaches the   *)
(* file when it is closed, or before when the stream's buffer is full.     *)
(***************************************************************************)
EXTENDS Integers, SequencesExt

CONSTANTS
  Lines,      \* the lines there may be
  FormatLine(_, _),  \* a line, formatted with these flags: see TextLine
  CheckLine(_, _),   \* whether the check with these flags wants the line
  Originals,  \* the sequences of lines the file may consist of at first
  FlagSets,   \* the flags of a call: "i", "e", "c", "b"
  Saves,      \* p_save_path: "path" (NULL) and "out"
  Faults,     \* what may go wrong: a subset of FaultNames
  Reuse,      \* TRUE: one format_officer for several calls
  MaxCalls    \* bound: calls of the library

FaultNames == {"crash", "open", "read", "disk full", "large"}
Paths == {"path", "bak", "out"}

(* What is left of a line without its blanks.                              *)
Text(l) == SelectSeq(l, LAMBDA k : k \notin {"s", "t"})

ASSUME FormattedTextAssumption ==
  /\ Originals \subseteq Seq(Lines) \ {<<>>}
  /\ FlagSets \subseteq SUBSET {"i", "e", "c", "b"}
  /\ Saves \subseteq {"path", "out"}
  /\ Faults \subseteq FaultNames
  /\ Reuse \in BOOLEAN /\ MaxCalls \in Nat

(* Formatting a line gives a line, and only blanks come and go.            *)
ASSUME FormatterAssumption ==
  \A l \in Lines, f \in FlagSets :
    FormatLine(l, f) \in Lines /\ Text(FormatLine(l, f)) = Text(l)

NoFile == [lines |-> <<>>, newline |-> FALSE, kind |-> "none"]
TextFile(lines, newline) == [lines |-> lines, newline |-> newline, kind |-> "text"]
Empty == TextFile(<<>>, FALSE)

VARIABLES
  file,      \* the files
  line_vec,  \* format_officer::line_vec
  flags, p_save_path,
  pc,        \* where formatting_file is
  result,    \* what the last call returned: "none" before the first
  first,     \* the file before the first call
  start,     \* the file before the current call
  excused,   \* what has happened that the promises to the user leave out
  calls

call == <<flags, p_save_path>>
vars == <<file, line_vec, call, pc, result, first, start, excused, calls>>

(***************************************************************************)
(* In excused: "unbacked" when the file was to be overwritten without -b,  *)
(* "cut" when it was formatted after a crash had left a part of it, or     *)
(* when an error ended the reading of it; "backup" when a backup did not   *)
(* reach the disk.  Of the current call only: "read" when its reading      *)
(* ended early, "save" when what it saved did not reach the disk.          *)
(***************************************************************************)

(* A file without lines has no last line; "other" stands for a directory,  *)
(* a device, a file that is too large and an ELF file.                     *)
Inputs ==
  {NoFile, [NoFile EXCEPT !.kind = "other"], Empty}
    \cup {TextFile(ls, TRUE) : ls \in Originals}
    \cup {TextFile(ls, FALSE) : ls \in {l \in Originals : Last(l) # <<>>}}

Init ==
  /\ \E f \in Inputs : first = f /\ start = f
                       /\ file = [p \in Paths |-> IF p = "path" THEN f ELSE NoFile]
  /\ line_vec = <<>>
  /\ flags = {} /\ p_save_path = "path"
  /\ pc = "idle" /\ result = "none" /\ excused = {} /\ calls = 0

is_invalid_path == file["path"].kind # "text"

(* What the officer holds after a call, when it is used for another one.   *)
Kept(lines) == IF Reuse THEN lines ELSE <<>>

Return(r, lines) ==
  /\ pc' = "idle" /\ result' = r
  /\ line_vec' = Kept(lines)

format_each_line(lines, f) == [k \in DOMAIN lines |-> FormatLine(lines[k], f)]

-----------------------------------------------------------------------------
(* How many lines the loop of load_target_file reads: all, or fewer when   *)
(* an error ends it, which nobody notices.                                 *)
LinesRead ==
  LET n == Len(file["path"].lines)
  IN  {n} \cup {k \in 0..n : "read" \in Faults}

(* Variant with a fault: the last line counts only with its newline.       *)
LoadedTerminated(n) ==
  line_vec \o SubSeq(file["path"].lines, 1, IF file["path"].newline THEN n ELSE n - 1)

(* load_target_file adds to what line_vec holds.                           *)
Loaded(n) == line_vec \o SubSeq(file["path"].lines, 1, n)

(* file_is_elf cannot open or read the file, and ends the program.         *)
ElfTestExit ==
  /\ pc = "idle" /\ calls < MaxCalls
  /\ calls' = calls + 1
  /\ ~is_invalid_path /\ file["path"].lines # <<>> /\ "open" \in Faults
  /\ \E f \in FlagSets \ {{}} : flags' = f
  /\ result' = "exit" /\ line_vec' = <<>>
  /\ start' = file["path"]
  /\ UNCHANGED <<file, p_save_path, pc, first, excused>>

(* formatting_check reads only.                                            *)
formatting_check ==
  /\ pc = "idle" /\ calls < MaxCalls
  /\ calls' = calls + 1
  /\ \E f \in FlagSets, n \in LinesRead :
       /\ "c" \in f
       /\ flags' = f
       /\ LET bad == is_invalid_path \/ f \cap {"i", "e"} = {} IN
          Return(IF ~bad /\ \E k \in DOMAIN Loaded(n) : CheckLine(Loaded(n)[k], f)
                   THEN "true" ELSE "false",
                 IF is_invalid_path THEN line_vec ELSE Loaded(n))
  /\ start' = file["path"]
  /\ UNCHANGED <<file, p_save_path, first, excused>>

formatting_check_unread ==
  /\ pc = "idle" /\ calls < MaxCalls
  /\ calls' = calls + 1
  /\ \E f \in FlagSets : "c" \in f /\ flags' = f
  /\ ~is_invalid_path /\ "open" \in Faults
  /\ Return("false", line_vec)
  /\ start' = file["path"]
  /\ UNCHANGED <<file, p_save_path, first, excused>>

-----------------------------------------------------------------------------
(* formatting_file                                                         *)

TextOf(f) == [k \in DOMAIN f.lines |-> Text(f.lines[k])]

(* What a call gives up from the start.                                    *)
Excused(f, save) ==
  {e \in {"unbacked", "cut"} :
     \/ e = "unbacked" /\ "b" \notin f /\ save = "path"
     \/ e = "cut" /\ TextOf(file["path"]) \notin {<<>>, TextOf(first)}}

FormatCall ==
  /\ pc = "idle" /\ calls < MaxCalls
  /\ calls' = calls + 1
  /\ \E f \in FlagSets, save \in Saves :
       /\ "c" \notin f
       /\ flags' = f /\ p_save_path' = save
       /\ IF f = {} \/ is_invalid_path
            THEN Return("false", line_vec) /\ UNCHANGED excused
            ELSE /\ pc' = "load" /\ UNCHANGED <<line_vec, result>>
                 /\ excused' = (excused \ {"read", "save"}) \cup Excused(f, save)
  /\ start' = file["path"]
  /\ UNCHANGED <<file, first>>

Stays == UNCHANGED <<call, first, start, calls>>
Lasting == Stays /\ UNCHANGED excused

(* read_and_backup: the file is read; then comes the backup, if any.       *)
Load ==
  /\ pc = "load"
  /\ \E n \in LinesRead :
       /\ line_vec' = Loaded(n)
       /\ excused' = IF n = Len(file["path"].lines) THEN excused
                     ELSE excused \cup {"read", "cut"}
  /\ pc' = IF "b" \in flags THEN "backup" ELSE "format"
  /\ UNCHANGED <<file, result>> /\ Stays

(* Variant with a fault: it is noticed when the file is already emptied.   *)
OpenFailLate ==
  /\ pc \in {"load", "backup", "save"} /\ "open" \in Faults
  /\ Return("false", line_vec)
  /\ file' = [file EXCEPT !["path"] = Empty] /\ Lasting

(* open failed in load_target_file or in a save_to_file.                   *)
OpenFail ==
  /\ pc \in {"load", "backup", "save"} /\ "open" \in Faults
  /\ Return("false", line_vec)
  /\ UNCHANGED file /\ Lasting

(* Variant with a fault: save_to_file writes also when there is nothing.   *)
BackupOpenEmpty ==
  /\ pc = "backup"
  /\ file' = [file EXCEPT !["bak"] = Empty]
  /\ pc' = "backup close"
  /\ UNCHANGED <<line_vec, result>> /\ Lasting

(* save_to_file: the stream is opened for writing; ...                     *)
BackupOpen ==
  /\ pc = "backup" /\ line_vec # <<>>
  /\ file' = [file EXCEPT !["bak"] = Empty]
  /\ pc' = "backup close"
  /\ UNCHANGED <<line_vec, result>> /\ Lasting

(* ... it returns true without a look at the state of the stream.          *)
Written(p, e) ==
  \/ /\ file' = [file EXCEPT ![p] = TextFile(line_vec, line_vec # <<>>)]
     /\ UNCHANGED excused
  \/ /\ "disk full" \in Faults
     /\ excused' = excused \cup {e}
     /\ UNCHANGED file

(* The lines of a large file go to the disk by the buffer: a part of them  *)
(* is there before the rest.                                               *)
WritePart ==
  /\ pc \in {"backup close", "save close"} /\ "large" \in Faults
  /\ LET p == IF pc = "backup close" THEN "bak" ELSE p_save_path IN
       /\ Len(file[p].lines) < Len(line_vec) - 1
       /\ file' = [file EXCEPT ![p] = TextFile(SubSeq(line_vec, 1, Len(@.lines) + 1), TRUE)]
  /\ UNCHANGED <<pc, line_vec, result>> /\ Lasting

BackupClose ==
  /\ pc = "backup close"
  /\ Written("bak", "backup")
  /\ pc' = "format"
  /\ UNCHANGED <<line_vec, result>> /\ Stays

(* Nothing to write: the backup, or the save, fails, and with it the call. *)
NothingToWrite ==
  /\ pc \in {"backup", "save"} /\ line_vec = <<>>
  /\ Return("false", line_vec)
  /\ UNCHANGED file /\ Lasting

format_check_each_line ==
  /\ pc = "format"
  /\ line_vec' = format_each_line(line_vec, flags)
  /\ pc' = "save"
  /\ UNCHANGED <<file, result>> /\ Lasting

SaveOpen ==
  /\ pc = "save" /\ line_vec # <<>>
  /\ file' = [file EXCEPT ![p_save_path] = Empty]
  /\ pc' = "save close"
  /\ UNCHANGED <<line_vec, result>> /\ Lasting

SaveClose ==
  /\ pc = "save close"
  /\ Written(p_save_path, "save")
  /\ Return("true", line_vec)
  /\ Stays

formatting_file ==
  \/ FormatCall \/ Load \/ OpenFail
  \/ BackupOpen \/ WritePart \/ BackupClose \/ NothingToWrite
  \/ format_check_each_line \/ SaveOpen \/ SaveClose

(* The process ends in the middle of a call; the next call is by another.  *)
Crash ==
  /\ pc # "idle" /\ "crash" \in Faults
  /\ pc' = "idle" /\ line_vec' = <<>> /\ result' = "crashed"
  /\ UNCHANGED file /\ Lasting

Next ==
  \/ formatting_check \/ formatting_check_unread \/ formatting_file
  \/ ElfTestExit \/ Crash

Spec == Init /\ [][Next]_vars

-----------------------------------------------------------------------------
Succeeded == result = "true" /\ pc = "idle" /\ "c" \notin flags /\ "save" \notin excused

(***************************************************************************)
(* A formatting that succeeds saves the lines of the file it was given, as *)
(* many and with the same text: only blanks are added and taken away.  The *)
(* file itself is as it was when the output goes elsewhere.  Not so when   *)
(* an error ended the reading, which counts as the end of the file.        *)
(***************************************************************************)
SavesTheLines ==
  Succeeded /\ "read" \notin excused =>
    /\ TextOf(file[p_save_path]) = TextOf(start)
    /\ p_save_path # "path" => file["path"] = start

(***************************************************************************)
(* What add_line_space achieves: a run of characters that IS_CH holds of   *)
(* is set off by spaces, but for the first two characters of a line, which *)
(* may touch (formatted_text.cpp:231, 237).  That is less than the         *)
(* repository's README.md:33 says of the characters 32 to 127: parentheses *)
(* are not set off from what is beyond them (22), and a line may begin     *)
(* with a character of each sort side by side.                             *)
(***************************************************************************)
Separated(l) ==
  \A k \in 2..(Len(l) - 1) : (l[k] = "c") # (l[k + 1] = "c") => "s" \in {l[k], l[k + 1]}

(* What a line formatted with flags f is like: with -i runs are set off by *)
(* spaces, with -e no blank ends it, formatting it again with the same     *)
(* flags changes nothing, and the check with one flag agrees.  With -i and *)
(* -e the check does not: it wants the space that -i puts at the end of a  *)
(* line and -e takes away.                                                 *)
IsFormatted(l, f) ==
  /\ "i" \in f => Separated(l)
  /\ "e" \in f => l = <<>> \/ Last(l) \notin {"s", "t"}
  /\ FormatLine(l, f) = l
  /\ ~({"i", "e"} \subseteq f) => ~CheckLine(l, f)

(***************************************************************************)
(* All the lines that a formatting saved are formatted, with the flags of  *)
(* the call that saved them.                                               *)
(***************************************************************************)
SavedIsFormatted ==
  Succeeded =>
    \A k \in DOMAIN file[p_save_path].lines :
      IsFormatted(file[p_save_path].lines[k], flags)

(* What is asked of the functions on one line: their result is formatted.  *)
FormatsLines ==
  \A l \in Lines, f \in FlagSets : "c" \notin f => IsFormatted(FormatLine(l, f), f)

(***************************************************************************)
(* A call that fails leaves the file as it was, also when it ends the      *)
(* program (formatted_text.cpp:166).                                       *)
(***************************************************************************)
FailureHarmless ==
  (result \in {"false", "exit"} /\ pc = "idle") => file["path"] = start

(***************************************************************************)
(* With -b the text of the file is not lost, wherever the process ends,    *)
(* whether or not the save reaches the disk, and when it is run again on   *)
(* the whole file or on an empty one: the file or its backup has it.  A    *)
(* run on the file an earlier one left empty must therefore not write that *)
(* as the backup: save_to_file refuses when there is nothing to write.     *)
(***************************************************************************)
Recoverable ==
  excused \subseteq {"save"} =>
    \E p \in {"path", "bak"} : TextOf(file[p]) = TextOf(first)

=============================================================================
