------------------------ MODULE FormattedTextProofs ------------------------
(***************************************************************************)
(* Proofs about formatting_file and its backup, for every set of lines,    *)
(* every formatter of lines that keeps their text, every combination of    *)
(* faults and any number of calls.                                         *)
(***************************************************************************)
EXTENDS FormattedText, SequenceTheorems, TLAPS

-----------------------------------------------------------------------------
(* The inductive invariant.                                                *)

Files == [lines : Seq(Lines), newline : BOOLEAN, kind : {"none", "other", "text"}]

PcValues == {"idle", "load", "backup", "backup close", "format", "save", "save close"}

(* Every variable that a promise depends on keeps its type.                *)
TypeInv ==
  /\ file \in [Paths -> Files]
  /\ line_vec \in Seq(Lines)
  /\ flags \in FlagSets \cup {{}}
  /\ p_save_path \in {"path", "out"}
  /\ pc \in PcValues
  /\ first \in Files
  /\ start \in Files
  /\ pc # "idle" => flags \in FlagSets

(* Until the save has opened it, the file is what the call was given.      *)
FileInv ==
  /\ pc \notin {"idle", "save close"} => file["path"] = start
  /\ (pc = "save close" /\ p_save_path # "path") => file["path"] = start

Texts(lines) == [k \in DOMAIN lines |-> Text(lines[k])]

(* The officer holds nothing between calls, and within one the lines of    *)
(* the file it was given, formatted or not, unless an error ended the      *)
(* reading.                                                                *)
LinesInv ==
  /\ pc \in {"idle", "load"} => line_vec = <<>>
  /\ (pc \notin {"idle", "load"} /\ "read" \notin excused) =>
       Texts(line_vec) = TextOf(start)
  /\ "read" \in excused => "cut" \in excused

(* What a call with -b keeps at each of its steps.                         *)
BackupInv ==
  excused \subseteq {"save"} =>
    /\ pc # "idle" => /\ "b" \in flags \/ p_save_path # "path"
                      /\ TextOf(start) \in {<<>>, TextOf(first)}
    /\ pc = "backup close" => line_vec # <<>>
    /\ (pc \in {"format", "save", "save close"} /\ "b" \in flags) =>
         TextOf(file["bak"]) = TextOf(first)

(* What holds however the officer is used, and what needs a fresh one.     *)
Base == TypeInv /\ FileInv /\ FailureHarmless

IInv ==
  /\ Base
  /\ LinesInv
  /\ BackupInv
  /\ SavesTheLines
  /\ Recoverable

-----------------------------------------------------------------------------
(* What files and lines are made of.                                       *)

(* What is written to a file is a file.                                    *)
LEMMA FileType ==
  ASSUME NEW ls \in Seq(Lines), NEW n \in BOOLEAN
  PROVE  /\ TextFile(ls, n) \in Files
         /\ TextOf(TextFile(ls, n)) = Texts(ls)
  BY DEF TextFile, Files, TextOf, Texts

(* The sequence without lines is a sequence of lines.                      *)
LEMMA NoLines == <<>> \in Seq(Lines) /\ Texts(<<>>) = <<>>
<1>1. <<>> \in Seq(Lines)
  BY EmptySeq
<1>2. Texts(<<>>) = <<>>
  BY DEF Texts
<1> QED
  BY <1>1, <1>2

(* A file that was emptied, and one that does not exist, are files.        *)
LEMMA EmptyType == Empty \in Files /\ NoFile \in Files
<1>1. Empty \in Files
  BY NoLines, FileType DEF Empty
<1>2. NoFile \in Files
  BY NoLines DEF NoFile, Files
<1> QED
  BY <1>1, <1>2

(* Only a file without lines has no text at all.                           *)
LEMMA TextsEmpty ==
  ASSUME NEW ls \in Seq(Lines), Texts(ls) = <<>>
  PROVE  ls = <<>>
<1>1. DOMAIN ls = DOMAIN Texts(ls) /\ DOMAIN ls = 1..Len(ls)
  BY DEF Texts
<1>2. Len(ls) = 0
  BY <1>1
<1> QED
  BY <1>2, EmptySeq

(* format_check_each_line keeps the number of lines and their text.        *)
LEMMA FormatKeeps ==
  ASSUME NEW ls \in Seq(Lines), NEW f \in FlagSets
  PROVE  /\ format_each_line(ls, f) \in Seq(Lines)
         /\ Texts(format_each_line(ls, f)) = Texts(ls)
<1>1. \A k \in DOMAIN ls : ls[k] \in Lines
  OBVIOUS
<1>2. \A k \in DOMAIN ls : /\ FormatLine(ls[k], f) \in Lines
                           /\ Text(FormatLine(ls[k], f)) = Text(ls[k])
  BY <1>1, FormatterAssumption
<1>3. DOMAIN format_each_line(ls, f) = DOMAIN ls
  BY DEF format_each_line
<1>4. Texts(format_each_line(ls, f)) = Texts(ls)
  BY <1>2, <1>3 DEF format_each_line, Texts
<1>5. format_each_line(ls, f) \in Seq(Lines)
  <2>1. DOMAIN ls = 1..Len(ls) /\ Len(ls) \in Nat
    OBVIOUS
  <2>2. [k \in 1..Len(ls) |-> FormatLine(ls[k], f)] \in Seq(Lines)
    BY <1>2, <2>1
  <2> QED
    BY <2>1, <2>2 DEF format_each_line
<1> QED
  BY <1>4, <1>5

(* Part of the lines are lines.                                            *)
LEMMA PartType ==
  ASSUME NEW ls \in Seq(Lines), NEW m \in Seq(Lines), Len(m) < Len(ls) - 1
  PROVE  SubSeq(ls, 1, Len(m) + 1) \in Seq(Lines)
  BY SubSeqProperties

-----------------------------------------------------------------------------
(* What holds however the officer is used.                                 *)

(* The initial states are among the states of the invariant.               *)
LEMMA InitBase == Init => Base
<1> SUFFICES ASSUME Init PROVE Base
  OBVIOUS
<1>1. PICK f \in Inputs : /\ first = f /\ start = f
                         /\ file = [p \in Paths |-> IF p = "path" THEN f ELSE NoFile]
  BY DEF Init
<1>2. f \in Files
  <2>1. [NoFile EXCEPT !.kind = "other"] \in Files
    BY EmptyType DEF Files
  <2>2. \A ls \in Originals : ls \in Seq(Lines)
    BY FormattedTextAssumption
  <2> QED
    BY <2>1, <2>2, EmptyType, FileType DEF Inputs
<1>3. file \in [Paths -> Files]
  BY <1>1, <1>2, EmptyType
<1>4. TypeInv
  BY <1>1, <1>2, <1>3, NoLines DEF Init, TypeInv, PcValues
<1> QED
  BY <1>4 DEF Base, FileInv, FailureHarmless, Init

(* What an officer keeps of its lines are lines.                           *)
LEMMA KeptType == \A ls \in Seq(Lines) : Kept(ls) \in Seq(Lines)
  BY NoLines DEF Kept

(* What the officer loads are lines.                                       *)
LEMMA LoadedType ==
  ASSUME TypeInv, NEW n \in LinesRead
  PROVE  Loaded(n) \in Seq(Lines)
<1>1. line_vec \in Seq(Lines) /\ file["path"].lines \in Seq(Lines)
  BY DEF TypeInv, Files, Paths
<1>2. n \in 0..Len(file["path"].lines)
  BY <1>1 DEF LinesRead
<1>3. SubSeq(file["path"].lines, 1, n) \in Seq(Lines)
  BY <1>1, <1>2, SubSeqProperties
<1> QED
  BY <1>1, <1>3, ConcatProperties DEF Loaded

(* A check reads only.                                                     *)
LEMMA CheckBase ==
  ASSUME Base, formatting_check \/ formatting_check_unread
  PROVE  Base'
<1>1. /\ pc' = "idle" /\ start' = file["path"] /\ flags' \in FlagSets
      /\ UNCHANGED <<file, p_save_path, first>>
      /\ \E n \in LinesRead : line_vec' \in {Kept(line_vec), Kept(Loaded(n))}
  <2>1. Len(file["path"].lines) \in LinesRead
    BY DEF LinesRead
  <2> QED
    BY <2>1 DEF formatting_check, formatting_check_unread, Return
<1>2. line_vec' \in Seq(Lines)
  BY <1>1, KeptType, LoadedType DEF Base, TypeInv
<1>3. start' \in Files
  BY <1>1 DEF Base, TypeInv, Paths
<1>4. TypeInv'
  BY <1>1, <1>2, <1>3 DEF Base, TypeInv, PcValues
<1> QED
  BY <1>1, <1>4 DEF Base, FileInv, FailureHarmless

(* The program ends in file_is_elf.                                        *)
LEMMA ExitBase ==
  ASSUME Base, ElfTestExit
  PROVE  Base'
<1>1. /\ pc = "idle" /\ pc' = "idle" /\ start' = file["path"] /\ flags' \in FlagSets
      /\ line_vec' = <<>> /\ UNCHANGED <<file, p_save_path, first>>
  BY DEF ElfTestExit
<1>2. start' \in Files
  BY <1>1 DEF Base, TypeInv, Paths
<1>3. TypeInv'
  BY <1>1, <1>2, NoLines DEF Base, TypeInv
<1> QED
  BY <1>1, <1>3 DEF Base, FileInv, FailureHarmless

(* A call of formatting_file is refused, or begins.                        *)
LEMMA CallBase ==
  ASSUME Base, FormatCall
  PROVE  Base'
<1>1. /\ start' = file["path"] /\ flags' \in FlagSets /\ p_save_path' \in Saves
      /\ UNCHANGED <<file, first>> /\ pc' \in {"idle", "load"}
      /\ line_vec' \in {line_vec, Kept(line_vec)}
  BY DEF FormatCall, Return, Base, TypeInv
<1>2. line_vec' \in Seq(Lines)
  BY <1>1, KeptType DEF Base, TypeInv
<1>3. start' \in Files
  BY <1>1 DEF Base, TypeInv, Paths
<1>4. TypeInv'
  BY <1>1, <1>2, <1>3, FormattedTextAssumption DEF Base, TypeInv, PcValues
<1> QED
  BY <1>1, <1>4 DEF Base, FileInv, FailureHarmless

(* A file may be replaced by another.                                      *)
LEMMA FileReplaced ==
  ASSUME TypeInv, NEW p \in Paths, NEW f \in Files, file' = [file EXCEPT ![p] = f]
  PROVE  /\ file' \in [Paths -> Files]
         /\ file'[p] = f
         /\ \A q \in Paths \ {p} : file'[q] = file[q]
  BY DEF TypeInv

(* The steps of a call that write to no file.                              *)
LEMMA ReadingBase ==
  ASSUME Base, Load \/ OpenFail \/ NothingToWrite \/ format_check_each_line
  PROVE  Base'
<1>1. /\ UNCHANGED <<file, flags, p_save_path, first, start>> /\ pc' \in PcValues \ {"save close"}
      /\ pc \notin {"idle", "save close"}
  BY DEF Load, OpenFail, NothingToWrite, format_check_each_line, Return, Lasting, Stays, call, PcValues
<1>2. line_vec' \in Seq(Lines)
  <2>1. \/ line_vec' = Kept(line_vec) \/ line_vec' = format_each_line(line_vec, flags)
        \/ \E n \in LinesRead : line_vec' = Loaded(n)
    BY DEF Load, OpenFail, NothingToWrite, format_check_each_line, Return
  <2>2. line_vec \in Seq(Lines) /\ flags \in FlagSets
    BY <1>1 DEF Base, TypeInv
  <2>3. format_each_line(line_vec, flags) \in Seq(Lines)
    BY <2>2, FormatKeeps
  <2> QED
    BY <2>1, <2>2, <2>3, KeptType, LoadedType DEF Base
<1>3. TypeInv'
  BY <1>1, <1>2 DEF Base, TypeInv
<1> QED
  BY <1>1, <1>3 DEF Base, FileInv, FailureHarmless

(* Opening the backup, or the file to save to, empties it.                 *)
LEMMA OpenBase ==
  ASSUME Base, BackupOpen \/ SaveOpen
  PROVE  Base'
<1>1. PICK p \in {"bak", p_save_path} :
        /\ file' = [file EXCEPT ![p] = Empty]
        /\ (p = "bak" /\ pc' = "backup close") \/ (p = p_save_path /\ pc' = "save close")
  <2>1. CASE BackupOpen
    BY <2>1 DEF BackupOpen
  <2>2. CASE SaveOpen
    BY <2>2 DEF SaveOpen
  <2> QED
    BY <2>1, <2>2
<1>2. /\ UNCHANGED <<flags, p_save_path, first, start, line_vec>> /\ pc \notin {"idle", "save close"}
  BY DEF BackupOpen, SaveOpen, Lasting, Stays, call
<1>3. p \in Paths /\ p_save_path \in Paths
  BY DEF Base, TypeInv, Paths
<1>4. /\ file' \in [Paths -> Files] /\ \A q \in Paths \ {p} : file'[q] = file[q]
  BY <1>1, <1>3, FileReplaced, EmptyType DEF Base
<1>5. TypeInv'
  BY <1>1, <1>2, <1>4 DEF Base, TypeInv, PcValues
<1>6. FileInv'
  BY <1>1, <1>2, <1>4 DEF Base, FileInv, Paths
<1> QED
  BY <1>1, <1>5, <1>6 DEF Base, FailureHarmless

(* Part of the lines reach the disk.                                       *)
LEMMA PartBase ==
  ASSUME Base, WritePart
  PROVE  Base'
<1> DEFINE p == IF pc = "backup close" THEN "bak" ELSE p_save_path
           f == TextFile(SubSeq(line_vec, 1, Len(file[p].lines) + 1), TRUE)
<1>1. /\ file' = [file EXCEPT ![p] = f] /\ Len(file[p].lines) < Len(line_vec) - 1
      /\ pc \in {"backup close", "save close"} /\ pc' = pc
      /\ UNCHANGED <<flags, p_save_path, first, start, line_vec>>
  BY DEF WritePart, Lasting, Stays, call
<1>2. p \in Paths
  BY DEF Base, TypeInv, Paths
<1>3. f \in Files
  <2>1. line_vec \in Seq(Lines) /\ file[p].lines \in Seq(Lines)
    BY <1>2 DEF Base, TypeInv, Files
  <2> QED
    BY <1>1, <2>1, PartType, FileType
<1>4. file' \in [Paths -> Files] /\ \A q \in Paths \ {p} : file'[q] = file[q]
  BY <1>1, <1>2, <1>3, FileReplaced DEF Base
<1>5. TypeInv'
  BY <1>1, <1>4 DEF Base, TypeInv
<1>6. FileInv'
  BY <1>1, <1>4 DEF Base, FileInv, Paths
<1> QED
  BY <1>1, <1>5, <1>6 DEF Base, FailureHarmless

(* What closing a stream does to the files.                                *)
LEMMA WrittenFile ==
  ASSUME TypeInv, NEW p \in Paths, NEW e, Written(p, e)
  PROVE  /\ file' \in [Paths -> Files]
         /\ \A q \in Paths \ {p} : file'[q] = file[q]
         /\ \/ TextOf(file'[p]) = Texts(line_vec) /\ excused' = excused
            \/ file' = file /\ excused' = excused \cup {e}
<1> DEFINE f == TextFile(line_vec, line_vec # <<>>)
<1>1. f \in Files /\ TextOf(f) = Texts(line_vec)
  BY FileType DEF TypeInv
<1>2. CASE file' = [file EXCEPT ![p] = f] /\ UNCHANGED excused
  BY <1>1, <1>2, FileReplaced
<1>3. CASE UNCHANGED file /\ excused' = excused \cup {e}
  BY <1>3 DEF TypeInv
<1> QED
  BY <1>2, <1>3 DEF Written

(* The stream is closed, and the backup or the save done.                  *)
LEMMA CloseBase ==
  ASSUME Base, BackupClose \/ SaveClose
  PROVE  Base'
<1>1. UNCHANGED <<flags, p_save_path, first, start>>
  BY DEF BackupClose, SaveClose, Stays, call
<1>2. CASE BackupClose
  <2>1. /\ pc = "backup close" /\ pc' = "format" /\ line_vec' = line_vec
        /\ Written("bak", "backup")
    BY <1>2 DEF BackupClose
  <2>2. file' \in [Paths -> Files] /\ file'["path"] = file["path"]
    BY <2>1, WrittenFile DEF Base, Paths
  <2>3. TypeInv'
    BY <1>1, <2>1, <2>2 DEF Base, TypeInv, PcValues
  <2> QED
    BY <1>1, <2>1, <2>2, <2>3 DEF Base, FileInv, FailureHarmless
<1>3. CASE SaveClose
  <2>1. /\ pc' = "idle" /\ result' = "true" /\ line_vec' = Kept(line_vec)
        /\ Written(p_save_path, "save")
    BY <1>3 DEF SaveClose, Return
  <2>2. p_save_path \in Paths
    BY DEF Base, TypeInv, Paths
  <2>3. file' \in [Paths -> Files]
    BY <2>1, <2>2, WrittenFile DEF Base
  <2>4. TypeInv'
    BY <1>1, <2>1, <2>3, KeptType DEF Base, TypeInv, PcValues
  <2> QED
    BY <2>1, <2>4 DEF Base, FileInv, FailureHarmless
<1> QED
  BY <1>2, <1>3

(* The process ends in the middle of a call.                               *)
LEMMA CrashBase ==
  ASSUME Base, Crash
  PROVE  Base'
<1>1. /\ UNCHANGED <<file, flags, p_save_path, first, start>>
      /\ pc' = "idle" /\ result' = "crashed" /\ line_vec' = <<>>
  BY DEF Crash, Lasting, Stays, call
<1>2. TypeInv'
  BY <1>1, NoLines DEF Base, TypeInv, PcValues
<1> QED
  BY <1>1, <1>2 DEF Base, FileInv, FailureHarmless

(* Every step keeps what holds however the officer is used.                *)
LEMMA BaseStep == Base /\ [Next]_vars => Base'
<1> SUFFICES ASSUME Base, [Next]_vars PROVE Base'
  OBVIOUS
<1>1. CASE UNCHANGED vars
  BY <1>1 DEF vars, call, Base, TypeInv, FileInv, FailureHarmless
<1>2. CASE formatting_file
  BY <1>2, CallBase, ReadingBase, OpenBase, PartBase, CloseBase DEF formatting_file
<1> QED
  BY <1>1, <1>2, CheckBase, ExitBase, CrashBase DEF Next

(***************************************************************************)
(* The files stay files and the file is as the call was given it until the *)
(* save opens it (formatted_text.cpp: formatting_file, save_to_file).      *)
(***************************************************************************)
THEOREM BaseTheorem == Spec => []Base
  BY InitBase, BaseStep, PTL DEF Spec

(***************************************************************************)
(* A call of formatting_file or formatting_check that returns false, or    *)
(* that ends the program in file_is_elf, leaves the file as it was: every  *)
(* early return comes before the file is opened for writing.               *)
(***************************************************************************)
THEOREM FailureHarmlessTheorem == Spec => []FailureHarmless
<1>1. Base => FailureHarmless
  BY DEF Base
<1> QED
  BY <1>1, BaseTheorem, PTL

-----------------------------------------------------------------------------
(* What a call of an officer of its own promises.                          *)

(* The promises hold at first.                                             *)
LEMMA InitIInv == Init => IInv
<1> SUFFICES ASSUME Init PROVE IInv
  OBVIOUS
<1>1. Base
  BY InitBase
<1>2. line_vec = <<>> /\ pc = "idle" /\ result = "none" /\ excused = {}
  BY DEF Init
<1>3. file["path"] = first
  BY DEF Init, Paths
<1> QED
  BY <1>1, <1>2, <1>3 DEF IInv, LinesInv, BackupInv, SavesTheLines, Succeeded, Recoverable

(* The lines a call holds, when there are any, have the text of the file   *)
(* before the first call, unless something excuses their loss.             *)
LEMMA HoldsFirst ==
  ASSUME Base, LinesInv, BackupInv, excused \subseteq {"save"}, pc \notin {"idle", "load"},
         line_vec # <<>>
  PROVE  TextOf(start) = TextOf(first) /\ Texts(line_vec) = TextOf(first)
<1>1. Texts(line_vec) = TextOf(start)
  BY DEF LinesInv
<1>2. Texts(line_vec) # <<>>
  BY TextsEmpty DEF Base, TypeInv
<1>3. TextOf(start) \in {<<>>, TextOf(first)}
  BY DEF BackupInv
<1> QED
  BY <1>1, <1>2, <1>3

(* A check changes nothing that is promised.                               *)
LEMMA CheckIInv ==
  ASSUME ~Reuse, IInv, formatting_check \/ formatting_check_unread
  PROVE  IInv'
<1>1. Base'
  BY CheckBase DEF IInv
<1>2. pc' = "idle" /\ "c" \in flags' /\ line_vec' = <<>> /\ UNCHANGED <<file, first, excused>>
  BY DEF formatting_check, formatting_check_unread, Return, Kept
<1>3. Recoverable'
  BY <1>2 DEF IInv, Recoverable, TextOf
<1> QED
  BY <1>1, <1>2, <1>3 DEF IInv, LinesInv, BackupInv, SavesTheLines, Succeeded

(* Nor does a program that ends in file_is_elf.                            *)
LEMMA ExitIInv ==
  ASSUME ~Reuse, IInv, ElfTestExit
  PROVE  IInv'
<1>1. Base'
  BY ExitBase DEF IInv
<1>2. pc' = "idle" /\ result' = "exit" /\ line_vec' = <<>> /\ UNCHANGED <<file, first, excused>>
  BY DEF ElfTestExit
<1>3. Recoverable'
  BY <1>2 DEF IInv, Recoverable, TextOf
<1> QED
  BY <1>1, <1>2, <1>3 DEF IInv, LinesInv, BackupInv, SavesTheLines, Succeeded

(* A call that begins gives up nothing, or says so.                        *)
LEMMA CallIInv ==
  ASSUME ~Reuse, IInv, FormatCall
  PROVE  IInv'
<1>1. Base'
  BY CallBase DEF IInv
<1>2. PICK f \in FlagSets, save \in Saves :
        /\ flags' = f /\ p_save_path' = save
        /\ \/ pc' = "idle" /\ result' = "false" /\ line_vec' = <<>> /\ excused' = excused
           \/ /\ pc' = "load" /\ line_vec' = line_vec
              /\ excused' = (excused \ {"read", "save"}) \cup Excused(f, save)
  BY DEF FormatCall, Return, Kept
<1>3. pc = "idle" /\ line_vec = <<>> /\ start' = file["path"] /\ UNCHANGED <<file, first>>
  BY DEF IInv, LinesInv, FormatCall
<1>4. LinesInv'
  BY <1>2, <1>3 DEF IInv, LinesInv, Excused
<1>5. SavesTheLines'
  BY <1>2 DEF SavesTheLines, Succeeded
<1>6. excused' \subseteq {"save"} => excused \subseteq {"save"}
  <2>1. "cut" \in excused => "cut" \in excused'
    BY <1>2
  <2> QED
    BY <1>2, <2>1 DEF IInv, LinesInv
<1>7. Recoverable'
  BY <1>3, <1>6 DEF IInv, Recoverable, TextOf
<1>8. BackupInv'
  <2> SUFFICES ASSUME excused' \subseteq {"save"}, pc' = "load"
               PROVE  /\ "b" \in f \/ save # "path"
                      /\ TextOf(start') \in {<<>>, TextOf(first')}
    BY <1>2 DEF BackupInv, TextOf
  <2>1. Excused(f, save) \subseteq {"save"}
    BY <1>2
  <2>2. "unbacked" \notin Excused(f, save) /\ "cut" \notin Excused(f, save)
    BY <2>1
  <2>3. "b" \in f \/ save # "path"
    BY <2>2 DEF Excused
  <2>4. TextOf(file["path"]) \in {<<>>, TextOf(first)}
    BY <2>2 DEF Excused
  <2> QED
    BY <1>3, <2>3, <2>4
<1> QED
  BY <1>1, <1>4, <1>5, <1>7, <1>8 DEF IInv

(* The file is read.                                                       *)
LEMMA LoadIInv ==
  ASSUME ~Reuse, IInv, Load
  PROVE  IInv'
<1>1. Base'
  BY ReadingBase DEF IInv
<1>2. PICK n \in LinesRead :
        /\ line_vec' = Loaded(n)
        /\ excused' = IF n = Len(file["path"].lines) THEN excused
                      ELSE excused \cup {"read", "cut"}
  BY DEF Load
<1>3. /\ pc = "load" /\ pc' \in {"backup", "format"} /\ (pc' = "format" => "b" \notin flags)
      /\ UNCHANGED <<file, flags, p_save_path, first, start>>
  BY DEF Load, Stays, call
<1>4. n = Len(file["path"].lines) => Texts(line_vec') = TextOf(start')
  <2>1. line_vec = <<>> /\ file["path"] = start /\ start.lines \in Seq(Lines)
    BY <1>3 DEF IInv, LinesInv, Base, FileInv, TypeInv, Files
  <2>2. SubSeq(start.lines, 1, Len(start.lines)) = start.lines
    BY <2>1
  <2>3. n = Len(start.lines) => Loaded(n) = start.lines
    BY <2>1, <2>2, ConcatEmptySeq DEF Loaded
  <2> QED
    BY <1>2, <1>3, <2>1, <2>3 DEF Texts, TextOf
<1>5. excused \subseteq excused' /\ ("read" \in excused' /\ "read" \notin excused => "cut" \in excused')
  BY <1>2
<1>6. LinesInv'
  BY <1>2, <1>3, <1>4, <1>5 DEF IInv, LinesInv, TextOf
<1>7. BackupInv'
  BY <1>3, <1>5 DEF IInv, BackupInv, TextOf
<1>8. SavesTheLines'
  BY <1>3 DEF SavesTheLines, Succeeded
<1>9. Recoverable'
  BY <1>3, <1>5 DEF IInv, Recoverable, TextOf
<1> QED
  BY <1>1, <1>6, <1>7, <1>8, <1>9 DEF IInv

(* A call that fails, and a process that ends, leave the files alone.      *)
LEMMA FailIInv ==
  ASSUME ~Reuse, IInv, OpenFail \/ NothingToWrite \/ Crash
  PROVE  IInv'
<1>1. Base'
  BY ReadingBase, CrashBase DEF IInv
<1>2. /\ pc' = "idle" /\ result' \in {"false", "crashed"} /\ line_vec' = <<>>
      /\ UNCHANGED <<file, first, excused>>
  BY DEF OpenFail, NothingToWrite, Crash, Return, Kept, Lasting, Stays
<1>3. Recoverable'
  BY <1>2 DEF IInv, Recoverable, TextOf
<1> QED
  BY <1>1, <1>2, <1>3 DEF IInv, LinesInv, BackupInv, SavesTheLines, Succeeded

(* The lines are formatted.                                                *)
LEMMA FormatIInv ==
  ASSUME ~Reuse, IInv, format_check_each_line
  PROVE  IInv'
<1>1. Base'
  BY ReadingBase DEF IInv
<1>2. /\ pc = "format" /\ pc' = "save" /\ line_vec' = format_each_line(line_vec, flags)
      /\ UNCHANGED <<file, flags, p_save_path, first, start, excused>>
  BY DEF format_check_each_line, Lasting, Stays, call
<1>3. Texts(line_vec') = Texts(line_vec)
  BY <1>2, FormatKeeps DEF IInv, Base, TypeInv
<1>4. LinesInv'
  BY <1>2, <1>3 DEF IInv, LinesInv, TextOf
<1>5. BackupInv'
  BY <1>2 DEF IInv, BackupInv, TextOf
<1>6. SavesTheLines'
  BY <1>2 DEF SavesTheLines, Succeeded
<1>7. Recoverable'
  BY <1>2 DEF IInv, Recoverable, TextOf
<1> QED
  BY <1>1, <1>4, <1>5, <1>6, <1>7 DEF IInv

(* While the backup is written the file itself has the text, and while the *)
(* file is written its backup.                                             *)
LEMMA WritingIInv ==
  ASSUME ~Reuse, IInv, BackupOpen \/ SaveOpen \/ WritePart
  PROVE  IInv'
<1>1. Base'
  BY OpenBase, PartBase DEF IInv
<1>2. /\ UNCHANGED <<flags, p_save_path, first, start, line_vec, excused>>
      /\ pc \notin {"idle", "load"} /\ pc' \in {"backup close", "save close"}
      /\ (pc' = "save close" => pc \in {"save", "save close"})
  BY DEF BackupOpen, SaveOpen, WritePart, Lasting, Stays, call
<1>3. LinesInv'
  BY <1>2 DEF IInv, LinesInv, TextOf
<1>4. SavesTheLines'
  BY <1>2 DEF SavesTheLines, Succeeded
<1>5. pc' = "backup close" => line_vec' # <<>> \/ ~(excused \subseteq {"save"})
  BY DEF BackupOpen, SaveOpen, WritePart, IInv, BackupInv
<1>6. \E f : file' = [file EXCEPT ![IF pc' = "backup close" THEN "bak" ELSE p_save_path] = f]
  BY DEF BackupOpen, SaveOpen, WritePart
<1>7. /\ pc' = "backup close" => file'["path"] = file["path"]
      /\ pc' = "save close" => file'["bak"] = file["bak"]
      /\ (pc' = "save close" /\ p_save_path # "path") => file'["path"] = file["path"]
  BY <1>2, <1>6 DEF IInv, Base, TypeInv, Paths
<1>8. BackupInv'
  BY <1>2, <1>5, <1>7 DEF IInv, BackupInv, TextOf
<1>9. Recoverable'
  <2> SUFFICES ASSUME excused \subseteq {"save"}
               PROVE  \E p \in {"path", "bak"} : TextOf(file'[p]) = TextOf(first)
    BY <1>2 DEF Recoverable, TextOf
  <2>1. CASE pc' = "backup close"
    <3>1. file'["path"] = start'
      BY <1>1, <2>1 DEF Base, FileInv
    <3>2. line_vec # <<>>
      BY <1>2, <1>5, <2>1
    <3> QED
      BY <1>2, <3>1, <3>2, HoldsFirst DEF IInv
  <2>2. CASE pc' = "save close" /\ p_save_path # "path"
    BY <1>7, <2>2 DEF IInv, Recoverable
  <2>3. CASE pc' = "save close" /\ p_save_path = "path"
    <3>1. TextOf(file["bak"]) = TextOf(first)
      BY <1>2, <2>3 DEF IInv, BackupInv
    <3> QED
      BY <1>7, <2>3, <3>1
  <2> QED
    BY <1>2, <2>1, <2>2, <2>3
<1> QED
  BY <1>1, <1>3, <1>4, <1>8, <1>9 DEF IInv

(* A backup that is closed has the text, or has not reached the disk.      *)
LEMMA BackupCloseIInv ==
  ASSUME ~Reuse, IInv, BackupClose
  PROVE  IInv'
<1>1. Base'
  BY CloseBase DEF IInv
<1>2. /\ pc = "backup close" /\ pc' = "format"
      /\ Written("bak", "backup") /\ UNCHANGED <<flags, p_save_path, first, start, line_vec>>
  BY DEF BackupClose, Stays, call
<1>3. /\ file'["path"] = start
      /\ \/ TextOf(file'["bak"]) = Texts(line_vec) /\ excused' = excused
         \/ "backup" \in excused'
  <2>1. "bak" \in Paths
    BY DEF Paths
  <2>2. \/ TextOf(file'["bak"]) = Texts(line_vec) /\ excused' = excused
        \/ file' = file /\ excused' = excused \cup {"backup"}
    BY <1>2, <2>1, WrittenFile DEF IInv, Base
  <2>3. file'["path"] = start'
    BY <1>1, <1>2 DEF Base, FileInv
  <2> QED
    BY <1>2, <2>2, <2>3
<1>4. LinesInv'
  <2>1. excused' = excused \/ excused' = excused \cup {"backup"}
    BY <1>2 DEF Written
  <2> QED
    BY <1>2, <2>1 DEF IInv, LinesInv, TextOf
<1>5. SavesTheLines'
  BY <1>2 DEF SavesTheLines, Succeeded
<1>6. excused' \subseteq {"save"} =>
        /\ excused \subseteq {"save"}
        /\ TextOf(file'["bak"]) = TextOf(first) /\ TextOf(file'["path"]) = TextOf(first)
  <2> SUFFICES ASSUME excused' \subseteq {"save"}
               PROVE  /\ excused \subseteq {"save"}
                      /\ TextOf(file'["bak"]) = TextOf(first) /\ TextOf(file'["path"]) = TextOf(first)
    OBVIOUS
  <2>1. TextOf(file'["bak"]) = Texts(line_vec) /\ excused \subseteq {"save"}
    BY <1>3
  <2>2. line_vec # <<>>
    BY <1>2, <2>1 DEF IInv, BackupInv
  <2>3. TextOf(start) = TextOf(first) /\ Texts(line_vec) = TextOf(first)
    BY <1>2, <2>1, <2>2, HoldsFirst DEF IInv
  <2> QED
    BY <1>3, <2>1, <2>3
<1>7. BackupInv'
  BY <1>2, <1>6 DEF IInv, BackupInv, TextOf
<1>8. Recoverable'
  BY <1>2, <1>6 DEF Recoverable, TextOf
<1> QED
  BY <1>1, <1>4, <1>5, <1>7, <1>8 DEF IInv

(* A save that is closed has the text, or has not reached the disk.        *)
LEMMA SaveCloseIInv ==
  ASSUME ~Reuse, IInv, SaveClose
  PROVE  IInv'
<1>1. Base'
  BY CloseBase DEF IInv
<1>2. /\ pc = "save close" /\ pc' = "idle" /\ line_vec' = <<>>
      /\ Written(p_save_path, "save") /\ UNCHANGED <<flags, p_save_path, first, start>>
  BY DEF SaveClose, Return, Kept, Stays, call
<1>3. p_save_path \in Paths /\ p_save_path # "bak"
  BY DEF IInv, Base, TypeInv, Paths
<1>4. /\ \A q \in Paths \ {p_save_path} : file'[q] = file[q]
      /\ \/ TextOf(file'[p_save_path]) = Texts(line_vec) /\ excused' = excused
         \/ file' = file /\ excused' = excused \cup {"save"}
  BY <1>2, <1>3, WrittenFile DEF IInv, Base
<1>5. file'["bak"] = file["bak"] /\ (p_save_path # "path" => file'["path"] = file["path"])
  BY <1>3, <1>4 DEF Paths
<1>6. LinesInv' /\ BackupInv'
  BY <1>2, <1>4 DEF IInv, LinesInv, BackupInv
<1>7. SavesTheLines'
  <2> SUFFICES ASSUME "save" \notin excused', "read" \notin excused'
               PROVE  /\ TextOf(file'[p_save_path]) = TextOf(start)
                      /\ p_save_path # "path" => file'["path"] = start
    BY <1>2 DEF SavesTheLines, Succeeded, TextOf
  <2>1. TextOf(file'[p_save_path]) = Texts(line_vec) /\ "read" \notin excused
    BY <1>4
  <2> QED
    BY <1>2, <1>5, <2>1 DEF IInv, LinesInv, Base, FileInv
<1>8. Recoverable'
  <2> SUFFICES ASSUME excused' \subseteq {"save"}
               PROVE  \E p \in {"path", "bak"} : TextOf(file'[p]) = TextOf(first)
    BY <1>2 DEF Recoverable, TextOf
  <2>1. excused \subseteq {"save"}
    BY <1>4
  <2>2. CASE p_save_path # "path"
    BY <1>5, <2>1, <2>2 DEF IInv, Recoverable
  <2>3. CASE p_save_path = "path"
    BY <1>2, <1>5, <2>1, <2>3 DEF IInv, BackupInv
  <2> QED
    BY <2>2, <2>3
<1> QED
  BY <1>1, <1>6, <1>7, <1>8 DEF IInv

(* Every step of the formatter preserves the invariant.                    *)
LEMMA NextIInv ==
  ASSUME ~Reuse, IInv, [Next]_vars
  PROVE  IInv'
<1>1. CASE UNCHANGED vars
  BY <1>1 DEF vars, call, IInv, Base, TypeInv, FileInv, FailureHarmless, LinesInv, BackupInv,
              SavesTheLines, Succeeded, Recoverable, TextOf
<1>2. CASE formatting_file
  BY <1>2, CallIInv, LoadIInv, FailIInv, FormatIInv, WritingIInv, BackupCloseIInv, SaveCloseIInv
     DEF formatting_file
<1> QED
  BY <1>1, <1>2, CheckIInv, ExitIInv, FailIInv DEF Next

(***************************************************************************)
(* With a fresh format_officer for each call, the invariant holds however  *)
(* often formatting_file and formatting_check are called and whichever of  *)
(* the faults modelled here happen in them.                                *)
(***************************************************************************)
THEOREM Invariance ==
  ASSUME ~Reuse
  PROVE  Spec => []IInv
  BY InitIInv, NextIInv, PTL DEF Spec

(***************************************************************************)
(* A formatting that succeeds has saved the lines of the file it was given *)
(* with their text, and has left that file alone when it saved elsewhere,  *)
(* unless an error ended the reading or the save did not reach the disk.   *)
(***************************************************************************)
THEOREM SavesTheLinesTheorem ==
  ASSUME ~Reuse
  PROVE  Spec => []SavesTheLines
<1>1. IInv => SavesTheLines
  BY DEF IInv
<1> QED
  BY <1>1, Invariance, PTL

(***************************************************************************)
(* With -b the text of the file survives a crash at any point, a full disk *)
(* on the save, a stream that cannot be opened, and further runs on the    *)
(* whole file or on an empty one: read_and_backup writes the backup before *)
(* the save opens the file, and never writes an empty one over it.  Not    *)
(* so after a run on a part of the file, an error while reading it, or a   *)
(* backup that did not reach the disk.                                     *)
(***************************************************************************)
THEOREM RecoverableTheorem ==
  ASSUME ~Reuse
  PROVE  Spec => []Recoverable
<1>1. IInv => Recoverable
  BY DEF IInv
<1> QED
  BY <1>1, Invariance, PTL

-----------------------------------------------------------------------------
(* What is written is formatted, also by an officer that is used again.    *)

AllFormatted(lines, f) == \A k \in DOMAIN lines : IsFormatted(lines[k], f)

(* From format_check_each_line to the end of the save the officer holds    *)
(* lines formatted with the flags of this call, and a check has no save.   *)
FormattedInv ==
  /\ pc # "idle" => "c" \notin flags
  /\ pc \in {"save", "save close"} => AllFormatted(line_vec, flags)
  /\ SavedIsFormatted

(* format_check_each_line formats every line.                              *)
LEMMA FormatFormats ==
  ASSUME FormatsLines, NEW ls \in Seq(Lines), NEW f \in FlagSets, "c" \notin f
  PROVE  AllFormatted(format_each_line(ls, f), f)
<1>1. \A k \in DOMAIN ls : ls[k] \in Lines
  OBVIOUS
<1>2. \A k \in DOMAIN ls : IsFormatted(FormatLine(ls[k], f), f)
  BY <1>1 DEF FormatsLines
<1> QED
  BY <1>2 DEF AllFormatted, format_each_line

(* What is closed without an error has the lines of the officer.           *)
LEMMA SaveCloseFormatted ==
  ASSUME Base, FormattedInv, SaveClose
  PROVE  FormattedInv'
<1>1. /\ pc = "save close" /\ pc' = "idle" /\ Written(p_save_path, "save")
      /\ UNCHANGED <<flags, p_save_path>>
  BY DEF SaveClose, Return, Stays, call
<1>2. p_save_path \in Paths /\ file \in [Paths -> Files]
  BY DEF Base, TypeInv, Paths
<1>3. \/ file'[p_save_path].lines = line_vec
      \/ "save" \in excused'
  <2> DEFINE f == TextFile(line_vec, line_vec # <<>>)
  <2>1. f \in Files /\ f.lines = line_vec
    BY FileType DEF Base, TypeInv, TextFile
  <2>2. CASE file' = [file EXCEPT ![p_save_path] = f]
    BY <1>2, <2>1, <2>2, FileReplaced DEF Base
  <2>3. CASE excused' = excused \cup {"save"}
    BY <2>3
  <2> QED
    BY <1>1, <2>2, <2>3 DEF Written
<1>4. AllFormatted(line_vec, flags)
  BY <1>1 DEF FormattedInv
<1>5. SavedIsFormatted'
  <2> SUFFICES ASSUME "save" \notin excused'
               PROVE  \A k \in DOMAIN (file[p_save_path].lines)' :
                        IsFormatted((file[p_save_path].lines)'[k], flags')
    BY DEF SavedIsFormatted, Succeeded, IsFormatted
  <2>1. (file[p_save_path].lines)' = line_vec /\ flags' = flags
    BY <1>1, <1>3
  <2> QED
    BY <1>4, <2>1 DEF AllFormatted
<1> QED
  BY <1>1, <1>5 DEF FormattedInv

(* Every step keeps what is written formatted.                             *)
LEMMA FormattedStep ==
  ASSUME FormatsLines, Base, FormattedInv, [Next]_vars
  PROVE  FormattedInv'
<1>1. CASE UNCHANGED vars
  BY <1>1 DEF vars, call, FormattedInv, SavedIsFormatted, Succeeded, AllFormatted, IsFormatted
<1>2. CASE formatting_check \/ formatting_check_unread
  <2>1. pc' = "idle" /\ "c" \in flags'
    BY <1>2 DEF formatting_check, formatting_check_unread, Return
  <2> QED
    BY <2>1 DEF FormattedInv, SavedIsFormatted, Succeeded
<1>3. CASE FormatCall
  <2>1. "c" \notin flags' /\ (pc' = "load" \/ (pc' = "idle" /\ result' = "false"))
    BY <1>3 DEF FormatCall, Return
  <2> QED
    BY <2>1 DEF FormattedInv, SavedIsFormatted, Succeeded
<1>4. CASE Load \/ BackupOpen \/ BackupClose
  <2>1. pc # "idle" /\ pc' \in {"backup", "backup close", "format"} /\ flags' = flags
    BY <1>4 DEF Load, BackupOpen, BackupClose, Lasting, Stays, call
  <2> QED
    BY <2>1 DEF FormattedInv, SavedIsFormatted, Succeeded
<1>5. CASE OpenFail \/ NothingToWrite \/ Crash \/ ElfTestExit
  <2>1. pc' = "idle" /\ result' \in {"false", "crashed", "exit"}
    BY <1>5 DEF OpenFail, NothingToWrite, Crash, ElfTestExit, Return
  <2> QED
    BY <2>1 DEF FormattedInv, SavedIsFormatted, Succeeded
<1>6. CASE format_check_each_line
  <2>1. /\ pc = "format" /\ pc' = "save" /\ flags' = flags
        /\ line_vec' = format_each_line(line_vec, flags)
    BY <1>6 DEF format_check_each_line, Lasting, Stays, call
  <2>2. line_vec \in Seq(Lines) /\ flags \in FlagSets /\ "c" \notin flags
    BY <2>1 DEF Base, TypeInv, FormattedInv
  <2>3. AllFormatted(line_vec', flags')
    BY <2>1, <2>2, FormatFormats
  <2> QED
    BY <2>1, <2>2, <2>3 DEF FormattedInv, SavedIsFormatted, Succeeded, AllFormatted, IsFormatted
<1>7. CASE SaveOpen \/ WritePart
  <2>1. /\ pc # "idle" /\ pc' \in {"backup close", "save close"} /\ flags' = flags
        /\ line_vec' = line_vec /\ (pc' = "save close" => pc \in {"save", "save close"})
    BY <1>7 DEF SaveOpen, WritePart, Lasting, Stays, call
  <2> QED
    BY <2>1 DEF FormattedInv, SavedIsFormatted, Succeeded, AllFormatted, IsFormatted
<1> QED
  BY <1>1, <1>2, <1>3, <1>4, <1>5, <1>6, <1>7, SaveCloseFormatted DEF Next, formatting_file

(***************************************************************************)
(* If the functions on one line do their work, every line of a file that a *)
(* successful call saved is formatted with the flags of that call, after   *)
(* any calls, faults and crashes before it, and also when one officer is   *)
(* used for several calls and saves the lines of the earlier ones again.   *)
(***************************************************************************)
THEOREM SavedIsFormattedTheorem ==
  ASSUME FormatsLines
  PROVE  Spec => []SavedIsFormatted
<1>1. Init => FormattedInv
  BY DEF Init, FormattedInv, SavedIsFormatted, Succeeded
<1>2. Base /\ FormattedInv /\ [Next]_vars => FormattedInv'
  BY FormattedStep
<1>3. FormattedInv => SavedIsFormatted
  BY DEF FormattedInv
<1> QED
  BY <1>1, <1>2, <1>3, BaseTheorem, PTL DEF Spec

=============================================================================
