------------------------------ MODULE ToolOutput ------------------------------
(***************************************************************************)
(* What a tool shows of a long text: the capture of a command's output,      *)
(* which is written in pieces that end anywhere (shellOutputCapture), and    *)
(* the window of a file that is read line by line (readTextWindow).          *)
(*                                                                          *)
(* A byte is a letter, a newline, a character that is dropped, or the first  *)
(* or second byte of a character of two.  A kept character is a letter, a    *)
(* newline, a wide one, or the mark of a byte that fits nowhere, of three.   *)
(* The lines of a file are their lengths.                                    *)
(***************************************************************************)
EXTENDS Integers, Sequences, SequencesExt, FiniteSetsExt

CONSTANTS MaxLines, MaxBytes,   \* maxLines, maxBytes
          MaxRaw, MaxFileLines, MaxLineLength  \* bounds: what is written, and files

Byte == {"letter", "newline", "dropped", "first", "second"}

\* A character that is cut off and a newline leave more of the tail than is shown.
ASSUME TailSuffices == MaxBytes > 3 /\ MaxLines >= 1

VARIABLES
  raw,        \* history: the bytes that the command wrote
  undecoded,  \* shellOutputCapture.pending: bytes that may begin a character
  tail,       \* the end of the output
  total,      \* totalBytes, newlines, lastByte = newline
  file,       \* the full output; NoFile, or BrokenFile with the error in captureErr
  shown,      \* what finish gave; NotYet
  window, lineLengths  \* headWindowCollector, and history: the lines it was given

outputVars == <<raw, undecoded, tail, total, file, shown, window, lineLengths>>

NoFile == [state |-> "none", text |-> <<>>]
BrokenFile == [state |-> "broken", text |-> <<>>]
NotYet == [state |-> "none"]

Width(r) == CASE r \in {"letter", "newline"} -> 1 [] r = "wide" -> 2 [] r = "error" -> 3
Bytes(text) == FoldLeft(LAMBDA n, r : n + Width(r), 0, text)
Newlines(text) == Len(SelectSeq(text, LAMBDA r : r = "newline"))

NoLines == [kept |-> <<>>, lines |-> 0, bytes |-> 0, full |-> FALSE]

OutputInit ==
  /\ raw = <<>> /\ undecoded = <<>> /\ tail = <<>>
  /\ total = [bytes |-> 0, newlines |-> 0, ended |-> FALSE]
  /\ file = NoFile /\ shown = NotYet
  /\ window = NoLines /\ lineLengths = <<>>

-----------------------------------------------------------------------------
(* shellOutputCapture. *)

\* Write and flushPending: what is kept of some bytes, and the rest when they
\* stop within a character and more may come.
Decoded(data, more) ==
  LET At[i \in 1..(Len(data) + 2)] ==
        IF i > Len(data) THEN [text |-> <<>>, rest |-> <<>>]
        ELSE IF data[i] = "first" /\ i = Len(data) /\ more THEN [text |-> <<>>, rest |-> <<"first">>]
        ELSE LET whole == data[i] = "first" /\ i < Len(data) /\ data[i + 1] = "second"
                 after == At[IF whole THEN i + 2 ELSE i + 1]
                 kept  == CASE data[i] \in {"letter", "newline"} -> <<data[i]>>
                            [] data[i] = "dropped" -> <<>>
                            [] OTHER -> IF whole THEN <<"wide">> ELSE <<"error">>
             IN  [after EXCEPT !.text = kept \o @]
  IN  At[1]

\* The end of a text that takes at most so many bytes, cut between characters.
LastBytes(text, limit) ==
  LET n == Min({k \in 1..(Len(text) + 1) : Bytes(SubSeq(text, k, Len(text))) <= limit})
  IN  SubSeq(text, n, Len(text))

\* ensureFullOutput: a file with what the tail holds, if it can be made and written.
Ensured(full, text) ==
  CASE full.state = "broken" -> {full}
    [] full.state = "open" -> {full, BrokenFile}
    [] full.state = "none" -> {[state |-> "open", text |-> text], BrokenFile}

\* Faulty variant: the file is begun with the piece that goes over the limit.
AppendedFromHere(text) ==
  IF text = <<>> \/ total.bytes + Bytes(text) <= MaxBytes THEN {file}
  ELSE {IF full.state = "open" THEN [full EXCEPT !.text = @ \o text] ELSE full : full \in Ensured(file, <<>>)}

\* The file has all from when the output first is too long.
Appended(text) ==
  IF text = <<>> \/ total.bytes + Bytes(text) <= MaxBytes THEN {file}
  ELSE {IF full.state = "open" THEN [full EXCEPT !.text = @ \o text] ELSE full : full \in Ensured(file, tail)}

\* appendSanitized, but for the file.
AppendSanitized(text) ==
  /\ total' = IF text = <<>> THEN total
              ELSE [bytes |-> total.bytes + Bytes(text), newlines |-> total.newlines + Newlines(text),
                    ended |-> Last(text) = "newline"]
  /\ tail' = LastBytes(tail \o text, 2 * MaxBytes)

Write(piece) ==
  LET d == Decoded(undecoded \o piece, TRUE)
  IN  /\ shown = NotYet /\ Len(raw) + Len(piece) <= MaxRaw
      /\ raw' = raw \o piece /\ undecoded' = d.rest
      /\ AppendSanitized(d.text) /\ file' \in Appended(d.text)
      /\ UNCHANGED <<shown, window, lineLengths>>

\* totalLines.
TotalLines(t) == IF t.bytes = 0 THEN 1 ELSE t.newlines + (IF t.ended THEN 0 ELSE 1)

\* truncateTail: as many of the last lines as fit, or the end of the last one.
TruncateTail(text) ==
  LET body   == IF text # <<>> /\ Last(text) = "newline" THEN Front(text) ELSE text
      starts == {k \in 1..(Len(body) + 1) : k = 1 \/ body[k - 1] = "newline"}
      From(k) == SubSeq(body, k, Len(body))
      fits   == {k \in starts : Bytes(From(k)) <= MaxBytes /\ Newlines(From(k)) < MaxLines}
  IN  IF Newlines(body) < MaxLines /\ Bytes(text) <= MaxBytes
        THEN [state |-> "shown", text |-> text, truncated |-> FALSE, partial |-> FALSE]
        ELSE IF fits # {}
               THEN [state |-> "shown", text |-> From(Min(fits)), truncated |-> TRUE, partial |-> FALSE]
               ELSE [state |-> "shown", text |-> LastBytes(From(Max(starts)), MaxBytes),
                     truncated |-> TRUE, partial |-> TRUE]

\* finish: a text that only has too many lines is put into a file now.
Finish ==
  LET text == Decoded(undecoded, FALSE).text
  IN  /\ shown = NotYet
      /\ undecoded' = <<>>
      /\ AppendSanitized(text)
      /\ shown' = [TruncateTail(tail') EXCEPT !.truncated = @ \/ total'.bytes > MaxBytes \/ TotalLines(total') > MaxLines]
      /\ \E full \in Appended(text) : file' \in IF shown'.truncated THEN Ensured(full, tail') ELSE {full}
      /\ UNCHANGED <<raw, window, lineLengths>>

-----------------------------------------------------------------------------
(* headWindowCollector. *)

AddLine(w, n) ==
  LET size == n + (IF w.lines > 0 THEN 1 ELSE 0)
      cost == n + (IF w.kept # <<>> THEN 1 ELSE 0)
      used == FoldLeft(LAMBDA a, b : a + b, 0, w.kept) + Max({0, Len(w.kept) - 1})
      seen == [w EXCEPT !.lines = @ + 1, !.bytes = @ + size]
  IN  IF Len(w.kept) >= MaxLines \/ w.full THEN seen
      ELSE IF used + cost > MaxBytes THEN [seen EXCEPT !.full = TRUE]
      ELSE [seen EXCEPT !.kept = Append(@, n)]

ReadLine(n) ==
  /\ Len(lineLengths) < MaxFileLines
  /\ window' = AddLine(window, n) /\ lineLengths' = Append(lineLengths, n)
  /\ UNCHANGED <<raw, undecoded, tail, total, file, shown>>

\* truncateHead, of all lines at once.
Joined(lines) == FoldLeft(LAMBDA a, b : a + b, 0, lines) + Max({0, Len(lines) - 1})
TruncateHead(lines) ==
  LET fits == {k \in 0..Min({Len(lines), MaxLines}) : Joined(SubSeq(lines, 1, k)) <= MaxBytes}
  IN  IF Len(lines) <= MaxLines /\ Joined(lines) <= MaxBytes THEN lines ELSE SubSeq(lines, 1, Max(fits))

Pieces == {<<a>> : a \in Byte} \cup {<<a, b>> : a, b \in Byte}

OutputNext ==
  \/ lineLengths = <<>> /\ (Finish \/ \E p \in Pieces : Write(p))
  \/ raw = <<>> /\ shown = NotYet /\ \E n \in 0..MaxLineLength : ReadLine(n)

-----------------------------------------------------------------------------
OutputTypeOK ==
  /\ Len(raw) <= MaxRaw /\ Len(undecoded) <= 1 /\ Bytes(tail) <= 2 * MaxBytes
  /\ total.bytes \in Nat /\ total.newlines \in 0..MaxRaw
  /\ file.state \in {"none", "open", "broken"}

\* All of the output, as if it had come in one piece.
Whole == Decoded(raw, FALSE).text

\* However the output was cut in pieces: what is shown is its end, within the
\* limits and from the beginning of a line unless that line alone is too long;
\* what is not shown is in the file, with all that came before, or the capture
\* reports an error.
OutputKept ==
  shown # NotYet =>
    LET body  == IF Whole # <<>> /\ Last(Whole) = "newline" THEN Front(Whole) ELSE Whole
        start == Len(body) - Len(shown.text)
    IN  /\ ~shown.truncated => shown.text = Whole
        /\ shown.truncated =>
             /\ IsSuffix(shown.text, body)
             /\ start = 0 \/ body[start] = "newline" \/ shown.partial
             /\ shown.partial => Newlines(shown.text) = 0
             /\ file = BrokenFile \/ file.text = Whole
        /\ Bytes(shown.text) <= MaxBytes /\ Newlines(shown.text) <= MaxLines
        /\ total.bytes = Bytes(Whole) /\ TotalLines(total) = Max({1, Newlines(body) + 1})

\* A window that is read line by line shows what it would of the whole text.
WindowExact ==
  lineLengths # <<>> =>
    /\ window.kept = TruncateHead(lineLengths)
    /\ window.lines = Len(lineLengths) /\ window.bytes = Joined(lineLengths)

\* shell_output.go and read.go: the types, and the output and the window of a file are
\* kept to the byte, in what is shown, what is spilled and what is said to be left out.
TextsKept == OutputTypeOK /\ OutputKept /\ WindowExact
===============================================================================
