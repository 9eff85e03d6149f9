------------------------------- MODULE Masking -------------------------------
(***************************************************************************)
(* strip_comments_and_strings, in the three forms the source extractors     *)
(* have it: a scan of one Solidity file that blanks comments and literals   *)
(* and keeps every position, so that what follows may match text and count  *)
(* braces and lines.                                                        *)
(***************************************************************************)
EXTENDS Integers, Sequences, SequencesExt, FiniteSets, FiniteSetsExt, Rounds

CONSTANT MaxSource  \* bound: characters of a file

ASSUME MaskingAssumption == MaxSource \in Nat

VARIABLE mask  \* the scan: form, file, next position, mode, and what was put out

\* Characters the scan tells apart, the backslash as "escape"; "other" is any further one.
Quotes == {"double", "single"}
Chars == Quotes \cup {"slash", "star", "escape", "newline", "other"}
Blank == "blank"
Blanks(n) == [i \in 1..n |-> Blank]

MaskIdle == [form |-> "idle", src |-> <<>>, at |-> 1, mode |-> "code", out |-> <<>>]

Here == mask.src[mask.at]
Next1 == IF mask.at < Len(mask.src) THEN mask.src[mask.at + 1] ELSE "none"

\* One iteration: what is put out, how many characters it consumes, and the mode after it.
Put(text, consumed, mode) ==
  mask' = [mask EXCEPT !.out = @ \o text, !.at = @ + consumed, !.mode = mode]

Scanning(form) == mask.form = form /\ mask.at <= Len(mask.src)

\* Code: comments open with two characters, literals with their quote; the rest is copied.
Code ==
  /\ mask.mode = "code"
  /\ \/ Here = "slash" /\ Next1 = "slash" /\ Put(Blanks(2), 2, "line")
     \/ Here = "slash" /\ Next1 = "star" /\ Put(Blanks(2), 2, "block")
     \/ Here \in Quotes /\ Put(<<Here>>, 1, Here)
     \/ Here \notin Quotes /\ ~(Here = "slash" /\ Next1 \in {"slash", "star"}) /\ Put(<<Here>>, 1, "code")

Comment ==
  \/ mask.mode = "line" /\ IF Here = "newline" THEN Put(<<Here>>, 1, "code") ELSE Put(Blanks(1), 1, "line")
  \/ mask.mode = "block" /\ Here = "star" /\ Next1 = "slash" /\ Put(Blanks(2), 2, "code")
  \/ /\ mask.mode = "block" /\ ~(Here = "star" /\ Next1 = "slash")
     /\ Put(<<IF Here = "newline" THEN Here ELSE Blank>>, 1, "block")

\* Mutant: a backslash hides nothing.
EscapedOne(c) == 1

\* How many characters a character of a literal stands for: a backslash hides the next one.
Escaped(c) == IF c = "escape" THEN 2 ELSE 1

\* A literal of one kind of quote; newlines are kept by the first two forms.
Literal(keepsLines) ==
  /\ mask.mode \in Quotes
  /\ \/ Here = "escape" /\ Put(Blanks(Escaped(Here)), Escaped(Here), mask.mode)
     \/ Here = mask.mode /\ Put(<<Here>>, 1, "code")
     \/ /\ Here \notin {"escape", mask.mode}
        /\ Put(<<IF Here = "newline" /\ keepsLines THEN Here ELSE Blank>>, 1, mask.mode)

WindowMask == Scanning("window") /\ (Code \/ Comment \/ Literal(TRUE))

TaintMask == Scanning("taint") /\ (Code \/ Comment \/ Literal(TRUE))

ExternalMask == Scanning("external") /\ (Code \/ Comment \/ Literal(FALSE))

MaskStart ==
  /\ mask = MaskIdle
  /\ \E form \in {"window", "taint", "external"}, src \in BoundedSeq(Chars, MaxSource) :
       mask' = [MaskIdle EXCEPT !.form = form, !.src = src]

MaskNext == MaskStart \/ WindowMask \/ TaintMask \/ ExternalMask

-----------------------------------------------------------------------------
(* What masking should be, found from the outside: the regions of a file.    *)

Least(S, default) == IF S = {} THEN default ELSE Min(S)

\* An odd number of backslashes stands directly before position j.
Hidden(s, j) ==
  \E k \in 0..(j - 1) : /\ k = 0 \/ s[k] # "escape"
                        /\ (\A l \in (k + 1)..(j - 1) : s[l] = "escape") /\ (j - k) % 2 = 0

Opens(s, i) == s[i] \in Quotes \/ (i < Len(s) /\ s[i] = "slash" /\ s[i + 1] \in {"slash", "star"})

\* The last position of the region that opens at i; a comment to the end of its line ends before the newline.
Ends(s, i) ==
  IF s[i] \in Quotes THEN Least({j \in (i + 1)..Len(s) : s[j] = s[i] /\ ~Hidden(s, j)}, Len(s) + 1)
  ELSE IF s[i + 1] = "slash" THEN Least({j \in (i + 2)..Len(s) : s[j] = "newline"}, Len(s) + 1) - 1
  ELSE Least({j \in (i + 3)..Len(s) : s[j - 1] = "star" /\ s[j] = "slash"}, Len(s) + 1)

\* From a position of code to the next one, over the region that opens there.
Beyond(s) == [i \in 1..(Len(s) + 2) |-> IF i > Len(s) THEN i ELSE IF Opens(s, i) THEN Ends(s, i) + 1 ELSE i + 1]

CodeAfter(s, n) == Grown(1, Beyond(s), n)
Openings(s) == {i \in {CodeAfter(s, n) : n \in 0..Len(s)} : i <= Len(s) /\ Opens(s, i)}
Regions(s) == {<<i, Ends(s, i)>> : i \in Openings(s)}
QuotedRegions(s) == {g \in Regions(s) : s[g[1]] \in Quotes}

\* A literal that is not closed: no compiler accepts the file.
Unclosed(s) == \E g \in QuotedRegions(s) : g[2] > Len(s)

\* Position i of the masked text: code and quotes as they are, blanks for the rest, and the newlines,
\* except one that a backslash continues a literal over; the third form keeps none in a literal.
Masked(s, form, i) ==
  IF ~\E g \in Regions(s) : g[1] <= i /\ i <= g[2] THEN s[i]
  ELSE IF \E g \in QuotedRegions(s) : i \in {g[1], g[2]} THEN s[i]
  ELSE IF s[i] # "newline" THEN Blank
  ELSE IF (\E g \in QuotedRegions(s) : g[1] < i /\ i < g[2]) /\ (form = "external" \/ Hidden(s, i)) THEN Blank
  ELSE s[i]

(* The masked text has a character for each of the file's, and it is the right one. *)
MaskingExact ==
  mask.at > Len(mask.src) /\ ~Unclosed(mask.src) =>
    mask.out = [i \in DOMAIN mask.src |-> Masked(mask.src, mask.form, i)]
=============================================================================
