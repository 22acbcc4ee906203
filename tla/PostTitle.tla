------------------------------- MODULE PostTitle -------------------------------
(***************************************************************************)
(* Titles of posts (extractTitle and formatTitle in                        *)
(* internal/feed/extract.go): the first line of a message, or else its     *)
(* first sentence, or all of it, with spaces collapsed, cut to             *)
(* maxTitleLength without ending inside a word or a parenthesis.           *)
(*                                                                         *)
(* A text is a sequence of runes, and runes are told apart as far as the   *)
(* code does: a letter, a space, the two parentheses, a full stop (which   *)
(* also stands for "!" and "?"), a colon and a line break of the HTML.     *)
(***************************************************************************)
EXTENDS Integers, Sequences, SequencesExt, Subsequences

CONSTANTS
  maxTitleLength,
  Ellipsis  \* the rune that marks a cut

Rune == {"a", " ", "(", ")", ".", ":", "br"}

Punctuation == {" ", ".", ":"}

ASSUME TitleLengthAssumption == maxTitleLength \in Nat \ {0}
ASSUME EllipsisAssumption    == Ellipsis \notin Rune

TrimRight(s, cut) ==
  LET Kept(r) == r \notin cut IN SubSeq(s, 1, SelectLastInSeq(s, Kept))

TrimSpace(s) ==
  LET Kept(r) == r # " " IN
    IF SelectInSeq(s, Kept) = 0 THEN <<>>
    ELSE SubSeq(s, SelectInSeq(s, Kept), SelectLastInSeq(s, Kept))

\* Of spaces in a row the first remains.
CollapseSpaces(s) ==
  Pick(s, {i \in DOMAIN s : s[i] = " " /\ i > 1 => s[i - 1] # " "})

\* The last opening parenthesis up to rune i that is not followed by a closing
\* one, 0 if there is none: inParens and parenStart.
OpenParen(s, i) ==
  LET Paren(r) == r \in {"(", ")"}
      last == SelectLastInSubSeq(s, 1, i, Paren) IN
    IF last # 0 /\ s[last] = "(" THEN last ELSE 0

\* What a parenthesis open at or after the limit leaves is cut off; otherwise
\* the runes outside parentheses remain.
removeIncompleteParens(s) ==
  LET crossing == {i \in maxTitleLength + 1..Len(s) : OpenParen(s, i) # 0} IN
    IF Len(s) =< maxTitleLength THEN s
    ELSE IF crossing # {}
      THEN Append(TrimRight(SubSeq(s, 1, OpenParen(s, Min(crossing)) - 1), Punctuation),
                  Ellipsis)
    ELSE Pick(s, {i \in DOMAIN s : OpenParen(s, i) = 0})

truncateAnywhere(s) ==
  IF Len(s) =< maxTitleLength THEN s
  ELSE Append(SubSeq(s, 1, maxTitleLength), Ellipsis)

truncateAtWordBoundary(s) ==
  LET hasColon == s # <<>> /\ Last(s) = ":"
      text == IF hasColon THEN Front(s) ELSE s
      Space(r) == r = " "
      lastWordEnd == SelectLastInSubSeq(text, 1, maxTitleLength, Space)
      kept == IF lastWordEnd > 1 THEN lastWordEnd - 1 ELSE maxTitleLength - 1 IN
    IF Len(text) > maxTitleLength
      THEN Append(TrimRight(SubSeq(text, 1, kept), Punctuation), Ellipsis)
    ELSE IF hasColon THEN Append(text, Ellipsis)
    ELSE text

Cleaned(s) == TrimSpace(CollapseSpaces(s))

formatTitle(s) == truncateAtWordBoundary(removeIncompleteParens(Cleaned(s)))

------------------------------------------------------------------------------
(* What of the message the title is made from.                               *)

IsBreak(r) == r = "br"

\* extractFirstLine: "" without a line break.
FirstLine(s) ==
  LET break == SelectInSeq(s, IsBreak) IN
    IF break = 0 THEN <<>> ELSE TrimSpace(SubSeq(s, 1, break - 1))

\* Where the first match of sentenceEndRegex ends, 0 without a match.
SentenceEnd(s) ==
  LET Stop(i) == s[i] = "." /\ (i = Len(s) \/ s[i + 1] = " ")
      Dots(i) == i + 2 =< Len(s) /\ SubSeq(s, i, i + 2) = <<".", ".", ".">>
      found == {i \in 1..Len(s) : Stop(i) \/ Dots(i)} IN
    IF found = {} THEN 0
    ELSE LET i == Min(found) IN
      IF Dots(i) THEN i + 2 ELSE IF i = Len(s) THEN i ELSE i + 1

\* Lines are those of the container's HTML, sentences those of its text.
TitleSource(html, text) ==
  LET plain == Pick(text, {i \in DOMAIN text : ~ IsBreak(text[i])}) IN
    IF FirstLine(html) # <<>> THEN FirstLine(html)
    ELSE IF SentenceEnd(plain) # 0 THEN SubSeq(plain, 1, SentenceEnd(plain))
    ELSE plain

extractTitle(html, text) == formatTitle(TitleSource(html, text))

==============================================================================
