---------------------------- MODULE MCFeedContents ----------------------------
(* Instances of FeedContents for TLC: every short text as the only message of *)
(* a page, every short page of messages that differ in the rest with every    *)
(* short list of exclusions, messages with every arrangement of three text    *)
(* containers, and every kind of request for one page.                        *)
EXTENDS FeedContents

CONSTANTS i1, i2, i3, w1, w2, w3

MCWord(w, up) == [word |-> w, upper |-> up]

MCFixed == {MCWord(w2, FALSE)}

\* w3 is written like w1 and w2 in capitals, one after the other, and in capitals
\* like the format with a colon.
MCLetters ==
  [s \in Spelling |->
     LET first == IF s.upper THEN <<"A">> ELSE <<"a">>
         second == IF s.upper THEN <<"B", ":">> ELSE <<"b", ":">> IN
       IF s.word = w1 THEN first ELSE IF s.word = w2 THEN second
       ELSE IF s.upper THEN <<"rss", ":">> ELSE first \o <<"B", ":">>]

MCPieces == {MCWord(w1, FALSE), MCWord(w2, TRUE), Blank}

MCRequest(exclude, caseSensitive) ==
  [username |-> <<"u">>, format |-> "rss", exclude |-> exclude,
   caseSensitive |-> caseSensitive, cache_ttl |-> 0]

MCExcluding == {MCRequest(exclude, c) : exclude \in BoundedSeq(MCPieces, 2), c \in BOOLEAN}

MCKeyed ==
  [username : {<<>>, <<"u">>, <<"u", "v">>, <<"u", ":", "rss">>}, format : {"", "rss", "atom", "other"},
   exclude : BoundedSeq(MCPieces, 2) \cup {<<MCWord(w3, FALSE)>>, <<MCWord(w3, TRUE)>>},
   caseSensitive : BOOLEAN, cache_ttl : {1}]

MCLifetimes ==
  {[MCRequest(<<>>, FALSE) EXCEPT !.cache_ttl = ttl] :
     ttl \in {Missing, Malformed} \cup (-1..40)}

MCQuery == MCExcluding \cup MCKeyed \cup MCLifetimes

MCContainer(text, words) == [within |-> 0, inReply |-> FALSE, text |-> text, words |-> words]

MCMessage(texts) ==
  [path |-> <<"name", "number">>, texts |-> texts, date |-> 1, photos |-> <<>>, link |-> None]

MCText(text) == MCMessage(<<MCContainer(text, {})>>)

MCWorded(words) == MCMessage(<<MCContainer(<<"a">>, words)>>)

MCMessages == {
  MCText(<<"a">>),
  [MCWorded({MCWord(w1, TRUE)}) EXCEPT !.date = 3, !.photos = <<i1>>],
  [MCWorded({MCWord(w1, FALSE), MCWord(w2, TRUE)}) EXCEPT !.link = i3],
  [MCMessage(<<>>) EXCEPT !.photos = <<i1>>, !.date = 2],
  [MCMessage(<<>>) EXCEPT !.photos = <<None, i1, i2>>],
  [MCMessage(<<>>) EXCEPT !.link = i3],
  [MCText(<<"a">>) EXCEPT !.date = Malformed, !.photos = <<i1, i2>>],
  [MCText(<<"a">>) EXCEPT !.path = <<"name", "">>] }

\* Documents list nested containers after the one they are in.
MCNested(within, inReply) ==
  /\ \A i \in 1..3 : within[i] < i
  /\ within[3] \in {0, 2, within[2]}
  /\ \A i \in 2..3 : within[i] # 0 /\ inReply[within[i]] => inReply[i]

MCForests ==
  { [MCMessage([i \in 1..3 |-> [within |-> within[i], inReply |-> inReply[i], text |-> texts[i],
       words |-> <<{MCWord(w1, FALSE)}, {MCWord(w2, FALSE)}, {}>>[i]]]) EXCEPT !.photos = photos] :
    within \in {w \in [1..3 -> 0..2] : MCNested(w, [i \in 1..3 |-> FALSE])},
    inReply \in [1..3 -> BOOLEAN], texts \in [1..3 -> {<<>>, <<"a", ".">>}],
    photos \in {<<>>, <<i1>>} }

MCArranged == {m \in MCForests : MCNested([i \in 1..3 |-> m.texts[i].within],
                                          [i \in 1..3 |-> m.texts[i].inReply])}

MCInput(queries, pages, default) ==
  [query : queries, page : pages, cacheTTLDefault : {default}]

MCInputs ==
  MCInput({MCRequest(<<>>, FALSE)}, {<<MCText(text)>> : text \in BoundedSeq(Rune, 6)}, 1)
  \cup MCInput(MCExcluding, BoundedSeq(MCMessages, 2), 1)
  \cup MCInput({MCRequest(<<>>, FALSE)}, {<<m>> : m \in MCArranged}, 1)
  \cup MCInput(MCKeyed \cup MCLifetimes,
               {<<MCWorded({MCWord(w1, TRUE)}), MCWorded({MCWord(w2, TRUE)})>>}, 1)
  \cup MCInput(MCLifetimes, {<<>>}, -1)

MCTexts ==
  MCInput({MCRequest(<<>>, FALSE)},
          {<<MCText(text)>> : text \in BoundedSeq({"a", "(", ")"}, 5)}, 1)
==============================================================================
