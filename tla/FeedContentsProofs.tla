--------------------------- MODULE FeedContentsProofs ---------------------------
(***************************************************************************)
(* What is proved of FeedContents, for every page and every request.       *)
(***************************************************************************)
EXTENDS FeedContents, PostTitleProofs

------------------------------------------------------------------------------
(* Messages.                                                                 *)

\* The photos of a message are images, those that its styles lead to.
LEMMA PhotosFound ==
  ASSUME NEW message \in Message
  PROVE  /\ Photos(message) \in Seq(Image)
         /\ ToSet(Photos(message)) = ToSet(message.photos) \ {None}
<1> DEFINE photos == message.photos
           n == Len(photos)
           found == {i \in DOMAIN photos : photos[i] # None}
           p == Photos(message)
           S == Image \cup {None}
<1>1. photos \in Seq(S)
  BY DEF Message
<1>2. p = Pick(photos, found)
  BY DEF Photos
<1> HIDE DEF p, photos, S
<1>3. DOMAIN photos = 1..n /\ n \in Nat
  BY <1>1
<1>4. \A i \in 1..n : i \in found <=> photos[i] # None
  BY <1>3
<1> HIDE DEF found, n
<1>5. /\ p \in Seq(S)
      /\ \A k \in 1..Len(p) : \E i \in 1..n : i \in found /\ p[k] = photos[i]
      /\ \A i \in 1..n : i \in found => \E k \in 1..Len(p) : p[k] = photos[i]
  <2> DEFINE q == Pick(photos, found)
  <2>1. /\ q \in Seq(S)
        /\ \A k \in 1..Len(q) : \E i \in 1..Len(photos) : i \in found /\ q[k] = photos[i]
        /\ \A i \in 1..Len(photos) : i \in found => \E k \in 1..Len(q) : q[k] = photos[i]
    BY <1>1, PickElements
  <2> QED
    BY <1>2, <2>1 DEF n
<1>6. Len(p) \in Nat /\ DOMAIN p = 1..Len(p) /\ p = [k \in 1..Len(p) |-> p[k]]
  BY <1>5
<1>7. \A k \in 1..Len(p) : p[k] \in Image
  <2> TAKE k \in 1..Len(p)
  <2>1. PICK i \in 1..n : i \in found /\ p[k] = photos[i]
    BY <1>5
  <2>2. photos[i] \in S /\ photos[i] # None
    BY <1>1, <1>3, <1>4, <2>1
  <2> QED
    BY <2>1, <2>2 DEF S
<1>8. p \in Seq(Image)
  <2>1. p \in [1..Len(p) -> Image]
    BY <1>6, <1>7
  <2> QED
    BY <1>6, <2>1, SeqDef
<1>9. ToSet(p) = ToSet(photos) \ {None}
  BY <1>3, <1>4, <1>5, <1>6 DEF ToSet
<1> QED
  BY <1>8, <1>9 DEF p, photos

\* Nested containers come after the one they are in.
Nested(message) ==
  \A c \in DOMAIN message.texts : message.texts[c].within < c

\* The containers of a message that are in no quoted message.
Main(message) == {c \in DOMAIN message.texts : ~ message.texts[c].inReply}

\* If there is such a container one of them is found, the last, and no other is
\* in it.
LEMMA MainFound ==
  ASSUME NEW message \in Message, Nested(message), Main(message) # {}
  PROVE  \E c \in Main(message) \ {message.texts[d].within : d \in Main(message)} :
           findMessageContainer(message) = {c}
<1> DEFINE texts == message.texts
           n == Len(texts)
           main == Main(message)
           c == Max(main)
<1>1. texts \in Seq(Container)
  BY DEF Message
<1> HIDE DEF texts
<1>2. DOMAIN texts = 1..n /\ n \in Nat
  BY <1>1
<1>3. main \subseteq 1..n
  BY <1>2 DEF Main, texts
<1>4. findMessageContainer(message) = {c}
  BY DEF findMessageContainer, Main
<1> HIDE DEF n, main
<1>5. c \in main /\ \A d \in main : d =< c
  <2>1. main \subseteq 0..n /\ main # {}
    BY <1>2, <1>3 DEF main
  <2> QED
    BY <1>2, <2>1, MaxPlace
<1> HIDE DEF c
<1>6. \A d \in main : texts[d].within # c
  <2> TAKE d \in main
  <2>1. d \in 1..n /\ c \in 1..n /\ d =< c
    BY <1>3, <1>5
  <2>2. texts[d].within < d /\ texts[d].within \in Nat
    <3>1. texts[d].within < d
      BY <1>2, <2>1 DEF Nested, texts
    <3>2. texts[d] \in Container
      BY <1>1, <2>1 DEF n
    <3> QED
      BY <3>1, <3>2 DEF Container
  <2> QED
    BY <1>2, <2>1, <2>2
<1> QED
  BY <1>4, <1>5, <1>6 DEF main, texts

\* What is found is containers, whose texts are runes.
LEMMA ContainersFound ==
  ASSUME NEW message \in Message, Nested(message)
  PROVE  /\ findMessageContainer(message) \subseteq DOMAIN message.texts
         /\ Html(message) \in Seq(Rune)
         /\ Text(message) \in Seq(Rune)
         /\ HasHtml(message) => HtmlWords(message) \in SUBSET Spelling
<1> DEFINE texts == message.texts
           n == Len(texts)
           found == findMessageContainer(message)
           first == Min(found)
           plain == [i \in DOMAIN texts |-> texts[i].text]
<1>1. texts \in Seq(Container)
  BY DEF Message
<1>2. found \subseteq DOMAIN texts
  <2>1. CASE Main(message) # {}
    BY <2>1, MainFound DEF Main
  <2>2. CASE Main(message) = {}
    BY <2>2 DEF findMessageContainer, Main
  <2> QED
    BY <2>1, <2>2
<1>3. Html(message) = IF found = {} THEN <<>> ELSE texts[first].text
  BY DEF Html
<1>4. Text(message) = FlattenSeq(Pick(plain, found))
  BY DEF Text
<1>5. HtmlWords(message) = texts[first].words
  BY DEF HtmlWords
<1> HIDE DEF texts, found
<1>6. DOMAIN texts = 1..n /\ n \in Nat
  BY <1>1
<1>7. \A i \in 1..n : texts[i].text \in Seq(Rune) /\ texts[i].words \in SUBSET Spelling
  <2>1. \A i \in 1..n : texts[i] \in Container
    BY <1>1
  <2> QED
    BY <2>1 DEF Container
<1>8. ASSUME found # {} PROVE first \in 1..n
  <2>1. found \subseteq Nat
    BY <1>2, <1>6
  <2> QED
    BY <1>2, <1>6, <1>8, <2>1, MinPlace
<1>9. plain \in Seq(Seq(Rune))
  <2>1. plain = [i \in 1..n |-> texts[i].text]
    BY <1>6
  <2>2. plain \in [1..n -> Seq(Rune)]
    BY <1>7, <2>1
  <2> QED
    BY <1>6, <2>2, SeqDef
<1>10. Text(message) \in Seq(Rune)
  <2> HIDE DEF plain
  <2>1. Pick(plain, found) \in Seq(Seq(Rune))
    BY <1>9, PickElements
  <2>2. <<>> \in Seq(Rune)
    OBVIOUS
  <2> QED
    BY <1>4, <2>1, <2>2, FlattenAppend
<1>11. Html(message) \in Seq(Rune) /\ (found = {} => Html(message) = <<>>)
  <2>1. CASE found = {}
    BY <1>3, <2>1
  <2>2. CASE found # {}
    BY <1>3, <1>7, <1>8, <2>2
  <2> QED
    BY <2>1, <2>2
<1>12. HasHtml(message) => HtmlWords(message) \in SUBSET Spelling
  BY <1>5, <1>7, <1>8, <1>11 DEF HasHtml
<1> QED
  BY <1>2, <1>10, <1>11, <1>12 DEF texts, found

\* What is shown of a message with a container in no quoted message is one of
\* them, and no other of them is in it.
LEMMA OwnTextFound ==
  ASSUME NEW message \in Message, Nested(message), Main(message) # {}, HasHtml(message)
  PROVE  \E c \in Main(message) \ {message.texts[d].within : d \in Main(message)} :
           /\ WordsOf(message) = message.texts[c].words
           /\ TitleOf(message) = extractTitle(message.texts[c].text, message.texts[c].text)
<1> DEFINE texts == message.texts
           n == Len(texts)
           plain == [i \in DOMAIN texts |-> texts[i].text]
           inner == Main(message) \ {texts[d].within : d \in Main(message)}
<1>1. PICK c \in inner : findMessageContainer(message) = {c}
  BY MainFound
<1>2. Min({c}) = c
  <2>1. c \in DOMAIN texts
    BY DEF Main
  <2>2. DOMAIN texts = 1..n /\ n \in Nat
    <3>1. texts \in Seq(Container)
      BY DEF Message
    <3> HIDE DEF texts
    <3> QED
      BY <3>1
  <2>3. {c} \subseteq Nat
    BY <2>1, <2>2
  <2> QED
    BY <2>3, MinPlace
<1>3. Html(message) = texts[c].text /\ HtmlWords(message) = texts[c].words
  BY <1>1, <1>2 DEF Html, HtmlWords
<1>4. texts \in Seq(Container) /\ c \in DOMAIN texts
  BY DEF Message, Main
<1> HIDE DEF texts, inner
<1>5. DOMAIN texts = 1..n /\ n \in Nat /\ c \in 1..n
  BY <1>4
<1>6. \A i \in 1..n : texts[i].text \in Seq(Rune)
  <2>1. \A i \in 1..n : texts[i] \in Container
    BY <1>4
  <2> QED
    BY <2>1 DEF Container
<1>7. plain \in Seq(Seq(Rune)) /\ Len(plain) = n /\ plain[c] = texts[c].text
  <2>1. plain = [i \in 1..n |-> texts[i].text]
    BY <1>5
  <2>2. plain \in [1..n -> Seq(Rune)]
    BY <1>6, <2>1
  <2> QED
    BY <1>5, <2>1, <2>2, SeqDef
<1>8. Text(message) = FlattenSeq(Pick(plain, {c}))
  BY <1>1 DEF Text, texts
<1> HIDE DEF plain
<1>9. Text(message) = texts[c].text
  <2>1. Pick(plain, {c}) = <<plain[c]>>
    BY <1>5, <1>7, PickOne
  <2>2. texts[c].text \in Seq(Rune)
    BY <1>5, <1>6
  <2> QED
    BY <1>7, <1>8, <2>1, <2>2, FlattenOne
<1>10. ContentOf(message) = "html"
  BY DEF ContentOf
<1>11. WordsOf(message) = texts[c].words
  BY <1>3, <1>10 DEF WordsOf
<1>12. TitleOf(message) = extractTitle(texts[c].text, texts[c].text)
  BY <1>3, <1>9, <1>10 DEF TitleOf
<1> QED
  BY <1>11, <1>12 DEF inner, texts

\* What the scraper makes of a message has its types.
LEMMA MessageTyped ==
  ASSUME NEW message \in Message, Nested(message)
  PROVE  /\ TitleOf(message) \in Title
         /\ ContentOf(message) \in {"html", "unsupported", "empty"}
         /\ WordsOf(message) \in SUBSET Spelling
         /\ extractPreview(message) \subseteq Sized \cup {None}
         /\ extractPreview(message) # {}
<1> DEFINE title == extractTitle(Html(message), Text(message))
<1>1. title \in Seq(Rune \cup {Ellipsis})
  BY ContainersFound, TitleOfText
<1> HIDE DEF title
<1>2. ContentOf(message) \in {"html", "unsupported", "empty"}
  BY DEF ContentOf
<1>3. TitleOf(message) \in {title, UnsupportedTitle, ImagePostTitle}
  BY DEF TitleOf, title
<1>4. TitleOf(message) \in Title
  BY <1>1, <1>3 DEF Title
<1>5. ContentOf(message) = "html" => HasHtml(message)
  BY DEF ContentOf
<1>6. WordsOf(message) \in SUBSET Spelling
  BY <1>5, ContainersFound, InputAssumption DEF WordsOf
<1>7. extractPreview(message) \subseteq Sized \cup {None} /\ extractPreview(message) # {}
  <2>1. message.link \in Image \cup {None}
    BY DEF Message
  <2>2. CASE message.link = None
    BY <2>2 DEF extractPreview
  <2>3. CASE message.link # None
    <3>1. /\ message.link \in Image
          /\ extractPreview(message) =
               {[image |-> message.link, size |-> size] : size \in {message.link, Unknown}}
      BY <2>1, <2>3 DEF extractPreview, getImageSize
    <3> DEFINE Of(size) == [image |-> message.link, size |-> size]
    <3>2. extractPreview(message) = {Of(message.link), Of(Unknown)}
      BY <3>1
    <3>3. Of(message.link) \in Sized /\ Of(Unknown) \in Sized
      BY <3>1 DEF Sized
    <3> HIDE DEF Of
    <3> QED
      BY <3>2, <3>3
  <2> QED
    BY <2>2, <2>3
<1> QED
  BY <1>2, <1>4, <1>6, <1>7

------------------------------------------------------------------------------
(* Parameters.                                                               *)

\* The pieces of the exclude parameter that are not only spaces are kept.
LEMMA WordsKept ==
  ASSUME NEW pieces \in Seq(Spelling \cup {Blank})
  PROVE  /\ ExcludeWords(pieces) \in Seq(Spelling)
         /\ ToSet(ExcludeWords(pieces)) = ToSet(pieces) \ {Blank}
<1> DEFINE n == Len(pieces)
           kept == {i \in DOMAIN pieces : pieces[i] # Blank}
           S == Spelling \cup {Blank}
           q == Pick(pieces, kept)
           p == ExcludeWords(pieces)
<1>1. p = q
  BY DEF ExcludeWords
<1>2. pieces \in Seq(S)
  OBVIOUS
<1> HIDE DEF p, S
<1>3. DOMAIN pieces = 1..n /\ n \in Nat
  BY <1>2
<1>4. \A i \in 1..n : i \in kept <=> pieces[i] # Blank
  BY <1>3
<1> HIDE DEF kept
<1>5. /\ q \in Seq(S)
      /\ \A k \in 1..Len(q) : \E i \in 1..n : i \in kept /\ q[k] = pieces[i]
      /\ \A i \in 1..n : i \in kept => \E k \in 1..Len(q) : q[k] = pieces[i]
  BY <1>2, PickElements
<1> HIDE DEF n, q
<1>6. Len(p) \in Nat /\ DOMAIN p = 1..Len(p) /\ p = [k \in 1..Len(p) |-> p[k]]
  BY <1>1, <1>5
<1>7. \A k \in 1..Len(p) : p[k] \in Spelling
  <2> TAKE k \in 1..Len(p)
  <2>1. PICK i \in 1..n : i \in kept /\ p[k] = pieces[i]
    BY <1>1, <1>5
  <2>2. pieces[i] \in S /\ pieces[i] # Blank
    BY <1>2, <1>3, <1>4, <2>1 DEF n
  <2> QED
    BY <2>1, <2>2 DEF S
<1>8. p \in Seq(Spelling)
  <2>1. p \in [1..Len(p) -> Spelling]
    BY <1>6, <1>7
  <2> QED
    BY <1>6, <2>1, SeqDef
<1>9. ToSet(p) = ToSet(pieces) \ {Blank}
  BY <1>1, <1>3, <1>4, <1>5, <1>6 DEF ToSet
<1> QED
  BY <1>8, <1>9 DEF p

\* The parameters of a request that is not rejected.
LEMMA ParamsTyped ==
  ASSUME NEW q \in Query, ~ Rejected(q), NEW default \in Int,
         NEW p, p = FeedParamsOf(q, default)
  PROVE  /\ p.Username = q.username /\ p.Username \in Seq(Character)
         /\ p.Format \in {"rss", "atom"}
         /\ p.ExcludeWords \in Seq(Spelling)
         /\ ToSet(p.ExcludeWords) = ToSet(q.exclude) \ {Blank}
         /\ p.ExcludeCaseSensitive = q.caseSensitive /\ q.caseSensitive \in BOOLEAN
         /\ p.CacheTTL \in Int
         /\ p.CacheTTL = IF q.cache_ttl = Missing THEN default ELSE q.cache_ttl
<1>1. q \in Queries
  BY QueryAssumption
<1>2. /\ q.username \in Seq(Character) /\ q.format \in {"", "rss", "atom", "other"}
      /\ q.exclude \in Seq(Spelling \cup {Blank}) /\ q.caseSensitive \in BOOLEAN
      /\ q.cache_ttl \in Int \cup {Missing, Malformed}
  BY <1>1 DEF Queries
<1>3. q.format # "other" /\ q.cache_ttl # Malformed
  BY DEF Rejected
<1>4. /\ p.Username = q.username
      /\ p.Format = IF q.format = "" THEN "rss" ELSE q.format
      /\ p.ExcludeWords = ExcludeWords(q.exclude)
      /\ p.ExcludeCaseSensitive = q.caseSensitive
      /\ p.CacheTTL = IF q.cache_ttl = Missing THEN default ELSE q.cache_ttl
  BY DEF FeedParamsOf, CacheTTL
<1>5. p.Format \in {"rss", "atom"}
  BY <1>2, <1>3, <1>4
<1>6. p.CacheTTL \in Int
  BY <1>2, <1>3, <1>4
<1> QED
  BY <1>2, <1>4, <1>5, <1>6, WordsKept

------------------------------------------------------------------------------
(* Keys.                                                                     *)

\* What is put together from two parts of given lengths can be taken apart.
LEMMA PartsTold ==
  ASSUME NEW S, NEW a \in Seq(S), NEW s \in Seq(S), NEW b \in Seq(S), NEW t \in Seq(S),
         a \o s = b \o t, Len(a) = Len(b)
  PROVE  a = b /\ s = t
<1>1. Len(s) = Len(t)
  <2>1. Len(a \o s) = Len(a) + Len(s) /\ Len(b \o t) = Len(b) + Len(t)
    OBVIOUS
  <2> QED
    BY <2>1
<1>2. \A i \in 1..Len(a) : a[i] = b[i]
  <2> TAKE i \in 1..Len(a)
  <2>1. (a \o s)[i] = a[i] /\ (b \o t)[i] = b[i]
    OBVIOUS
  <2> QED
    BY <2>1
<1>3. \A i \in 1..Len(s) : s[i] = t[i]
  <2> TAKE i \in 1..Len(s)
  <2>1. (a \o s)[Len(a) + i] = s[i] /\ (b \o t)[Len(b) + i] = t[i]
    BY <1>1
  <2> QED
    BY <2>1
<1>4. a = [i \in 1..Len(a) |-> a[i]] /\ b = [i \in 1..Len(b) |-> b[i]]
  OBVIOUS
<1>5. s = [i \in 1..Len(s) |-> s[i]] /\ t = [i \in 1..Len(t) |-> t[i]]
  OBVIOUS
<1> QED
  BY <1>1, <1>2, <1>3, <1>4, <1>5

\* A mark that is in neither beginning tells where they end.
LEMMA FirstMarkTold ==
  ASSUME NEW S, NEW mark \in S,
         NEW a \in Seq(S), NEW s \in Seq(S), NEW b \in Seq(S), NEW t \in Seq(S),
         a \o (<<mark>> \o s) = b \o (<<mark>> \o t),
         mark \notin ToSet(a), mark \notin ToSet(b)
  PROVE  a = b /\ s = t
<1> DEFINE ms == <<mark>> \o s
           mt == <<mark>> \o t
<1>1. /\ ms \in Seq(S) /\ Len(ms) = Len(s) + 1 /\ ms[1] = mark
      /\ mt \in Seq(S) /\ Len(mt) = Len(t) + 1 /\ mt[1] = mark
  OBVIOUS
<1>2. a \o ms = b \o mt
  OBVIOUS
<1>3. (\A i \in 1..Len(a) : a[i] # mark) /\ (\A i \in 1..Len(b) : b[i] # mark)
  BY DEF ToSet
<1> HIDE DEF ms, mt
<1>4. ASSUME Len(a) < Len(b) PROVE FALSE
  <2>1. Len(a) + 1 \in 1..Len(b)
    BY <1>4
  <2>2. (a \o ms)[Len(a) + 1] = mark
    BY <1>1
  <2>3. (b \o mt)[Len(a) + 1] = b[Len(a) + 1]
    BY <1>1, <2>1
  <2> QED
    BY <1>2, <1>3, <2>1, <2>2, <2>3
<1>5. ASSUME Len(b) < Len(a) PROVE FALSE
  <2>1. Len(b) + 1 \in 1..Len(a)
    BY <1>5
  <2>2. (b \o mt)[Len(b) + 1] = mark
    BY <1>1
  <2>3. (a \o ms)[Len(b) + 1] = a[Len(b) + 1]
    BY <1>1, <2>1
  <2> QED
    BY <1>2, <1>3, <2>1, <2>2, <2>3
<1>6. Len(a) = Len(b)
  <2>1. Len(a) \in Nat /\ Len(b) \in Nat
    OBVIOUS
  <2> QED
    BY <1>4, <1>5, <2>1
<1>7. a = b /\ ms = mt
  BY <1>1, <1>2, <1>6, PartsTold
<1>8. s = t
  <2>1. <<mark>> \in Seq(S)
    OBVIOUS
  <2> QED
    BY <1>7, <2>1, PartsTold DEF ms, mt
<1> QED
  BY <1>7, <1>8

\* A mark that is in neither end tells where they begin.
LEMMA LastMarkTold ==
  ASSUME NEW S, NEW mark \in S,
         NEW a \in Seq(S), NEW s \in Seq(S), NEW b \in Seq(S), NEW t \in Seq(S),
         a \o (<<mark>> \o s) = b \o (<<mark>> \o t),
         mark \notin ToSet(s), mark \notin ToSet(t)
  PROVE  a = b /\ s = t
<1> DEFINE ms == <<mark>> \o s
           mt == <<mark>> \o t
<1>1. /\ ms \in Seq(S) /\ Len(ms) = Len(s) + 1 /\ ms[1] = mark
      /\ mt \in Seq(S) /\ Len(mt) = Len(t) + 1 /\ mt[1] = mark
      /\ \A i \in 2..Len(s) + 1 : ms[i] = s[i - 1]
      /\ \A i \in 2..Len(t) + 1 : mt[i] = t[i - 1]
  OBVIOUS
<1>2. a \o ms = b \o mt
  OBVIOUS
<1>3. (\A i \in 1..Len(s) : s[i] # mark) /\ (\A i \in 1..Len(t) : t[i] # mark)
  BY DEF ToSet
<1>4. \A i \in 2..Len(s) + 1 : ms[i] # mark
  <2> TAKE i \in 2..Len(s) + 1
  <2>1. i - 1 \in 1..Len(s)
    OBVIOUS
  <2> QED
    BY <1>1, <1>3, <2>1
<1>5. \A i \in 2..Len(t) + 1 : mt[i] # mark
  <2> TAKE i \in 2..Len(t) + 1
  <2>1. i - 1 \in 1..Len(t)
    OBVIOUS
  <2> QED
    BY <1>1, <1>3, <2>1
<1> HIDE DEF ms, mt
<1>6. Len(a) + Len(ms) = Len(b) + Len(mt)
  <2>1. ms \in Seq(S) /\ mt \in Seq(S)
    BY <1>1
  <2>2. Len(a \o ms) = Len(a) + Len(ms) /\ Len(b \o mt) = Len(b) + Len(mt)
    BY <2>1
  <2> QED
    BY <1>2, <2>2
<1>7. ASSUME Len(a) < Len(b) PROVE FALSE
  <2> DEFINE d == Len(b) + 1 - Len(a)
  <2>1. d \in 2..Len(s) + 1 /\ Len(a) + d = Len(b) + 1
    BY <1>1, <1>6, <1>7
  <2> HIDE DEF d
  <2>2. (a \o ms)[Len(a) + d] = ms[d]
    BY <1>1, <2>1
  <2>3. (b \o mt)[Len(b) + 1] = mark
    BY <1>1
  <2> QED
    BY <1>2, <1>4, <2>1, <2>2, <2>3
<1>8. ASSUME Len(b) < Len(a) PROVE FALSE
  <2> DEFINE d == Len(a) + 1 - Len(b)
  <2>1. d \in 2..Len(t) + 1 /\ Len(b) + d = Len(a) + 1
    BY <1>1, <1>6, <1>8
  <2> HIDE DEF d
  <2>2. (b \o mt)[Len(b) + d] = mt[d]
    BY <1>1, <2>1
  <2>3. (a \o ms)[Len(a) + 1] = mark
    BY <1>1
  <2> QED
    BY <1>2, <1>5, <2>1, <2>2, <2>3
<1>9. Len(a) = Len(b)
  <2>1. Len(a) \in Nat /\ Len(b) \in Nat
    OBVIOUS
  <2> QED
    BY <1>7, <1>8, <2>1
<1>10. a = b /\ ms = mt
  BY <1>1, <1>2, <1>9, PartsTold
<1>11. s = t
  <2>1. <<mark>> \in Seq(S)
    OBVIOUS
  <2> QED
    BY <1>10, <2>1, PartsTold DEF ms, mt
<1> QED
  BY <1>10, <1>11

\* The words as a key spells them.
Bar == <<"|">>

LEMMA LettersTyped ==
  ASSUME NEW x \in Spelling
  PROVE  /\ Letters[x] \in Seq(Character) /\ Letters[x] # <<>>
         /\ Bar \o Letters[x] \in Seq(Character)
         /\ "|" \notin ToSet(Letters[x])
<1>1. Letters[x] \in Seq(Character) \ {<<>>} /\ "|" \notin ToSet(Letters[x])
  BY SpellingAssumption
<1>2. Bar \in Seq(Character)
  BY CharacterAssumption DEF Bar
<1> QED
  BY <1>1, <1>2

\* Words are spelled one after the other.
LEMMA SpelledAppend ==
  ASSUME NEW words \in Seq(Spelling), NEW x \in Spelling
  PROVE  /\ Spelled(words, Bar) \in Seq(Character)
         /\ words = <<>> => Spelled(words, Bar) = <<>>
         /\ Spelled(Append(words, x), Bar) =
              Spelled(words, Bar) \o IF words = <<>> THEN Letters[x] ELSE Bar \o Letters[x]
<1> DEFINE n == Len(words)
           Piece(w, i) == IF i = 1 THEN Letters[w[i]] ELSE Bar \o Letters[w[i]]
           Pieces(w) == [i \in DOMAIN w |-> Piece(w, i)]
           more == Append(words, x)
           last == IF words = <<>> THEN Letters[x] ELSE Bar \o Letters[x]
<1>1. \A w : Spelled(w, Bar) = FlattenSeq(Pieces(w))
  BY DEF Spelled
<1>2. /\ n \in Nat /\ DOMAIN words = 1..n /\ DOMAIN more = 1..n + 1
      /\ \A i \in 1..n : words[i] \in Spelling /\ more[i] = words[i]
      /\ more[n + 1] = x /\ (words = <<>> <=> n = 0)
  OBVIOUS
<1> HIDE DEF n, more
<1>3. \A i \in 1..n : Piece(words, i) \in Seq(Character) /\ Piece(more, i) = Piece(words, i)
  BY <1>2, LettersTyped
<1>4. Piece(more, n + 1) = last /\ last \in Seq(Character)
  <2>1. n + 1 = 1 <=> words = <<>>
    BY <1>2
  <2>2. Letters[x] \in Seq(Character) /\ Bar \o Letters[x] \in Seq(Character)
    BY LettersTyped
  <2> QED
    BY <1>2, <2>1, <2>2
<1> HIDE DEF Piece, last
<1>5. Pieces(words) \in Seq(Seq(Character)) /\ Len(Pieces(words)) = n
  <2>1. Pieces(words) = [i \in 1..n |-> Piece(words, i)]
    BY <1>2
  <2>2. Pieces(words) \in [1..n -> Seq(Character)]
    BY <1>3, <2>1
  <2> QED
    BY <1>2, <2>1, <2>2, SeqDef
<1>6. Pieces(more) = Append(Pieces(words), last)
  <2>1. Pieces(words) = [i \in 1..n |-> Piece(words, i)]
    BY <1>2
  <2>2. Pieces(more) = [i \in 1..n + 1 |-> Piece(more, i)]
    BY <1>2
  <2>3. /\ DOMAIN Append(Pieces(words), last) = 1..n + 1
        /\ \A i \in 1..n : Append(Pieces(words), last)[i] = Pieces(words)[i]
        /\ Append(Pieces(words), last)[n + 1] = last
    <3> HIDE DEF Pieces
    <3> QED
      BY <1>2, <1>4, <1>5
  <2>4. Append(Pieces(words), last) = [i \in 1..n + 1 |-> Append(Pieces(words), last)[i]]
    <3> DEFINE longer == Append(Pieces(words), last)
    <3>1. longer \in Seq(Seq(Character)) /\ DOMAIN longer = 1..n + 1
      BY <1>4, <1>5, <2>3
    <3> HIDE DEF longer
    <3>2. longer = [i \in DOMAIN longer |-> longer[i]]
      BY <3>1
    <3> QED
      BY <3>1, <3>2 DEF longer
  <2>5. \A i \in 1..n + 1 : Append(Pieces(words), last)[i] = Piece(more, i)
    <3> TAKE i \in 1..n + 1
    <3>1. CASE i = n + 1
      BY <1>4, <2>3, <3>1
    <3>2. CASE i # n + 1
      <4>1. i \in 1..n
        BY <1>2, <3>2
      <4> HIDE DEF Pieces
      <4> QED
        BY <1>3, <2>1, <2>3, <4>1
    <3> QED
      BY <3>1, <3>2
  <2> HIDE DEF Pieces
  <2> QED
    BY <2>2, <2>4, <2>5
<1>7. n = 0 => Pieces(words) = <<>>
  BY <1>2, <1>5
<1> HIDE DEF Pieces
<1>8. FlattenSeq(<<>>) = <<>>
  BY DEF FlattenSeq
<1>9. /\ FlattenSeq(Pieces(words)) \in Seq(Character)
      /\ FlattenSeq(Pieces(more)) = FlattenSeq(Pieces(words)) \o last
  BY <1>4, <1>5, <1>6, FlattenAppend
<1>10. Spelled(words, Bar) \in Seq(Character) /\ (words = <<>> => Spelled(words, Bar) = <<>>)
  BY <1>1, <1>2, <1>7, <1>8, <1>9
<1>11. Spelled(more, Bar) = Spelled(words, Bar) \o last
  BY <1>1, <1>9
<1> QED
  BY <1>10, <1>11 DEF last, more

\* All but the last element, and the last.
LEMMA LastTaken ==
  ASSUME NEW S, NEW s \in Seq(S), s # <<>>
  PROVE  \E t \in Seq(S) : \E x \in S : s = Append(t, x) /\ Len(s) = Len(t) + 1
<1> DEFINE n == Len(s)
           t == SubSeq(s, 1, n - 1)
<1>1. n \in Nat \ {0} /\ n - 1 \in 0..n
  OBVIOUS
<1>2. t \in Seq(S) /\ Len(t) = n - 1 /\ \A i \in 1..n - 1 : t[i] = s[i]
  BY <1>1, Beginning
<1>3. s[n] \in S
  BY <1>1
<1>4. s = Append(t, s[n])
  <2> HIDE DEF t
  <2>1. Append(t, s[n]) \in Seq(S) /\ Len(Append(t, s[n])) = n
    BY <1>1, <1>2, <1>3
  <2>2. \A i \in 1..n : Append(t, s[n])[i] = s[i]
    BY <1>1, <1>2, <1>3
  <2> QED
    BY <2>1, <2>2
<1> HIDE DEF t
<1>5. n = (n - 1) + 1
  BY <1>1
<1> QED
  BY <1>2, <1>3, <1>4, <1>5

\* The parts of a list of words that is not empty.
LEMMA SpelledParts ==
  ASSUME NEW words \in Seq(Spelling), words # <<>>
  PROVE  \E before \in Seq(Spelling) : \E x \in Spelling :
           /\ words = Append(before, x) /\ Len(words) = Len(before) + 1
           /\ Spelled(before, Bar) \in Seq(Character)
           /\ before = <<>> => Spelled(words, Bar) = Letters[x]
           /\ before # <<>> => Spelled(words, Bar) = Spelled(before, Bar) \o (Bar \o Letters[x])
<1>1. PICK before \in Seq(Spelling), x \in Spelling :
        words = Append(before, x) /\ Len(words) = Len(before) + 1
  BY LastTaken
<1>2. /\ Spelled(before, Bar) \in Seq(Character)
      /\ before = <<>> => Spelled(before, Bar) = <<>>
      /\ Spelled(words, Bar) =
           Spelled(before, Bar) \o IF before = <<>> THEN Letters[x] ELSE Bar \o Letters[x]
  BY <1>1, SpelledAppend
<1>3. Letters[x] \in Seq(Character)
  BY LettersTyped
<1>4. <<>> \o Letters[x] = Letters[x]
  BY <1>3
<1> QED
  BY <1>1, <1>2, <1>4

LEMMA SpelledTyped ==
  ASSUME NEW words \in Seq(Spelling)
  PROVE  Spelled(words, Bar) \in Seq(Character)
<1>1. CASE words = <<>>
  <2>1. FlattenSeq(<<>>) = <<>>
    BY DEF FlattenSeq
  <2>2. Spelled(words, Bar) = <<>>
    BY <1>1, <2>1 DEF Spelled
  <2> QED
    BY <2>2
<1>2. CASE words # <<>>
  <2>1. PICK x \in Spelling : TRUE
    BY <1>2, SpelledParts
  <2> QED
    BY <2>1, SpelledAppend
<1> QED
  BY <1>1, <1>2

\* Lists of words are told by how they are spelled.
LEMMA SpelledTold ==
  ASSUME NEW words \in Seq(Spelling), NEW others \in Seq(Spelling),
         Spelled(words, Bar) = Spelled(others, Bar)
  PROVE  words = others
<1> DEFINE Sp(w) == Spelled(w, Bar)
           Told == {n \in Nat : \A w, v \in Seq(Spelling) :
                      Len(w) = n /\ Sp(w) = Sp(v) => w = v}
<1>1. \A w \in Seq(Spelling) : w # <<>> => Sp(w) # <<>>
  <2> SUFFICES ASSUME NEW w \in Seq(Spelling), w # <<>> PROVE Sp(w) # <<>>
    OBVIOUS
  <2>1. PICK before \in Seq(Spelling), x \in Spelling :
          /\ Sp(before) \in Seq(Character)
          /\ before = <<>> => Sp(w) = Letters[x]
          /\ before # <<>> => Sp(w) = Sp(before) \o (Bar \o Letters[x])
    BY SpelledParts
  <2>2. Letters[x] \in Seq(Character) /\ Letters[x] # <<>>
    BY LettersTyped
  <2>3. Bar \o Letters[x] \in Seq(Character) /\ Len(Bar \o Letters[x]) > 0
    BY <2>2, CharacterAssumption DEF Bar
  <2> HIDE DEF Sp
  <2>4. before # <<>> => Len(Sp(w)) > 0
    BY <2>1, <2>3
  <2> QED
    BY <2>1, <2>2, <2>4
<1>2. Sp(<<>>) = <<>>
  <2>1. <<>> \in Seq(Spelling) /\ FlattenSeq(<<>>) = <<>>
    BY DEF FlattenSeq
  <2>2. Sp(<<>>) = FlattenSeq(<<>>)
    BY DEF Spelled
  <2> QED
    BY <2>1, <2>2
<1>3. \A w, v \in Seq(Spelling) : Len(w) = 0 /\ Sp(w) = Sp(v) => w = v
  <2> HIDE DEF Sp
  <2>1. \A w \in Seq(Spelling) : Len(w) = 0 => w = <<>>
    OBVIOUS
  <2> QED
    BY <1>1, <1>2, <2>1
<1>4. ASSUME NEW n \in Nat, n \in Told,
             NEW w \in Seq(Spelling), NEW v \in Seq(Spelling),
             Len(w) = n + 1, Sp(w) = Sp(v)
      PROVE  w = v
  <2>1. w # <<>> /\ v # <<>>
    <3>1. w # <<>>
      BY <1>4
    <3> HIDE DEF Sp
    <3> QED
      BY <1>1, <1>2, <1>4, <3>1
  <2>2. PICK wb \in Seq(Spelling), x \in Spelling :
          /\ w = Append(wb, x) /\ Len(w) = Len(wb) + 1
          /\ Sp(wb) \in Seq(Character)
          /\ wb = <<>> => Sp(w) = Letters[x]
          /\ wb # <<>> => Sp(w) = Sp(wb) \o (Bar \o Letters[x])
    BY <2>1, SpelledParts
  <2>3. PICK vb \in Seq(Spelling), y \in Spelling :
          /\ v = Append(vb, y) /\ Len(v) = Len(vb) + 1
          /\ Sp(vb) \in Seq(Character)
          /\ vb = <<>> => Sp(v) = Letters[y]
          /\ vb # <<>> => Sp(v) = Sp(vb) \o (Bar \o Letters[y])
    BY <2>1, SpelledParts
  <2>4. /\ Letters[x] \in Seq(Character) /\ "|" \notin ToSet(Letters[x])
        /\ Letters[y] \in Seq(Character) /\ "|" \notin ToSet(Letters[y])
    BY LettersTyped
  <2>5. Letters[x] = Letters[y] => x = y
    BY SpellingAssumption
  <2>6. \A w1, v1 \in Seq(Spelling) : Len(w1) = n /\ Sp(w1) = Sp(v1) => w1 = v1
    BY <1>4
  <2>7. Len(wb) = n
    BY <1>4, <2>2
  <2> HIDE DEF Sp, Told
  <2>8. \A a, s \in Seq(Character) : "|" \in ToSet(a \o (Bar \o s))
    <3> SUFFICES ASSUME NEW a \in Seq(Character), NEW s \in Seq(Character)
                 PROVE  "|" \in ToSet(a \o (Bar \o s))
      OBVIOUS
    <3> DEFINE e == Bar \o s
               q == a \o e
    <3>1. e \in Seq(Character) /\ Len(e) = Len(s) + 1 /\ e[1] = "|"
      BY CharacterAssumption DEF Bar
    <3> HIDE DEF e
    <3>2. DOMAIN q = 1..Len(a) + Len(e) /\ q[Len(a) + 1] = e[1]
      <4>1. q \in Seq(Character) /\ Len(q) = Len(a) + Len(e)
        BY <3>1, ConcatProperties
      <4>2. q[Len(a) + 1] = e[1]
        BY <3>1
      <4> HIDE DEF q
      <4> QED
        BY <4>1, <4>2
    <3>3. Len(a) + 1 \in DOMAIN q
      BY <3>1, <3>2
    <3> HIDE DEF q
    <3> QED
      BY <3>1, <3>2, <3>3 DEF ToSet, q, e
  <2>9. CASE wb = <<>> /\ vb = <<>>
    BY <1>4, <2>2, <2>3, <2>5, <2>9
  <2>10. CASE wb = <<>> /\ vb # <<>>
    BY <1>4, <2>2, <2>3, <2>4, <2>8, <2>10
  <2>11. CASE wb # <<>> /\ vb = <<>>
    BY <1>4, <2>2, <2>3, <2>4, <2>8, <2>11
  <2>12. CASE wb # <<>> /\ vb # <<>>
    <3>1. Sp(wb) \o (<<"|">> \o Letters[x]) = Sp(vb) \o (<<"|">> \o Letters[y])
      BY <1>4, <2>2, <2>3, <2>12 DEF Bar
    <3>2. Sp(wb) = Sp(vb) /\ Letters[x] = Letters[y]
      <4>1. "|" \in Character
        BY CharacterAssumption
      <4>2. Sp(wb) \in Seq(Character) /\ Sp(vb) \in Seq(Character)
        BY <2>2, <2>3
      <4> DEFINE s == Letters[x]
                 t == Letters[y]
                 a == Sp(wb)
                 b == Sp(vb)
                 mark == "|"
      <4>3. /\ a \in Seq(Character) /\ s \in Seq(Character) /\ mark \notin ToSet(s)
            /\ b \in Seq(Character) /\ t \in Seq(Character) /\ mark \notin ToSet(t)
            /\ a \o (<<mark>> \o s) = b \o (<<mark>> \o t) /\ mark \in Character
        BY <2>4, <3>1, <4>1, <4>2
      <4> HIDE DEF a, b, s, t, mark
      <4>4. a = b /\ s = t
        BY <4>3, LastMarkTold
      <4> QED
        BY <4>4 DEF a, b, s, t
    <3> QED
      BY <2>2, <2>3, <2>5, <2>6, <2>7, <3>2
  <2> QED
    BY <2>9, <2>10, <2>11, <2>12
<1>5. Nat \subseteq Told
  <2>1. 0 \in Told
    BY <1>3
  <2>2. \A n \in Nat : n \in Told => n + 1 \in Told
    <3> SUFFICES ASSUME NEW n \in Nat, n \in Told PROVE n + 1 \in Told
      OBVIOUS
    <3>1. \A w, v \in Seq(Spelling) : Len(w) = n + 1 /\ Sp(w) = Sp(v) => w = v
      BY <1>4
    <3> HIDE DEF Sp
    <3> QED
      BY <3>1
  <2> HIDE DEF Told
  <2> QED
    BY <2>1, <2>2, NatSetInduction
<1>6. Len(words) \in Nat
  OBVIOUS
<1>7. Sp(words) = Sp(others)
  OBVIOUS
<1> HIDE DEF Sp
<1> QED
  BY <1>5, <1>6, <1>7

\* A key, in its parts.
Flag(p) == <<":", IF p.ExcludeCaseSensitive THEN "1" ELSE "0">>

KeyParts(p) ==
  /\ p.Username \in Seq(Character)
  /\ p.Format \in {"rss", "atom"}
  /\ p.ExcludeWords \in Seq(Spelling)
  /\ p.ExcludeCaseSensitive \in BOOLEAN

LEMMA KeyTyped ==
  ASSUME NEW p, KeyParts(p)
  PROVE  /\ Spelled(p.ExcludeWords, Bar) \in Seq(Character)
         /\ Flag(p) \in Seq(Character) /\ Len(Flag(p)) = 2
         /\ buildCacheKey(p) \in Seq(Character)
         /\ buildCacheKey(p) = p.Username \o (<<":">> \o (<<p.Format, ":">>
                                 \o (Spelled(p.ExcludeWords, Bar) \o Flag(p))))
<1> DEFINE u == p.Username
           sp == Spelled(p.ExcludeWords, Bar)
           flag == Flag(p)
           head == <<":", p.Format, ":">>
<1>1. sp \in Seq(Character) /\ u \in Seq(Character)
  BY SpelledTyped DEF KeyParts
<1>2. {":", "0", "1", p.Format} \subseteq Character
  BY CharacterAssumption DEF KeyParts
<1>3. flag \in Seq(Character) /\ Len(flag) = 2
  BY <1>2 DEF Flag
<1>4. buildCacheKey(p) = ((u \o head) \o sp) \o flag
  BY DEF buildCacheKey, Bar, Flag
<1> HIDE DEF sp, flag, u
<1>5. /\ head \in Seq(Character) /\ <<":">> \in Seq(Character)
      /\ <<p.Format, ":">> \in Seq(Character)
      /\ head = <<":">> \o <<p.Format, ":">>
  BY <1>2
<1> HIDE DEF head
<1> DEFINE colon == <<":">>
           form == <<p.Format, ":">>
<1>6. colon \in Seq(Character) /\ form \in Seq(Character) /\ head = colon \o form
  BY <1>5
<1> HIDE DEF colon, form
<1>7. \A a, b, c \in Seq(Character) : (a \o b) \o c = a \o (b \o c) /\ a \o b \in Seq(Character)
  BY ConcatAssociative, ConcatProperties
<1>8. ((u \o head) \o sp) \o flag = u \o (colon \o (form \o (sp \o flag)))
  <2>1. (u \o head) \o sp = u \o (head \o sp)
    BY <1>1, <1>5, <1>7
  <2>2. (u \o (head \o sp)) \o flag = u \o ((head \o sp) \o flag)
    BY <1>1, <1>3, <1>5, <1>7
  <2>3. (head \o sp) \o flag = head \o (sp \o flag)
    BY <1>1, <1>3, <1>5, <1>7
  <2>4. (colon \o form) \o (sp \o flag) = colon \o (form \o (sp \o flag))
    <3> DEFINE rest == sp \o flag
    <3>1. rest \in Seq(Character)
      BY <1>1, <1>3, <1>7
    <3> HIDE DEF rest
    <3>2. (colon \o form) \o rest = colon \o (form \o rest)
      BY <1>6, <1>7, <3>1
    <3> QED
      BY <3>2 DEF rest
  <2> QED
    BY <1>6, <2>1, <2>2, <2>3, <2>4
<1>9. ((u \o head) \o sp) \o flag \in Seq(Character)
  BY <1>1, <1>3, <1>5, <1>7
<1> QED
  BY <1>1, <1>3, <1>4, <1>8, <1>9 DEF sp, flag, u, colon, form

\* A key tells whom it is for: the format and what is left out if one knows the
\* username, and the username too if that contains no colon (buildCacheKey).
THEOREM KeyTold ==
  ASSUME NEW p, KeyParts(p), NEW q, KeyParts(q), buildCacheKey(p) = buildCacheKey(q),
         \/ p.Username = q.Username
         \/ ":" \notin ToSet(p.Username) /\ ":" \notin ToSet(q.Username)
  PROVE  /\ p.Username = q.Username /\ p.Format = q.Format
         /\ p.ExcludeWords = q.ExcludeWords
         /\ p.ExcludeCaseSensitive = q.ExcludeCaseSensitive
<1> DEFINE sp(r) == Spelled(r.ExcludeWords, Bar)
           form(r) == <<r.Format, ":">>
           body(r) == sp(r) \o Flag(r)
           tail(r) == form(r) \o body(r)
<1>1. ASSUME NEW r, KeyParts(r)
      PROVE  /\ sp(r) \in Seq(Character) /\ Flag(r) \in Seq(Character) /\ Len(Flag(r)) = 2
             /\ form(r) \in Seq(Character) /\ Len(form(r)) = 2
             /\ buildCacheKey(r) = r.Username \o (<<":">> \o tail(r))
  <2>1. {":", r.Format} \subseteq Character
    BY <1>1, CharacterAssumption DEF KeyParts
  <2>2. form(r) \in Seq(Character) /\ Len(form(r)) = 2
    BY <2>1
  <2> HIDE DEF form
  <2>3. /\ sp(r) \in Seq(Character) /\ Flag(r) \in Seq(Character) /\ Len(Flag(r)) = 2
        /\ buildCacheKey(r) = r.Username \o (<<":">> \o tail(r))
    BY <1>1, KeyTyped DEF form
  <2> QED
    BY <2>2, <2>3
<1>2. /\ p.Username \in Seq(Character) /\ q.Username \in Seq(Character)
      /\ ":" \in Character
  BY CharacterAssumption DEF KeyParts
<1> HIDE DEF sp
<1>3. ASSUME NEW r, KeyParts(r)
      PROVE  /\ body(r) \in Seq(Character) /\ Len(body(r)) = Len(sp(r)) + 2
             /\ tail(r) \in Seq(Character)
  <2>1. sp(r) \in Seq(Character) /\ Flag(r) \in Seq(Character) /\ Len(Flag(r)) = 2
    BY <1>1, <1>3
  <2>2. form(r) \in Seq(Character)
    BY <1>1, <1>3
  <2>3. body(r) \in Seq(Character) /\ Len(body(r)) = Len(sp(r)) + 2
    <3> DEFINE a == sp(r)
               b == Flag(r)
    <3>1. a \in Seq(Character) /\ b \in Seq(Character) /\ Len(b) = 2 /\ body(r) = a \o b
      BY <2>1
    <3> HIDE DEF a, b, body
    <3>2. a \in Seq(Character) /\ b \in Seq(Character)
      BY <3>1
    <3>3. a \o b \in Seq(Character) /\ Len(a \o b) = Len(a) + Len(b)
      BY <3>2, ConcatProperties
    <3> QED
      BY <3>1, <3>3 DEF a
  <2> HIDE DEF body, form
  <2> QED
    BY <2>2, <2>3
<1>4. p.Username = q.Username /\ tail(p) = tail(q)
  <2>1. p.Username \o (<<":">> \o tail(p)) = q.Username \o (<<":">> \o tail(q))
    BY <1>1
  <2>2. tail(p) \in Seq(Character) /\ tail(q) \in Seq(Character)
    BY <1>3
  <2> HIDE DEF tail
  <2>3. CASE ":" \notin ToSet(p.Username) /\ ":" \notin ToSet(q.Username)
    BY <1>2, <2>1, <2>2, <2>3, FirstMarkTold
  <2>4. CASE p.Username = q.Username
    <3> DEFINE colon == <<":">>
               s == colon \o tail(p)
               t == colon \o tail(q)
    <3>1. colon \in Seq(Character)
      BY <1>2
    <3> HIDE DEF colon
    <3>2. s \in Seq(Character) /\ t \in Seq(Character)
      BY <2>2, <3>1, ConcatProperties
    <3>3. p.Username \o s = q.Username \o t
      BY <2>1 DEF colon
    <3> HIDE DEF s, t
    <3>4. s = t
      BY <1>2, <2>4, <3>2, <3>3, PartsTold
    <3>5. colon \o tail(p) = colon \o tail(q)
      BY <3>4 DEF s, t
    <3> QED
      BY <2>2, <2>4, <3>1, <3>5, PartsTold
  <2> QED
    BY <2>3, <2>4
<1>5. form(p) = form(q) /\ body(p) = body(q)
  <2>1. /\ form(p) \in Seq(Character) /\ form(q) \in Seq(Character)
        /\ Len(form(p)) = Len(form(q))
    BY <1>1
  <2>2. body(p) \in Seq(Character) /\ body(q) \in Seq(Character)
    BY <1>3
  <2> HIDE DEF form, body
  <2> QED
    BY <1>4, <2>1, <2>2, PartsTold
<1>6. p.Format = q.Format
  <2>1. form(p)[1] = p.Format /\ form(q)[1] = q.Format
    OBVIOUS
  <2> QED
    BY <1>5, <2>1
<1>7. sp(p) = sp(q) /\ Flag(p) = Flag(q)
  <2>1. /\ sp(p) \in Seq(Character) /\ Flag(p) \in Seq(Character) /\ Len(Flag(p)) = 2
        /\ sp(q) \in Seq(Character) /\ Flag(q) \in Seq(Character) /\ Len(Flag(q)) = 2
    BY <1>1
  <2>2. Len(sp(p)) = Len(sp(q))
    <3>1. Len(sp(p)) + 2 = Len(sp(q)) + 2
      BY <1>3, <1>5
    <3>2. Len(sp(p)) \in Nat /\ Len(sp(q)) \in Nat
      BY <2>1
    <3> QED
      BY <3>1, <3>2
  <2>3. sp(p) \o Flag(p) = sp(q) \o Flag(q)
    BY <1>5
  <2> QED
    BY <2>1, <2>2, <2>3, PartsTold
<1>8. p.ExcludeWords = q.ExcludeWords
  BY <1>7, SpelledTold DEF KeyParts, sp
<1>9. p.ExcludeCaseSensitive = q.ExcludeCaseSensitive
  <2>1. Flag(p)[2] = Flag(q)[2]
    BY <1>7
  <2>2. /\ Flag(p)[2] = IF p.ExcludeCaseSensitive THEN "1" ELSE "0"
        /\ Flag(q)[2] = IF q.ExcludeCaseSensitive THEN "1" ELSE "0"
    BY DEF Flag
  <2>3. (p.ExcludeCaseSensitive = TRUE) <=> (q.ExcludeCaseSensitive = TRUE)
    <3>1. (IF p.ExcludeCaseSensitive THEN "1" ELSE "0")
          = (IF q.ExcludeCaseSensitive THEN "1" ELSE "0")
      BY <2>1, <2>2
    <3>2. "1" # "0"
      OBVIOUS
    <3> QED
      BY <3>1, <3>2
  <2> QED
    BY <2>3 DEF KeyParts
<1> QED
  BY <1>4, <1>6, <1>8, <1>9

------------------------------------------------------------------------------
(* Lifetimes.                                                                *)

\* A number that can be represented stays what it is, and a positive one that
\* wraps around becomes smaller.
LEMMA Wrapping ==
  ASSUME NEW n \in Int
  PROVE  /\ Wrap(n) \in Int
         /\ n >= 0 => Wrap(n) =< n
         /\ n >= 0 /\ n < 2 ^ (IntWidth - 1) => Wrap(n) = n
<1> DEFINE half == 2 ^ (IntWidth - 1)
           d == 2 * half
           m == n + half
<1>1. half \in Nat \ {0}
  <2>1. IntWidth - 1 \in Nat
    BY WidthAssumption
  <2>2. half \in Int
    BY <2>1
  <2> QED
    BY <2>2, PowerAssumption
<1>2. Wrap(n) = (m % d) - half
  BY DEF Wrap
<1> HIDE DEF half
<1>3. d \in Nat \ {0} /\ m \in Int
  BY <1>1
<1>4. n >= 0 => m \in Nat
  BY <1>1
<1>5. n >= 0 /\ n < half => m < d
  BY <1>1
<1> HIDE DEF d, m
<1>6. m % d \in Int
  BY <1>3
<1>7. m \in Nat => m % d =< m
  BY <1>3
<1>8. m \in Nat /\ m < d => m % d = m
  BY <1>3
<1> QED
  BY <1>1, <1>2, <1>4, <1>5, <1>6, <1>7, <1>8 DEF m, half

\* A minute is no fewer units than seconds.
LEMMA MinuteLonger ==
  ASSUME NEW n \in Nat
  PROVE  /\ n * SecondsPerMinute \in Nat /\ n * Minute \in Nat
         /\ n * SecondsPerMinute =< n * Minute
         /\ (n * SecondsPerMinute) * Minute = (n * Minute) * SecondsPerMinute
<1>1. SecondsPerMinute \in Nat /\ Minute \in Nat /\ SecondsPerMinute =< Minute
  BY WidthAssumption
<1>2. n * SecondsPerMinute =< n * Minute
  BY <1>1
<1> QED
  BY <1>1, <1>2

------------------------------------------------------------------------------
(* The run through the page and the feed.                                    *)

Phases == {"request", "scan", "fetch", "generate", "respond", "rejected", "done"}

Numbered(message) == extractPostIDFromPath(message.path)

Dated(message) == message.date \notin {Missing, Malformed}

\* The place of each size is that of its photo, in the message at hand.
SizesRight ==
  phase = "fetch" =>
    /\ pos \in DOMAIN input.page /\ Numbered(Current)
    /\ DOMAIN sizes = DOMAIN Photos(Current)
    /\ \A i \in DOMAIN sizes : sizes[i] \in {Photos(Current)[i], Unknown, Pending}

\* Where the loops are, and what has been sent.
FlowInv ==
  /\ input \in Input
  /\ phase \in Phases
  /\ pos \in Nat \ {0}
  /\ sizes \in Seq(Image \cup {Unknown, Pending})
  /\ phase \notin {"request", "rejected"} => ~ Rejected(input.query)
  /\ phase \in {"request", "rejected"} => pos = 1
  /\ phase \in {"scan", "fetch"} => pos =< Len(input.page) + 1
  /\ SizesRight
  /\ phase # "done" => stored = None /\ maxAge = 0
  /\ phase = "done" =>
       /\ stored = IF params.CacheTTL =< 0 THEN None
                   ELSE [key |-> buildCacheKey(params), lifetime |-> Lifetime(params)]
       /\ maxAge = IF params.CacheTTL =< 0 THEN 0 ELSE MaxAge(params)

\* The input is one of the inputs, with its parts.
LEMMA InputTyped ==
  ASSUME input \in Input
  PROVE  /\ input \in Inputs
         /\ input.query \in Query /\ input.cacheTTLDefault \in Int
         /\ input.page \in Seq(Message)
         /\ Len(input.page) \in Nat /\ DOMAIN input.page = 1..Len(input.page)
         /\ \A i \in DOMAIN input.page : input.page[i] \in Message /\ Nested(input.page[i])
<1>1. input \in Inputs
  BY InputAssumption
<1>2. /\ input.query \in Query /\ input.cacheTTLDefault \in Int
      /\ input.page \in Seq(Message)
  BY <1>1 DEF Inputs
<1>3. \A i \in DOMAIN input.page : Nested(input.page[i])
  BY NestingAssumption DEF Nested
<1> QED
  BY <1>1, <1>2, <1>3

LEMMA FlowInit == Init => FlowInv
BY DEF Init, FlowInv, Phases, SizesRight

\* Every step keeps them.
LEMMA FlowStep ==
  FlowInv /\ [Next]_contentVars => FlowInv'
<1> SUFFICES ASSUME FlowInv, [Next]_contentVars PROVE FlowInv'
  OBVIOUS
<1> USE DEF made, sent, Phases
<1>1. ASSUME input' = input PROVE params' = params
  BY <1>1 DEF params
<1>2. ASSUME input' = input, pos' = pos PROVE Current' = Current
  BY <1>2 DEF Current
<1>3. CASE UNCHANGED contentVars
  BY <1>1, <1>2, <1>3 DEF contentVars, FlowInv, SizesRight
<1>4. CASE Parse
  BY <1>4 DEF Parse, FlowInv, SizesRight
<1>5. CASE Respond
  BY <1>1, <1>5 DEF Respond, FlowInv, SizesRight
<1>6. CASE SkipMessage
  BY <1>6, InputTyped DEF SkipMessage, FlowInv, SizesRight
<1>7. CASE StartPost
  <2> DEFINE photos == Photos(Current)
  <2>1. pos \in DOMAIN input.page /\ Current \in Message
    <3>1. input \in Input /\ pos \in Nat \ {0} /\ pos =< Len(input.page)
      BY <1>7 DEF StartPost, FlowInv
    <3> QED
      BY <3>1, InputTyped DEF Current
  <2>2. photos \in Seq(Image)
    BY <2>1, PhotosFound
  <2>3. photos' = photos /\ Numbered(Current)
    BY <1>2, <1>7 DEF StartPost, Numbered
  <2>4. sizes' = [i \in DOMAIN photos |-> Pending]
    BY <1>7 DEF StartPost
  <2> HIDE DEF photos
  <2>5. sizes' \in Seq(Image \cup {Unknown, Pending}) /\ DOMAIN sizes' = DOMAIN photos
    <3>1. DOMAIN photos = 1..Len(photos) /\ Len(photos) \in Nat
      BY <2>2
    <3>2. sizes' \in [1..Len(photos) -> Image \cup {Unknown, Pending}]
      BY <2>4, <3>1
    <3> QED
      BY <2>4, <3>1, <3>2, SeqDef
  <2>6. \A i \in DOMAIN sizes' : sizes'[i] = Pending
    BY <2>4, <2>5
  <2>7. SizesRight'
    <3>1. pos' = pos /\ input' = input /\ Current' = Current
      BY <1>2, <1>7 DEF StartPost
    <3> QED
      BY <2>1, <2>3, <2>5, <2>6, <3>1 DEF SizesRight, photos
  <2> QED
    BY <1>7, <2>5, <2>7 DEF StartPost, FlowInv
<1>8. CASE FinishPost
  BY <1>8, InputTyped DEF FinishPost, FlowInv, SizesRight
<1>9. CASE Visited
  BY <1>9 DEF Visited, FlowInv, SizesRight
<1>10. ASSUME NEW i \in DOMAIN sizes, FetchSize(i) PROVE FlowInv'
  <2> DEFINE photos == Photos(Current)
  <2>1. pos \in DOMAIN input.page /\ Current \in Message /\ SizesRight /\ phase = "fetch"
    BY <1>10, InputTyped DEF FetchSize, FlowInv, SizesRight, Current
  <2>2. photos \in Seq(Image)
    BY <2>1, PhotosFound
  <2>3. PICK size \in {photos[i], Unknown} : sizes' = [sizes EXCEPT ![i] = size]
    BY <1>10 DEF FetchSize, getImageSize
  <2>4. Current' = Current /\ input' = input /\ pos' = pos /\ phase' = phase
    BY <1>2, <1>10 DEF FetchSize
  <2>5. DOMAIN sizes = DOMAIN photos /\ sizes \in Seq(Image \cup {Unknown, Pending})
    BY <2>1 DEF SizesRight, FlowInv
  <2>6. \A j \in DOMAIN sizes : sizes[j] \in {photos[j], Unknown, Pending}
    BY <2>1 DEF SizesRight
  <2> HIDE DEF photos
  <2>7. size \in Image \cup {Unknown, Pending}
    <3>1. i \in 1..Len(photos)
      BY <2>2, <2>5
    <3> QED
      BY <2>2, <2>3, <3>1
  <2>8. sizes' \in Seq(Image \cup {Unknown, Pending}) /\ DOMAIN sizes' = DOMAIN sizes
    <3>1. i \in 1..Len(sizes)
      BY <2>5
    <3> QED
      BY <2>3, <2>5, <2>7, <3>1, ExceptSeq
  <2>9. \A j \in DOMAIN sizes' : sizes'[j] \in {photos[j], Unknown, Pending}
    BY <2>3, <2>6, <2>8
  <2>10. SizesRight'
    BY <2>1, <2>4, <2>5, <2>8, <2>9 DEF SizesRight, photos
  <2> QED
    BY <1>1, <2>1, <2>4, <2>8, <2>10, <1>10 DEF FetchSize, FlowInv
<1>11. CASE Exclude
  BY <1>11 DEF Exclude, FlowInv, SizesRight
<1>12. CASE Add
  BY <1>12 DEF Add, FlowInv, SizesRight
<1>13. CASE Generated
  BY <1>13 DEF Generated, FlowInv, SizesRight
<1> QED
  BY <1>3, <1>4, <1>5, <1>6, <1>7, <1>8, <1>9, <1>10, <1>11, <1>12, <1>13 DEF Next

THEOREM FlowRight == Spec => []FlowInv
<1> QED
  BY FlowInit, FlowStep, PTL DEF Spec

\* The parameters of a request that is served.
LEMMA ServedParams ==
  ASSUME FlowInv, phase \notin {"request", "rejected"}
  PROVE  /\ params.Username = input.query.username /\ params.Username \in Seq(Character)
         /\ params.Format \in {"rss", "atom"}
         /\ params.ExcludeWords \in Seq(Spelling)
         /\ ToSet(params.ExcludeWords) = ToSet(input.query.exclude) \ {Blank}
         /\ params.ExcludeCaseSensitive = input.query.caseSensitive
         /\ input.query.caseSensitive \in BOOLEAN
         /\ params.CacheTTL \in Int
         /\ params.CacheTTL = IF input.query.cache_ttl = Missing THEN input.cacheTTLDefault
                              ELSE input.query.cache_ttl
<1>1. input.query \in Query /\ input.cacheTTLDefault \in Int /\ ~ Rejected(input.query)
  BY InputTyped DEF FlowInv
<1>2. params = FeedParamsOf(input.query, input.cacheTTLDefault)
  BY DEF params
<1> QED
  BY <1>1, <1>2, ParamsTyped

LEMMA ServedKey ==
  ASSUME FlowInv, phase \notin {"request", "rejected"}
  PROVE  KeyParts(params)
BY ServedParams DEF KeyParts

\* A document is sent and stored as a document.
LEMMA SentTyped ==
  ASSUME FlowInv
  PROVE  /\ stored \in Document \cup {None} /\ maxAge \in Int
         /\ phase = "done" /\ params.CacheTTL > 0 => stored # None
<1>1. CASE phase # "done"
  BY <1>1 DEF FlowInv
<1>2. CASE phase = "done"
  <2> DEFINE ttl == params.CacheTTL
             stay == ttl * Minute
             age == ttl * SecondsPerMinute
  <2>1. ttl \in Int
    BY <1>2, ServedParams
  <2>2. /\ stored = IF ttl =< 0 THEN None
                    ELSE [key |-> buildCacheKey(params), lifetime |-> Wrap(stay)]
        /\ maxAge = IF ttl =< 0 THEN 0 ELSE Wrap(age)
    BY <1>2 DEF FlowInv, Lifetime, MaxAge
  <2>3. buildCacheKey(params) \in Seq(Character)
    BY <1>2, ServedKey, KeyTyped
  <2>4. stay \in Int /\ age \in Int
    BY <2>1, WidthAssumption
  <2> HIDE DEF ttl, stay, age
  <2>5. Wrap(stay) \in Int /\ Wrap(age) \in Int
    BY <2>4, Wrapping
  <2>6. [key |-> buildCacheKey(params), lifetime |-> Wrap(stay)] \in Document \ {None}
    BY <2>3, <2>5, NoneAssumption DEF Document
  <2> QED
    BY <2>1, <2>2, <2>5, <2>6 DEF ttl
<1> QED
  BY <1>1, <1>2

\* No document is kept longer than was asked for, and one that is kept is kept
\* that long, and sent with that lifetime, unless it cannot be represented
\* (cacheContent, serveContent).
THEOREM DocumentsKeptAsAsked == Spec => []KeptAsAsked
<1>1. FlowInv => KeptAsAsked
  <2> DEFINE asked == IF input.query.cache_ttl = Missing THEN input.cacheTTLDefault
                      ELSE input.query.cache_ttl
             limit == 2 ^ (IntWidth - 1)
  <2> SUFFICES ASSUME FlowInv, phase = "done"
               PROVE  /\ stored # None <=> asked > 0
                      /\ stored # None => stored.lifetime =< asked * Minute
                      /\ asked > 0 /\ asked * Minute < limit =>
                           /\ stored.lifetime = asked * Minute
                           /\ maxAge * Minute = stored.lifetime * SecondsPerMinute
    BY DEF KeptAsAsked
  <2>1. asked = params.CacheTTL /\ asked \in Int
    BY ServedParams
  <2>2. /\ stored = IF asked =< 0 THEN None
                    ELSE [key |-> buildCacheKey(params), lifetime |-> Lifetime(params)]
        /\ maxAge = IF asked =< 0 THEN 0 ELSE MaxAge(params)
    BY <2>1 DEF FlowInv
  <2>3. Lifetime(params) = Wrap(asked * Minute) /\ MaxAge(params) = Wrap(asked * SecondsPerMinute)
    BY <2>1 DEF Lifetime, MaxAge
  <2> HIDE DEF asked, limit
  <2>4. CASE asked =< 0
    BY <2>1, <2>2, <2>4
  <2>5. CASE asked > 0
    <3> DEFINE stay == asked * Minute
               age == asked * SecondsPerMinute
    <3>1. /\ age \in Nat /\ stay \in Nat /\ age =< stay
          /\ age * Minute = stay * SecondsPerMinute
      BY <2>1, <2>5, MinuteLonger
    <3>2. stored = [key |-> buildCacheKey(params), lifetime |-> Wrap(stay)] /\ maxAge = Wrap(age)
      BY <2>1, <2>2, <2>3, <2>5
    <3> HIDE DEF stay, age
    <3>3. stored.lifetime = Wrap(stay)
      BY <3>2
    <3>4. Wrap(stay) =< stay /\ (stay < limit => Wrap(stay) = stay)
      BY <3>1, Wrapping DEF limit
    <3>5. stay < limit => age < limit
      <4>1. limit \in Int
        BY WidthAssumption DEF limit
      <4> QED
        BY <3>1, <4>1
    <3>6. stay < limit => Wrap(age) = age
      BY <3>1, <3>5, Wrapping DEF limit
    <3>7. stored # None
      BY <2>1, <2>5, SentTyped
    <3> QED
      BY <2>5, <3>1, <3>2, <3>3, <3>4, <3>6, <3>7 DEF stay, age
  <2> QED
    BY <2>1, <2>4, <2>5
<1> QED
  BY <1>1, FlowRight, PTL

\* Requests for one username, and requests whose usernames contain no colon, are
\* for the same channel and format and leave out the same posts if they share a
\* key, so that what is stored for one can be served to the others (buildCacheKey,
\* which getChannelFeed looks documents up by).
THEOREM KeysDetermine == Spec => []KeyDetermines
<1>1. FlowInv => KeyDetermines
  <2> SUFFICES ASSUME FlowInv, stored # None, NEW q \in Query,
                      NEW p, p = FeedParamsOf(q, input.cacheTTLDefault),
                      ~ Rejected(q), buildCacheKey(p) = stored.key,
                      \/ ":" \notin ToSet(p.Username) \cup ToSet(params.Username)
                      \/ p.Username = params.Username
               PROVE  /\ p.Username = params.Username /\ p.Format = params.Format
                      /\ \A i \in DOMAIN posts : Excluded(posts[i], p) <=> Excluded(posts[i], params)
    BY DEF KeyDetermines
  <2>1. phase = "done" /\ params.CacheTTL > 0 /\ stored.key = buildCacheKey(params)
    <3>1. phase = "done"
      BY DEF FlowInv
    <3>2. params.CacheTTL \in Int /\ ~ (params.CacheTTL =< 0)
      BY <3>1, ServedParams DEF FlowInv
    <3>3. stored = [key |-> buildCacheKey(params), lifetime |-> Lifetime(params)]
      BY <3>1, <3>2 DEF FlowInv
    <3> QED
      BY <3>1, <3>2, <3>3
  <2>2. KeyParts(p)
    <3>1. input.cacheTTLDefault \in Int
      BY InputTyped DEF FlowInv
    <3> QED
      BY <3>1, ParamsTyped DEF KeyParts
  <2>3. KeyParts(params)
    BY <2>1, ServedKey
  <2>4. /\ p.Username = params.Username /\ p.Format = params.Format
        /\ p.ExcludeWords = params.ExcludeWords
        /\ p.ExcludeCaseSensitive = params.ExcludeCaseSensitive
    BY <2>1, <2>2, <2>3, KeyTold
  <2> QED
    BY <2>4 DEF Excluded
<1> QED
  BY <1>1, FlowRight, PTL

------------------------------------------------------------------------------
(* Posts.                                                                    *)

\* A post is what the scraper makes of its message, with a size for every photo
\* that is its own or not known.
PostRight(post) ==
  LET message == input.page[post.of]
      photos == Photos(message) IN
    /\ post.of \in DOMAIN input.page /\ Numbered(message) /\ Dated(message)
    /\ post.title = TitleOf(message)
    /\ post.content = ContentOf(message)
    /\ post.words = WordsOf(message)
    /\ post.date = message.date
    /\ DOMAIN post.images = DOMAIN photos
    /\ \A i \in DOMAIN post.images :
         post.images[i].image = photos[i] /\ post.images[i].size \in {photos[i], Unknown}
    /\ post.preview \in IF post.images # <<>> THEN {post.images[1]} ELSE extractPreview(message)

\* How many messages the scraper has been through.
Reached ==
  IF phase \in {"generate", "respond", "done"} THEN Len(input.page) ELSE pos - 1

\* There is a post for each of them that has a number and a date, in their order.
PostsInv ==
  /\ posts \in Seq(Post)
  /\ \A k \in DOMAIN posts : PostRight(posts[k]) /\ posts[k].of =< Reached
  /\ \A i \in DOMAIN input.page : i =< Reached /\ Numbered(input.page[i]) /\ Dated(input.page[i]) =>
       \E k \in DOMAIN posts : posts[k].of = i
  /\ \A k, l \in DOMAIN posts : k < l => posts[k].of < posts[l].of

\* One more element: where the others and it are.
LEMMA OneMore ==
  ASSUME NEW S, NEW s \in Seq(S), NEW x \in S, NEW t, t = Append(s, x)
  PROVE  /\ t \in Seq(S) /\ t # <<>>
         /\ Len(s) \in Nat /\ Len(t) = Len(s) + 1
         /\ DOMAIN s = 1..Len(s) /\ DOMAIN t = 1..Len(s) + 1
         /\ \A k \in DOMAIN s : k \in DOMAIN t /\ t[k] = s[k]
         /\ Len(s) + 1 \in DOMAIN t /\ t[Len(s) + 1] = x
         /\ \A k \in DOMAIN t : k \in DOMAIN s \/ k = Len(s) + 1
BY AppendProperties

\* Once no size is missing the images of a post are those of its message.
LEMMA ImagesRight ==
  ASSUME FlowInv, phase = "fetch", Pending \notin ToSet(sizes)
  PROVE  /\ Images \in Seq(Sized)
         /\ DOMAIN Images = DOMAIN Photos(Current)
         /\ \A i \in DOMAIN Images : /\ Images[i].image = Photos(Current)[i]
                                     /\ Images[i].size \in {Photos(Current)[i], Unknown}
<1> DEFINE photos == Photos(Current)
           n == Len(photos)
<1>1. pos \in DOMAIN input.page /\ Current \in Message
  BY InputTyped DEF FlowInv, SizesRight, Current
<1>2. photos \in Seq(Image)
  BY <1>1, PhotosFound
<1>3. /\ DOMAIN sizes = DOMAIN photos
      /\ \A i \in DOMAIN sizes : sizes[i] \in {photos[i], Unknown, Pending}
  BY DEF FlowInv, SizesRight
<1>4. Images = [i \in DOMAIN sizes |-> [image |-> photos[i], size |-> sizes[i]]]
  BY DEF Images
<1> HIDE DEF photos
<1>5. DOMAIN photos = 1..n /\ n \in Nat /\ \A i \in 1..n : photos[i] \in Image
  BY <1>2
<1>6. \A i \in 1..n : sizes[i] \in {photos[i], Unknown}
  BY <1>3, <1>5 DEF ToSet
<1>7. Images = [i \in 1..n |-> [image |-> photos[i], size |-> sizes[i]]]
  BY <1>3, <1>4, <1>5
<1>8. \A i \in 1..n : [image |-> photos[i], size |-> sizes[i]] \in Sized
  BY <1>5, <1>6 DEF Sized
<1>9. Images \in [1..n -> Sized]
  BY <1>7, <1>8
<1> HIDE DEF n
<1>10. Images \in Seq(Sized)
  BY <1>5, <1>9, SeqDef
<1> QED
  BY <1>5, <1>6, <1>7, <1>10 DEF photos

\* The post that FinishPost makes of a message.
NewPost(preview) ==
  [of |-> pos, title |-> TitleOf(Current), content |-> ContentOf(Current),
   words |-> WordsOf(Current), images |-> Images, preview |-> preview,
   date |-> extractPostDatetime(Current)]

LEMMA DatetimeFound ==
  ASSUME NEW message \in Message
  PROVE  /\ extractPostDatetime(message) # None <=> Dated(message)
         /\ Dated(message) => message.date \in Nat /\ extractPostDatetime(message) = message.date
<1>1. message.date \in Nat \cup {Missing, Malformed}
  BY DEF Message
<1>2. None \notin Nat
  BY NoneAssumption
<1> QED
  BY <1>1, <1>2 DEF extractPostDatetime, Dated

LEMMA NewPostRight ==
  ASSUME FlowInv, phase = "fetch", Pending \notin ToSet(sizes), Dated(Current),
         NEW preview \in Previews
  PROVE  NewPost(preview) \in Post /\ PostRight(NewPost(preview))
<1> DEFINE post == NewPost(preview)
<1>1. pos \in DOMAIN input.page /\ Current \in Message /\ Nested(Current) /\ Numbered(Current)
  BY InputTyped DEF FlowInv, SizesRight, Current
<1>2. /\ post.of = pos /\ post.title = TitleOf(Current) /\ post.content = ContentOf(Current)
      /\ post.words = WordsOf(Current) /\ post.images = Images /\ post.preview = preview
      /\ post.date = Current.date
      /\ post = [of |-> post.of, title |-> post.title, content |-> post.content,
                 words |-> post.words, images |-> post.images, preview |-> post.preview,
                 date |-> post.date]
  BY <1>1, DatetimeFound DEF NewPost
<1>3. Current.date \in Nat
  BY <1>1, DatetimeFound
<1>4. preview \in IF Images # <<>> THEN {Images[1]} ELSE extractPreview(Current)
  BY DEF Previews
<1>5. preview \in Sized \cup {None}
  <2>1. CASE Images = <<>>
    BY <1>1, <1>4, <2>1, MessageTyped
  <2>2. CASE Images # <<>>
    <3>1. Images \in Seq(Sized)
      BY ImagesRight
    <3>2. Images[1] \in Sized
      BY <2>2, <3>1
    <3> QED
      BY <1>4, <2>2, <3>2
  <2> QED
    BY <2>1, <2>2
<1>6. input.page[post.of] = Current
  BY <1>2 DEF Current
<1> HIDE DEF post
<1>7. post \in Post
  <2>1. post.of \in Nat /\ post.date \in Nat
    BY <1>2, <1>3 DEF FlowInv
  <2>2. /\ post.title \in Title /\ post.content \in {"html", "unsupported", "empty"}
        /\ post.words \in SUBSET Spelling
    BY <1>1, <1>2, MessageTyped
  <2>3. post.images \in Seq(Sized) /\ post.preview \in Sized \cup {None}
    BY <1>2, <1>5, ImagesRight
  <2> QED
    BY <1>2, <2>1, <2>2, <2>3 DEF Post
<1>8. PostRight(post)
  BY <1>1, <1>2, <1>4, <1>6, ImagesRight DEF PostRight
<1> QED
  BY <1>7, <1>8 DEF post

LEMMA PostsInit == Init => PostsInv
<1> SUFFICES ASSUME Init PROVE PostsInv
  OBVIOUS
<1>1. posts = <<>> /\ Reached = 0 /\ input \in Input
  BY DEF Init, Reached
<1>2. \A i \in DOMAIN input.page : i \in Nat /\ ~ (i =< 0)
  BY <1>1, InputTyped
<1>3. posts \in Seq(Post) /\ DOMAIN posts = {}
  BY <1>1
<1> QED
  BY <1>1, <1>2, <1>3 DEF PostsInv

\* The posts have their types.
LEMMA PostsTyped ==
  ASSUME PostsInv
  PROVE  \A k \in DOMAIN posts :
           /\ posts[k] \in Post /\ posts[k].of \in Nat /\ posts[k].title \in Title
           /\ posts[k].images \in Seq(Sized) /\ posts[k].preview \in Sized \cup {None}
           /\ posts[k].date \in Nat
<1>1. \A k \in DOMAIN posts : posts[k] \in Post
  BY DEF PostsInv
<1> QED
  BY <1>1 DEF Post

\* Nothing changes when neither the posts do nor how many messages have been
\* reached.
LEMMA PostsStay ==
  ASSUME PostsInv, input' = input, posts' = posts, Reached' = Reached
  PROVE  PostsInv'
<1>1. \A k \in DOMAIN posts : PostRight(posts[k])' <=> PostRight(posts[k])
  BY DEF PostRight
<1> QED
  BY <1>1 DEF PostsInv

LEMMA PostsStep == FlowInv /\ PostsInv /\ [Next]_contentVars => PostsInv'
<1> SUFFICES ASSUME FlowInv, PostsInv, [Next]_contentVars PROVE PostsInv'
  OBVIOUS
<1> USE DEF made, sent
<1>1. CASE UNCHANGED contentVars
  BY <1>1, PostsStay DEF contentVars, Reached
<1>2. CASE Parse
  <2>1. pos = 1
    BY <1>2 DEF Parse, FlowInv
  <2> QED
    BY <1>2, <2>1, PostsStay DEF Parse, Reached
<1>3. CASE Respond
  BY <1>3, PostsStay DEF Respond, Reached
<1>4. CASE SkipMessage
  <2>1. /\ pos \in Nat /\ phase = "scan" /\ phase' = "scan" /\ pos' = pos + 1
        /\ input' = input /\ posts' = posts /\ ~ Numbered(input.page[pos])
    BY <1>4 DEF SkipMessage, FlowInv, Numbered, Current
  <2>2. Reached = pos - 1 /\ Reached' = pos
    BY <2>1 DEF Reached
  <2>3. \A k \in DOMAIN posts : posts[k].of \in Nat
    BY PostsTyped
  <2>4. \A k \in DOMAIN posts : posts[k].of =< Reached'
    BY <2>1, <2>2, <2>3 DEF PostsInv
  <2>5. ASSUME NEW i \in DOMAIN input.page, i =< Reached',
               Numbered(input.page[i]), Dated(input.page[i])
        PROVE  \E k \in DOMAIN posts : posts[k].of = i
    <3>1. i \in Nat
      BY InputTyped DEF FlowInv
    <3>2. i =< Reached
      BY <2>1, <2>2, <2>5, <3>1
    <3> QED
      BY <2>5, <3>2 DEF PostsInv
  <2>6. \A k \in DOMAIN posts : PostRight(posts[k])' <=> PostRight(posts[k])
    BY <2>1 DEF PostRight
  <2> QED
    BY <2>1, <2>4, <2>5, <2>6 DEF PostsInv
<1>5. CASE StartPost
  BY <1>5, PostsStay DEF StartPost, Reached
<1>6. CASE FinishPost
  <2>1. /\ phase = "fetch" /\ phase' = "scan" /\ pos' = pos + 1 /\ input' = input
        /\ Pending \notin ToSet(sizes)
    BY <1>6 DEF FinishPost
  <2>2. /\ pos \in Nat /\ pos \in DOMAIN input.page /\ Current \in Message
        /\ Current = input.page[pos] /\ Numbered(Current)
    BY <2>1, InputTyped DEF FlowInv, SizesRight, Current
  <2>3. Reached = pos - 1 /\ Reached' = pos
    BY <2>1, <2>2 DEF Reached
  <2>4. \A post : PostRight(post)' <=> PostRight(post)
    BY <2>1 DEF PostRight
  <2>5. \A k \in DOMAIN posts : posts[k].of \in Nat /\ posts[k].of =< pos - 1
    BY <2>3, PostsTyped DEF PostsInv
  <2>6. \A i \in DOMAIN input.page : i \in Nat
    BY InputTyped DEF FlowInv
  <2>7. CASE extractPostDatetime(Current) = None /\ UNCHANGED posts
    <3>1. ~ Dated(input.page[pos])
      BY <2>2, <2>7, DatetimeFound
    <3>2. ASSUME NEW i \in DOMAIN input.page, i =< Reached',
                 Numbered(input.page[i]), Dated(input.page[i])
          PROVE  \E k \in DOMAIN posts : posts[k].of = i
      <4>1. i =< Reached
        BY <2>2, <2>3, <2>6, <3>1, <3>2
      <4> QED
        BY <3>2, <4>1 DEF PostsInv
    <3>3. \A k \in DOMAIN posts : posts[k].of =< Reached'
      BY <2>2, <2>3, <2>5
    <3> QED
      BY <2>1, <2>4, <2>7, <3>2, <3>3 DEF PostsInv
  <2>8. CASE /\ extractPostDatetime(Current) # None
             /\ \E preview \in Previews : posts' = Append(posts, NewPost(preview))
    <3>1. PICK preview \in Previews : posts' = Append(posts, NewPost(preview))
      BY <2>8
    <3> DEFINE post == NewPost(preview)
               n == Len(posts)
    <3>2. post \in Post /\ PostRight(post) /\ post.of = pos
      <4>1. Dated(Current)
        BY <2>2, <2>8, DatetimeFound
      <4> QED
        BY <2>1, <4>1, NewPostRight DEF NewPost
    <3>3. posts \in Seq(Post)
      BY DEF PostsInv
    <3>4. posts' = Append(posts, post)
      BY <3>1
    <3> HIDE DEF post
    <3>5. /\ posts' \in Seq(Post) /\ n \in Nat
          /\ DOMAIN posts = 1..n
          /\ \A k \in DOMAIN posts : k \in DOMAIN posts' /\ posts'[k] = posts[k]
          /\ n + 1 \in DOMAIN posts' /\ posts'[n + 1] = post
          /\ \A k \in DOMAIN posts' : k \in DOMAIN posts \/ k = n + 1
      BY <3>2, <3>3, <3>4, OneMore
    <3> HIDE DEF n
    <3>6. ASSUME NEW k \in DOMAIN posts' PROVE PostRight(posts'[k]) /\ posts'[k].of =< pos
      <4>1. CASE k \in DOMAIN posts
        <5>1. posts'[k] = posts[k] /\ PostRight(posts[k])
          BY <3>5, <4>1 DEF PostsInv
        <5> QED
          BY <2>2, <2>5, <4>1, <5>1
      <4>2. CASE k = n + 1
        BY <2>2, <3>2, <3>5, <4>2
      <4> QED
        BY <3>5, <3>6, <4>1, <4>2
    <3>7. ASSUME NEW i \in DOMAIN input.page, i =< pos,
                 Numbered(input.page[i]), Dated(input.page[i])
          PROVE  \E k \in DOMAIN posts' : posts'[k].of = i
      <4>1. CASE i = pos
        BY <3>2, <3>5, <4>1
      <4>2. CASE i # pos
        <5>1. i =< Reached
          BY <2>2, <2>3, <2>6, <3>7, <4>2
        <5>2. PICK k \in DOMAIN posts : posts[k].of = i
          BY <3>7, <5>1 DEF PostsInv
        <5> QED
          BY <3>5, <5>2
      <4> QED
        BY <4>1, <4>2
    <3>8. ASSUME NEW k \in DOMAIN posts', NEW l \in DOMAIN posts', k < l
          PROVE  posts'[k].of < posts'[l].of
      <4>1. k \in DOMAIN posts /\ posts'[k] = posts[k]
        BY <3>5, <3>8
      <4>2. CASE l = n + 1
        BY <2>2, <2>5, <3>2, <3>5, <4>1, <4>2
      <4>3. CASE l \in DOMAIN posts
        BY <3>5, <3>8, <4>1, <4>3 DEF PostsInv
      <4> QED
        BY <3>5, <3>8, <4>2, <4>3
    <3>9. \A k \in DOMAIN posts' : PostRight(posts[k])'
      BY <2>1, <3>6 DEF PostRight
    <3> QED
      BY <2>1, <2>3, <3>5, <3>6, <3>7, <3>8, <3>9 DEF PostsInv
  <2> QED
    BY <1>6, <2>7, <2>8 DEF FinishPost, NewPost
<1>7. CASE Visited
  <2>1. pos \in Nat /\ pos > Len(input.page) /\ pos =< Len(input.page) + 1
    BY <1>7 DEF Visited, FlowInv
  <2>2. Len(input.page) = pos - 1
    BY <2>1, InputTyped DEF FlowInv
  <2> QED
    BY <1>7, <2>2, PostsStay DEF Visited, Reached
<1>8. ASSUME NEW i \in DOMAIN sizes, FetchSize(i) PROVE PostsInv'
  BY <1>8, PostsStay DEF FetchSize, Reached
<1>9. CASE Exclude
  BY <1>9, PostsStay DEF Exclude, Reached
<1>10. CASE Add
  BY <1>10, PostsStay DEF Add, Reached
<1>11. CASE Generated
  BY <1>11, PostsStay DEF Generated, Reached
<1> QED
  BY <1>1, <1>2, <1>3, <1>4, <1>5, <1>6, <1>7, <1>8, <1>9, <1>10, <1>11 DEF Next

\* There is a post for each message that has a number and a date, in their
\* order, made of it (visitMessages, extractPost).
THEOREM PostsMade == Spec => []PostsInv
<1>1. Spec => [](FlowInv /\ PostsInv)
  BY FlowInit, FlowStep, PostsInit, PostsStep, PTL DEF Spec
<1> QED
  BY <1>1, PTL

\* A post shows its own text, and not the text it replies to or a part of its
\* text only (findMessageContainer).
THEOREM PostsShowOwnText == Spec => []OwnText
<1>1. FlowInv /\ PostsInv => OwnText
  <2> SUFFICES ASSUME FlowInv, PostsInv, NEW i \in DOMAIN posts, posts[i].content = "html",
                      Main(input.page[posts[i].of]) # {}
               PROVE  LET texts == input.page[posts[i].of].texts
                          main == {c \in DOMAIN texts : ~ texts[c].inReply} IN
                        \E c \in main \ {texts[c].within : c \in main} :
                          /\ posts[i].words = texts[c].words
                          /\ posts[i].title = extractTitle(texts[c].text, texts[c].text)
    BY DEF OwnText, Main
  <2> DEFINE message == input.page[posts[i].of]
  <2>1. PostRight(posts[i])
    BY DEF PostsInv
  <2>2. message \in Message /\ Nested(message)
    BY <2>1, InputTyped DEF FlowInv, PostRight
  <2>3. HasHtml(message)
    <3>1. ContentOf(message) = "html"
      BY <2>1 DEF PostRight
    <3> QED
      BY <3>1 DEF ContentOf
  <2>4. posts[i].words = WordsOf(message) /\ posts[i].title = TitleOf(message)
    BY <2>1 DEF PostRight
  <2> HIDE DEF message
  <2>5. \E c \in Main(message) \ {message.texts[d].within : d \in Main(message)} :
          /\ WordsOf(message) = message.texts[c].words
          /\ TitleOf(message) = extractTitle(message.texts[c].text, message.texts[c].text)
    BY <2>2, <2>3, OwnTextFound DEF message
  <2> QED
    BY <2>4, <2>5 DEF message, Main
<1> QED
  BY <1>1, FlowRight, PostsMade, PTL

------------------------------------------------------------------------------
(* Items.                                                                    *)

ItemOf(post) ==
  [of |-> post.of, title |-> post.title, gallery |-> Gallery(post),
   enclosure |-> post.preview, date |-> post.date]

\* How many posts the generator has been through.
Done ==
  IF phase = "generate" THEN pos - 1 ELSE IF phase \in {"respond", "done"} THEN Len(posts) ELSE 0

\* There is an item for each of them that is not excluded, in their order, and
\* the feed is as old as the youngest.
ItemsInv ==
  /\ Done =< Len(posts)
  /\ items \in Seq(Item)
  /\ \A k \in DOMAIN items : \E j \in 1..Done :
       ~ Excluded(posts[j], params) /\ items[k] = ItemOf(posts[j])
  /\ \A j \in 1..Done : ~ Excluded(posts[j], params) =>
       \E k \in DOMAIN items : items[k].of = posts[j].of
  /\ \A k, l \in DOMAIN items : k < l => items[k].of < items[l].of
  /\ items = <<>> => created = None
  /\ items # <<>> =>
       /\ created \in Nat
       /\ \E k \in DOMAIN items : items[k].date = created
       /\ \A k \in DOMAIN items : items[k].date =< created

\* The images of a post, as a gallery shows them.
LEMMA GalleryShows ==
  ASSUME NEW post, post.images \in Seq(Sized)
  PROVE  /\ Gallery(post) \in Seq(Image)
         /\ ~ (post.content = "empty" /\ Len(post.images) = 1) =>
              ToSet(Gallery(post)) = {post.images[i].image : i \in DOMAIN post.images}
<1> DEFINE images == post.images
           n == Len(images)
           shown == [i \in DOMAIN images |-> images[i].image]
           single == post.content = "empty" /\ n = 1
<1>1. images \in Seq(Sized)
  OBVIOUS
<1>2. Gallery(post) = IF single THEN <<>> ELSE shown
  BY DEF Gallery
<1> HIDE DEF images, single
<1>3. DOMAIN images = 1..n /\ n \in Nat /\ \A i \in 1..n : images[i] \in Sized
  BY <1>1
<1>4. shown = [i \in 1..n |-> images[i].image] /\ \A i \in 1..n : images[i].image \in Image
  BY <1>3 DEF Sized
<1>5. shown \in [1..n -> Image]
  BY <1>4
<1>6. shown \in Seq(Image)
  BY <1>3, <1>5, SeqDef
<1>7. ToSet(shown) = {images[i].image : i \in DOMAIN images}
  BY <1>3, <1>4 DEF ToSet
<1>8. <<>> \in Seq(Image)
  OBVIOUS
<1> HIDE DEF shown
<1> QED
  BY <1>2, <1>6, <1>7, <1>8 DEF images, single

LEMMA ItemTyped ==
  ASSUME PostsInv, NEW j \in DOMAIN posts, NEW item, item = ItemOf(posts[j])
  PROVE  /\ item \in Item /\ item.of = posts[j].of /\ item.of \in Nat
         /\ item.title = posts[j].title /\ item.gallery = Gallery(posts[j])
         /\ item.enclosure = posts[j].preview
         /\ item.date = posts[j].date /\ item.date \in Nat
<1>1. /\ posts[j].of \in Nat /\ posts[j].title \in Title
      /\ posts[j].images \in Seq(Sized) /\ posts[j].preview \in Sized \cup {None}
      /\ posts[j].date \in Nat
  BY PostsTyped
<1>2. Gallery(posts[j]) \in Seq(Image)
  BY <1>1, GalleryShows
<1>3. item \in Item
  BY <1>1, <1>2 DEF ItemOf, Item
<1> QED
  BY <1>1, <1>3 DEF ItemOf

LEMMA ItemsInit == Init => ItemsInv
<1> SUFFICES ASSUME Init PROVE ItemsInv
  OBVIOUS
<1>1. posts = <<>> /\ items = <<>> /\ created = None /\ Done = 0
  BY DEF Init, Done
<1>2. items \in Seq(Item) /\ DOMAIN items = {} /\ Len(posts) = 0 /\ 1..0 = {}
  BY <1>1
<1> QED
  BY <1>1, <1>2 DEF ItemsInv

\* Nothing changes when neither the items do nor how many posts have been
\* reached.
LEMMA ItemsStay ==
  ASSUME ItemsInv, input' = input, posts' = posts, items' = items, created' = created,
         Done' = Done
  PROVE  ItemsInv'
<1>1. params' = params
  BY DEF params
<1> QED
  BY <1>1 DEF ItemsInv

\* As long as the scraper runs there are no items.
LEMMA ItemsAwaited ==
  ASSUME ItemsInv, Done = 0, Done' = 0, items' = items, created' = created,
         Len(posts') \in Nat
  PROVE  ItemsInv'
<1>1. items \in Seq(Item) /\ \A k \in DOMAIN items : \E j \in 1..0 : TRUE
  BY DEF ItemsInv
<1>2. items = <<>> /\ DOMAIN items = {}
  <2>1. DOMAIN items = 1..Len(items) /\ Len(items) \in Nat
    BY <1>1
  <2>2. 1..0 = {}
    OBVIOUS
  <2>3. DOMAIN items = {}
    BY <1>1, <2>2
  <2>4. Len(items) = 0
    BY <2>1, <2>3
  <2> QED
    BY <1>1, <2>3, <2>4
<1>3. items' = <<>> /\ items' \in Seq(Item) /\ DOMAIN items' = {} /\ created' = None
  BY <1>1, <1>2 DEF ItemsInv
<1>4. 1..Done' = {} /\ Done' =< Len(posts')
  OBVIOUS
<1> QED
  BY <1>3, <1>4 DEF ItemsInv

LEMMA ItemsStep == FlowInv /\ PostsInv /\ ItemsInv /\ [Next]_contentVars => ItemsInv'
<1> SUFFICES ASSUME FlowInv, PostsInv, ItemsInv, [Next]_contentVars PROVE ItemsInv'
  OBVIOUS
<1> USE DEF made, sent
<1>1. posts \in Seq(Post) /\ posts' \in Seq(Post) /\ Len(posts) \in Nat /\ Len(posts') \in Nat
  <2>1. PostsInv'
    BY PostsStep
  <2>2. posts \in Seq(Post) /\ posts' \in Seq(Post)
    BY <2>1 DEF PostsInv
  <2> QED
    BY <2>2
<1>2. CASE UNCHANGED contentVars
  BY <1>2, ItemsStay DEF contentVars, Done
<1>3. CASE Parse
  BY <1>3, ItemsStay DEF Parse, Done
<1>4. CASE Respond
  BY <1>4, ItemsStay DEF Respond, Done
<1>5. CASE SkipMessage
  BY <1>5, ItemsStay DEF SkipMessage, Done
<1>6. CASE StartPost
  BY <1>6, ItemsStay DEF StartPost, Done
<1>7. CASE FinishPost
  BY <1>1, <1>7, ItemsAwaited DEF FinishPost, Done
<1>8. CASE Visited
  BY <1>8, ItemsStay DEF Visited, Done
<1>9. ASSUME NEW i \in DOMAIN sizes, FetchSize(i) PROVE ItemsInv'
  BY <1>9, ItemsStay DEF FetchSize, Done
<1>10. CASE Exclude
  <2>1. /\ phase = "generate" /\ phase' = phase /\ pos' = pos + 1 /\ pos =< Len(posts)
        /\ pos \in Nat \ {0} /\ Excluded(posts[pos], params)
        /\ input' = input /\ posts' = posts /\ items' = items /\ created' = created
    BY <1>10 DEF Exclude, FlowInv
  <2>2. Done = pos - 1 /\ Done' = pos
    BY <2>1 DEF Done
  <2>3. params' = params
    BY <2>1 DEF params
  <2>4. \A j \in 1..pos : j \in 1..Done \/ j = pos
    BY <2>1, <2>2
  <2>5. \A j \in 1..Done : j \in 1..pos
    BY <2>1, <2>2
  <2>6. \A k \in DOMAIN items : \E j \in 1..pos :
          ~ Excluded(posts[j], params) /\ items[k] = ItemOf(posts[j])
    BY <2>5 DEF ItemsInv
  <2>7. \A j \in 1..pos : ~ Excluded(posts[j], params) =>
          \E k \in DOMAIN items : items[k].of = posts[j].of
    BY <2>1, <2>4 DEF ItemsInv
  <2> QED
    BY <2>1, <2>2, <2>3, <2>6, <2>7 DEF ItemsInv
<1>11. CASE Add
  <2> DEFINE item == ItemOf(posts[pos])
             n == Len(items)
  <2>1. /\ phase = "generate" /\ phase' = phase /\ pos' = pos + 1 /\ pos =< Len(posts)
        /\ pos \in Nat \ {0} /\ ~ Excluded(posts[pos], params)
        /\ input' = input /\ posts' = posts /\ items' = Append(items, item)
        /\ created' = IF created = None \/ posts[pos].date > created
                      THEN posts[pos].date ELSE created
    BY <1>11 DEF Add, FlowInv, ItemOf
  <2>2. Done = pos - 1 /\ Done' = pos
    BY <2>1 DEF Done
  <2>3. params' = params
    BY <2>1 DEF params
  <2>4. DOMAIN posts = 1..Len(posts) /\ pos \in DOMAIN posts
    BY <1>1, <2>1
  <2>5. \A j \in 1..pos : j \in 1..Done \/ j = pos
    BY <2>1, <2>2
  <2>6. \A j \in 1..Done : j \in 1..pos /\ j \in DOMAIN posts /\ j < pos
    BY <2>1, <2>2, <2>4
  <2>7. /\ item \in Item /\ item.of = posts[pos].of
        /\ item.date = posts[pos].date /\ item.date \in Nat
    BY <2>4, ItemTyped
  <2>8. items \in Seq(Item)
    BY DEF ItemsInv
  <2> HIDE DEF item
  <2>9. /\ items' \in Seq(Item) /\ items' # <<>> /\ n \in Nat
        /\ DOMAIN items = 1..n
        /\ \A k \in DOMAIN items : k \in DOMAIN items' /\ items'[k] = items[k]
        /\ n + 1 \in DOMAIN items' /\ items'[n + 1] = item
        /\ \A k \in DOMAIN items' : k \in DOMAIN items \/ k = n + 1
    BY <2>1, <2>7, <2>8, OneMore
  <2> HIDE DEF n
  <2>10. \A k \in DOMAIN items : items[k].of \in Nat /\ items[k].of < item.of /\ items[k].date \in Nat
    <3> TAKE k \in DOMAIN items
    <3>1. PICK j \in 1..Done : items[k] = ItemOf(posts[j])
      BY DEF ItemsInv
    <3>2. j \in DOMAIN posts /\ j < pos
      BY <2>6
    <3>3. posts[j].of < posts[pos].of
      BY <2>4, <3>2 DEF PostsInv
    <3>4. items[k].of = posts[j].of /\ items[k].of \in Nat /\ items[k].date \in Nat
      BY <3>1, <3>2, ItemTyped
    <3> QED
      BY <2>7, <3>3, <3>4
  <2>11. ASSUME NEW k \in DOMAIN items'
         PROVE  \E j \in 1..pos : ~ Excluded(posts[j], params) /\ items'[k] = ItemOf(posts[j])
    <3>1. CASE k \in DOMAIN items
      <4>1. items'[k] = items[k]
        BY <2>9, <3>1
      <4>2. PICK j \in 1..Done : ~ Excluded(posts[j], params) /\ items[k] = ItemOf(posts[j])
        BY <3>1 DEF ItemsInv
      <4> QED
        BY <2>6, <4>1, <4>2
    <3>2. CASE k = n + 1
      <4>1. pos \in 1..pos
        BY <2>1
      <4> QED
        BY <2>1, <2>9, <3>2, <4>1 DEF item
    <3> QED
      BY <2>9, <2>11, <3>1, <3>2
  <2>12. ASSUME NEW j \in 1..pos, ~ Excluded(posts[j], params)
         PROVE  \E k \in DOMAIN items' : items'[k].of = posts[j].of
    <3>1. CASE j \in 1..Done
      <4>1. PICK k \in DOMAIN items : items[k].of = posts[j].of
        BY <2>12, <3>1 DEF ItemsInv
      <4> QED
        BY <2>9, <4>1
    <3>2. CASE j = pos
      BY <2>7, <2>9, <3>2
    <3> QED
      BY <2>5, <2>12, <3>1, <3>2
  <2>13. ASSUME NEW k \in DOMAIN items', NEW l \in DOMAIN items', k < l
         PROVE  items'[k].of < items'[l].of
    <3>1. k \in DOMAIN items /\ items'[k] = items[k]
      BY <2>9, <2>13
    <3>2. CASE l = n + 1
      BY <2>9, <2>10, <3>1, <3>2
    <3>3. CASE l \in DOMAIN items
      BY <2>9, <2>13, <3>1, <3>3 DEF ItemsInv
    <3> QED
      BY <2>9, <2>13, <3>2, <3>3
  <2>14. /\ created' \in Nat
         /\ \E k \in DOMAIN items' : items'[k].date = created'
         /\ \A k \in DOMAIN items' : items'[k].date =< created'
    <3>1. None \notin Nat
      BY NoneAssumption
    <3>2. CASE items = <<>>
      <4>1. created = None /\ DOMAIN items = {}
        <5>1. DOMAIN items = {}
          BY <3>2
        <5> QED
          BY <3>2, <5>1 DEF ItemsInv
      <4>2. created' = item.date
        BY <2>1, <2>7, <4>1
      <4> QED
        BY <2>7, <2>9, <4>1, <4>2
    <3>3. CASE items # <<>>
      <4>1. /\ created \in Nat /\ created # None
            /\ \E k \in DOMAIN items : items[k].date = created
            /\ \A k \in DOMAIN items : items[k].date =< created
        BY <3>1, <3>3 DEF ItemsInv
      <4>2. CASE item.date > created
        <5>1. created' = item.date
          BY <2>1, <2>7, <4>2
        <5>2. \A k \in DOMAIN items : items[k].date =< item.date
          BY <2>7, <2>10, <4>1, <4>2
        <5> QED
          BY <2>7, <2>9, <5>1, <5>2
      <4>3. CASE ~ (item.date > created)
        <5>1. created' = created
          BY <2>1, <2>7, <4>1, <4>3
        <5>2. item.date =< created
          BY <2>7, <4>1, <4>3
        <5> QED
          BY <2>9, <4>1, <5>1, <5>2
      <4> QED
        BY <4>2, <4>3
    <3> QED
      BY <3>2, <3>3
  <2> QED
    BY <2>1, <2>2, <2>3, <2>9, <2>11, <2>12, <2>13, <2>14 DEF ItemsInv
<1>12. CASE Generated
  <2>1. /\ phase = "generate" /\ phase' = "respond" /\ pos > Len(posts) /\ pos \in Nat
        /\ input' = input /\ posts' = posts /\ items' = items /\ created' = created
    BY <1>12 DEF Generated, FlowInv
  <2>2. pos - 1 =< Len(posts)
    BY <2>1 DEF ItemsInv, Done
  <2>3. Done = Len(posts) /\ Done' = Len(posts)
    BY <1>1, <2>1, <2>2 DEF Done
  <2> QED
    BY <2>1, <2>3, ItemsStay
<1> QED
  BY <1>2, <1>3, <1>4, <1>5, <1>6, <1>7, <1>8, <1>9, <1>10, <1>11, <1>12 DEF Next

\* What holds of the run through the page and the feed.
ContentInv == FlowInv /\ PostsInv /\ ItemsInv

THEOREM FeedMade == Spec => []ContentInv
<1>1. Init => ContentInv
  BY FlowInit, PostsInit, ItemsInit DEF ContentInv
<1>2. ContentInv /\ [Next]_contentVars => ContentInv'
  BY FlowStep, PostsStep, ItemsStep DEF ContentInv
<1> QED
  BY <1>1, <1>2, PTL DEF Spec

\* The variables have their types.
THEOREM ContentTyped == Spec => []TypeOK
<1>1. ContentInv => TypeOK
  <2> SUFFICES ASSUME ContentInv PROVE TypeOK
    OBVIOUS
  <2>1. FlowInv /\ PostsInv /\ ItemsInv
    BY DEF ContentInv
  <2>2. input \in Inputs
    BY <2>1, InputTyped DEF FlowInv
  <2>3. phase \in Phases /\ pos \in Nat /\ sizes \in Seq(Image \cup {Unknown, Pending})
    BY <2>1 DEF FlowInv
  <2>4. posts \in Seq(Post) /\ items \in Seq(Item) /\ created \in Nat \cup {None}
    BY <2>1 DEF PostsInv, ItemsInv
  <2>5. stored \in Document \cup {None} /\ maxAge \in Int
    BY <2>1, SentTyped
  <2> QED
    BY <2>2, <2>3, <2>4, <2>5 DEF TypeOK, Phases
<1> QED
  BY <1>1, FeedMade, PTL

\* An item is that of a post, which is right for its message.
LEMMA ItemRight ==
  ASSUME ContentInv, NEW k \in DOMAIN items
  PROVE  \E j \in DOMAIN posts :
           /\ ~ Excluded(posts[j], params)
           /\ items[k] = ItemOf(posts[j])
           /\ PostRight(posts[j])
           /\ items[k] \in Item /\ items[k].of = posts[j].of /\ items[k].of \in Nat
           /\ items[k].title = posts[j].title /\ items[k].gallery = Gallery(posts[j])
           /\ items[k].enclosure = posts[j].preview
           /\ items[k].date = posts[j].date /\ items[k].date \in Nat
           /\ items[k].of \in DOMAIN input.page
           /\ input.page[items[k].of] \in Message /\ Nested(input.page[items[k].of])
<1> USE DEF ContentInv
<1>1. PICK j \in 1..Done : ~ Excluded(posts[j], params) /\ items[k] = ItemOf(posts[j])
  BY DEF ItemsInv
<1>2. j \in DOMAIN posts
  <2>1. posts \in Seq(Post) /\ Done =< Len(posts)
    BY DEF PostsInv, ItemsInv
  <2>2. Done \in Int
    <3>1. Len(posts) \in Nat /\ pos \in Nat
      BY <2>1 DEF FlowInv
    <3> QED
      BY <3>1 DEF Done
  <2> QED
    BY <2>1, <2>2
<1>3. PostRight(posts[j])
  BY <1>2 DEF PostsInv
<1>4. posts[j].of \in DOMAIN input.page
  BY <1>3 DEF PostRight
<1>5. /\ items[k] \in Item /\ items[k].of = posts[j].of /\ items[k].of \in Nat
      /\ items[k].title = posts[j].title /\ items[k].gallery = Gallery(posts[j])
      /\ items[k].enclosure = posts[j].preview
      /\ items[k].date = posts[j].date /\ items[k].date \in Nat
  BY <1>1, <1>2, ItemTyped
<1> QED
  BY <1>1, <1>2, <1>3, <1>4, <1>5, InputTyped DEF FlowInv

\* An item shows the photos of its message and no other images, with their own
\* sizes or none (extractImages, appendGallery, createFeedItem).
THEOREM ItemsShowImages == Spec => []ImagesShown
<1>1. ContentInv => ImagesShown
  <2> SUFFICES ASSUME ContentInv, NEW k \in DOMAIN items
               PROVE  LET item == items[k]
                          message == input.page[item.of]
                          photos == ToSet(message.photos) \ {None}
                          enclosed == IF item.enclosure = None THEN {}
                                      ELSE {item.enclosure.image} IN
                        /\ photos \subseteq ToSet(item.gallery) \cup enclosed
                        /\ ToSet(item.gallery) \cup enclosed
                             \subseteq photos \cup ({message.link} \ {None})
                        /\ ~ HasHtml(message) /\ Len(Photos(message)) = 1 =>
                             enclosed \cap ToSet(item.gallery) = {}
                        /\ item.enclosure # None =>
                             item.enclosure.size \in {item.enclosure.image, Unknown}
    BY DEF ImagesShown
  <2> DEFINE message == input.page[items[k].of]
             photos == ToSet(message.photos) \ {None}
             gallery == ToSet(items[k].gallery)
             enclosed == IF items[k].enclosure = None THEN {} ELSE {items[k].enclosure.image}
  <2> SUFFICES /\ photos \subseteq gallery \cup enclosed
               /\ gallery \cup enclosed \subseteq photos \cup ({message.link} \ {None})
               /\ ~ HasHtml(message) /\ Len(Photos(message)) = 1 => enclosed \cap gallery = {}
               /\ items[k].enclosure # None =>
                    items[k].enclosure.size \in {items[k].enclosure.image, Unknown}
    OBVIOUS
  <2> DEFINE shown == Photos(message)
  <2>1. PICK j \in DOMAIN posts :
          /\ PostRight(posts[j]) /\ items[k].of = posts[j].of
          /\ items[k].gallery = Gallery(posts[j]) /\ items[k].enclosure = posts[j].preview
    BY ItemRight
  <2>2. message \in Message
    BY ItemRight
  <2> DEFINE post == posts[j]
             images == post.images
             preview == post.preview
  <2>3. /\ post.content = ContentOf(message)
        /\ DOMAIN images = DOMAIN shown
        /\ \A i \in DOMAIN images : images[i].image = shown[i] /\ images[i].size \in {shown[i], Unknown}
        /\ preview \in IF images # <<>> THEN {images[1]} ELSE extractPreview(message)
    BY <2>1 DEF PostRight
  <2>4. shown \in Seq(Image) /\ ToSet(shown) = photos
    BY <2>2, PhotosFound
  <2>5. images \in Seq(Sized)
    BY PostsTyped DEF ContentInv
  <2>6. /\ gallery = ToSet(Gallery(post))
        /\ enclosed = IF preview = None THEN {} ELSE {preview.image}
        /\ items[k].enclosure = preview
    BY <2>1
  <2>7. /\ ~ (post.content = "empty" /\ Len(images) = 1) =>
             ToSet(Gallery(post)) = {images[i].image : i \in DOMAIN images}
        /\ post.content = "empty" /\ Len(images) = 1 => Gallery(post) = <<>>
    BY <2>5, GalleryShows DEF Gallery
  <2>8. post.content = "empty" <=> ~ HasHtml(message) /\ shown # <<>>
    BY <2>3 DEF ContentOf
  <2> HIDE DEF post, images, preview, shown, message, photos, gallery, enclosed
  <2>9. DOMAIN images = 1..Len(images) /\ Len(images) \in Nat /\ DOMAIN shown = 1..Len(shown)
        /\ Len(shown) \in Nat
    BY <2>4, <2>5
  <2>10. Len(shown) = Len(images)
    <3>1. \A m, n \in Nat : 1..m = 1..n => m = n
      OBVIOUS
    <3> QED
      BY <2>3, <2>9, <3>1
  <2>11. photos = {images[i].image : i \in DOMAIN images}
    BY <2>3, <2>4 DEF ToSet
  <2>12. CASE images # <<>>
    <3>1. 1 \in DOMAIN images /\ preview = images[1] /\ preview \in Sized
      BY <2>3, <2>5, <2>9, <2>12
    <3>2. preview # None
      BY <3>1, NoneAssumption
    <3>3. enclosed = {shown[1]} /\ shown[1] \in photos
      BY <2>3, <2>6, <2>11, <3>1, <3>2
    <3>4. preview.size \in {preview.image, Unknown}
      BY <2>3, <3>1
    <3>5. CASE post.content = "empty" /\ Len(images) = 1
      <4>1. gallery = {}
        BY <2>6, <2>7, <3>5 DEF ToSet
      <4>2. DOMAIN images = {1}
        BY <2>9, <3>5
      <4>3. photos = {shown[1]}
        BY <2>3, <2>11, <4>2
      <4> QED
        BY <2>6, <3>3, <3>4, <4>1, <4>3
    <3>6. CASE ~ (post.content = "empty" /\ Len(images) = 1)
      <4>1. gallery = photos
        BY <2>6, <2>7, <2>11, <3>6
      <4>2. ~ (~ HasHtml(message) /\ Len(shown) = 1)
        BY <2>8, <2>10, <3>6
      <4> QED
        BY <2>6, <3>3, <3>4, <4>1, <4>2 DEF shown
    <3> QED
      BY <3>5, <3>6
  <2>13. CASE images = <<>>
    <3>1. Len(images) = 0 /\ DOMAIN images = {}
      BY <2>9, <2>13
    <3>2. photos = {} /\ gallery = {} /\ Len(shown) # 1
      BY <2>6, <2>7, <2>10, <2>11, <3>1
    <3>3. preview \in extractPreview(message)
      BY <2>3, <2>13
    <3>4. CASE message.link = None
      BY <2>6, <3>2, <3>3, <3>4 DEF extractPreview, shown
    <3>5. CASE message.link # None
      <4>1. PICK size \in {message.link, Unknown} : preview = [image |-> message.link, size |-> size]
        BY <3>3, <3>5 DEF extractPreview, getImageSize
      <4>2. preview.image = message.link /\ preview.size \in {preview.image, Unknown}
        BY <4>1
      <4> QED
        BY <2>6, <3>2, <3>5, <4>2 DEF shown
    <3> QED
      BY <3>4, <3>5
  <2> QED
    BY <2>12, <2>13
<1> QED
  BY <1>1, FeedMade, PTL

\* A title is no longer than the limit but for the ellipsis that marks a cut;
\* without parentheses it is the text it is made from or is cut at the end of a
\* word (extractTitle, formatTitle).
THEOREM TitlesCutAtWord == Spec => []TitleCutAtWord
<1>1. ContentInv => TitleCutAtWord
  <2> SUFFICES ASSUME ContentInv, NEW k \in DOMAIN items,
                      NEW message, message = input.page[items[k].of],
                      NEW source, source = Source(k),
                      NEW title, title = items[k].title
               PROVE  /\ Len(title) =< maxTitleLength + 1
                      /\ Len(title) > maxTitleLength => Last(title) = Ellipsis
                      /\ HasHtml(message) /\ {"(", ")"} \cap ToSet(source) = {} =>
                        \/ title = source
                        \/ /\ Last(title) = Ellipsis
                           /\ IsPrefix(Front(title), source)
                           /\ \/ source[Len(title)] \in Punctuation
                              \/ " " \notin ToSet(SubSeq(source, 1, maxTitleLength))
    BY DEF TitleCutAtWord
  <2>1. message \in Message /\ Nested(message)
    BY ItemRight
  <2>2. title = TitleOf(message)
    BY ItemRight DEF PostRight
  <2>3. source = Cleaned(TitleSource(Html(message), Text(message)))
    BY DEF Source
  <2>4. Html(message) \in Seq(Rune) /\ Text(message) \in Seq(Rune)
    BY <2>1, ContainersFound
  <2>5. HasHtml(message) => ContentOf(message) = "html"
    BY DEF ContentOf
  <2>6. CASE title = extractTitle(Html(message), Text(message))
    BY <2>3, <2>4, <2>6, TitleOfText
  <2>7. CASE title \in {UnsupportedTitle, ImagePostTitle} /\ ~ HasHtml(message)
    <3>1. Len(title) = 1
      BY <2>7 DEF UnsupportedTitle, ImagePostTitle
    <3>2. Len(title) =< maxTitleLength + 1 /\ ~ (Len(title) > maxTitleLength)
      BY <3>1, TitleLengthAssumption
    <3> QED
      BY <2>7, <3>2
  <2> QED
    BY <2>2, <2>5, <2>6, <2>7 DEF TitleOf
<1> QED
  BY <1>1, FeedMade, PTL

\* What is left out is what was asked to be.
LEMMA ListedKept ==
  ASSUME ContentInv, phase = "done", NEW j \in DOMAIN posts
  PROVE  Listed(posts[j].of) <=> ~ Excluded(posts[j], params)
<1> DEFINE words == params.ExcludeWords
           asked == ToSet(input.query.exclude) \ {Blank}
           message == input.page[posts[j].of]
           sensitive == input.query.caseSensitive
<1>1. /\ Numbered(message) /\ Dated(message) /\ posts[j].words = WordsOf(message)
  BY DEF ContentInv, PostsInv, PostRight
<1>2. words \in Seq(Spelling) /\ ToSet(words) = asked /\ params.ExcludeCaseSensitive = sensitive
  BY ServedParams DEF ContentInv
<1>3. /\ \A i \in DOMAIN words : words[i] \in asked /\ words[i] # Blank
      /\ \A p \in asked : \E i \in DOMAIN words : words[i] = p
  <2>1. ToSet(words) = {words[i] : i \in DOMAIN words}
    BY DEF ToSet
  <2>2. Blank \notin asked
    OBVIOUS
  <2> HIDE DEF words, asked
  <2> QED
    BY <1>2, <2>1, <2>2
<1>4. Listed(posts[j].of) <=>
        \A p \in asked : \A s \in WordsOf(message) :
          s.word = p.word => sensitive /\ s.upper # p.upper
  BY <1>1 DEF Listed, Numbered, Dated
<1>5. Excluded(posts[j], params) <=>
        \E i \in DOMAIN words : ContainsWord(WordsOf(message), words[i], sensitive)
  BY <1>1, <1>2 DEF Excluded, shouldExcludePost
<1> HIDE DEF words, asked, message, sensitive
<1>6. \A i \in DOMAIN words :
        ContainsWord(WordsOf(message), words[i], sensitive) <=>
          \E s \in WordsOf(message) :
            s.word = words[i].word /\ (sensitive => s.upper = words[i].upper)
  BY <1>3 DEF ContainsWord
<1> QED
  BY <1>3, <1>4, <1>5, <1>6

\* The feed has an item for each message a reader expects to find in it and no
\* other, in the order of the page, and is as old as the youngest of them
\* (visitMessages, extractPost, Generate).
THEOREM ItemsAsExpected == Spec => []ItemsExpected
<1>1. ContentInv => ItemsExpected
  <2> DEFINE listed == {i \in DOMAIN input.page : Listed(i)}
             dates == {input.page[i].date : i \in listed}
             shown == {items[k].of : k \in DOMAIN items}
  <2> SUFFICES ASSUME ContentInv, phase = "done"
               PROVE  /\ shown = listed
                      /\ \A k, l \in DOMAIN items : k < l => items[k].of < items[l].of
                      /\ created = IF listed = {} THEN None ELSE Max(dates)
    BY DEF ItemsExpected
  <2>1. \A i \in DOMAIN input.page : i \in 1..Len(input.page)
    BY InputTyped DEF ContentInv, FlowInv
  <2>2. Reached = Len(input.page) /\ Done = Len(posts) /\ DOMAIN posts = 1..Len(posts)
    <3>1. posts \in Seq(Post)
      BY DEF ContentInv, PostsInv
    <3> QED
      BY <3>1 DEF Reached, Done
  <2>3. ASSUME NEW k \in DOMAIN items
        PROVE  /\ items[k].of \in listed
               /\ items[k].date = input.page[items[k].of].date /\ items[k].date \in Nat
    <3>1. PICK j \in DOMAIN posts :
            /\ ~ Excluded(posts[j], params) /\ PostRight(posts[j])
            /\ items[k].of = posts[j].of /\ items[k].date = posts[j].date
            /\ items[k].date \in Nat /\ items[k].of \in DOMAIN input.page
      BY ItemRight
    <3> QED
      BY <3>1, ListedKept DEF PostRight
  <2>4. ASSUME NEW i \in listed
        PROVE  \E k \in DOMAIN items : items[k].of = i
    <3>1. i \in DOMAIN input.page /\ i =< Reached
      BY <2>1, <2>2
    <3>2. Numbered(input.page[i]) /\ Dated(input.page[i])
      BY DEF Listed, Numbered, Dated
    <3>3. PICK j \in DOMAIN posts : posts[j].of = i
      BY <3>1, <3>2 DEF ContentInv, PostsInv
    <3>4. ~ Excluded(posts[j], params)
      BY <3>3, ListedKept
    <3> QED
      BY <2>2, <3>3, <3>4 DEF ContentInv, ItemsInv
  <2>5. shown = listed
    BY <2>3, <2>4
  <2>6. \A k, l \in DOMAIN items : k < l => items[k].of < items[l].of
    BY DEF ContentInv, ItemsInv
  <2> HIDE DEF listed
  <2>7. CASE items = <<>>
    <3>1. DOMAIN items = {} /\ created = None
      BY <2>7 DEF ContentInv, ItemsInv
    <3>2. listed = {}
      BY <2>4, <3>1
    <3> QED
      BY <2>5, <2>6, <3>1, <3>2
  <2>8. CASE items # <<>>
    <3>1. /\ created \in Nat
          /\ \E k \in DOMAIN items : items[k].date = created
          /\ \A k \in DOMAIN items : items[k].date =< created
      BY <2>8 DEF ContentInv, ItemsInv
    <3>2. listed # {}
      BY <2>3, <3>1
    <3>3. created \in dates
      BY <2>3, <3>1
    <3>4. \A x \in dates : x \in Int /\ x =< created
      BY <2>3, <2>4, <3>1
    <3> HIDE DEF dates
    <3>5. Max(dates) = created
      BY <3>3, <3>4, MaxOf
    <3> QED
      BY <2>5, <2>6, <3>2, <3>5
  <2> QED
    BY <2>7, <2>8
<1> QED
  BY <1>1, FeedMade, PTL

==============================================================================
