------------------------------ MODULE FeedContents ------------------------------
(***************************************************************************)
(* A request that nothing in the cache answers, from its parameters to the *)
(* document that is stored and sent (getChannelFeed in                     *)
(* internal/api/rest/telegram.go): the scraper's loop over the messages of *)
(* the channel's page (internal/feed/scraper.go, extract.go), and the      *)
(* generator's loop over the posts it made (generator.go).                 *)
(*                                                                         *)
(* The sizes of a post's images are asked for by one goroutine per image;  *)
(* an action is the answer to one of them, or one round of a loop.  The    *)
(* size of an image is named by the image, so that mixed up sizes can be   *)
(* told.  Of the HTML of a message the words that can be excluded are      *)
(* kept, with their spelling.                                              *)
(***************************************************************************)
EXTENDS PostTitle, FeedParams

CONSTANTS
  Input,      \* the requests and pages considered, a subset of Inputs
  Image,      \* images
  FixedWords, \* the spellings in the text that replaces unsupported content
  Unknown,    \* a size that could not be found out (0)
  Pending,    \* a size that has not arrived
  None        \* no image, date, post, title of its own, or stored document

\* A text container, in the order of the document: the container it is nested
\* in (an earlier one, 0 if none), whether it is in a quoted message, its text, its words.
Container == [within : Nat, inReply : BOOLEAN, text : Seq(Rune), words : SUBSET Spelling]

\* A message on the page: the parts of data-post, its text containers, its
\* date, what the styles of its photos lead to, and the image its link leads to.
Message == [path : Seq({"name", "number", ""}), texts : Seq(Container),
            date : Nat \cup {Missing, Malformed},
            photos : Seq(Image \cup {None}), link : Image \cup {None}]

Inputs == [query : Query, page : Seq(Message), cacheTTLDefault : Int]

Sized == [image : Image, size : Image \cup {Unknown}]

UnsupportedTitle == <<"unsupported">>
ImagePostTitle   == <<"image">>

Title == Seq(Rune \cup {Ellipsis}) \cup {UnsupportedTitle, ImagePostTitle}

\* entity.Post; of is the place of its message on the page.
Post == [of : Nat, title : Title, content : {"html", "unsupported", "empty"},
         words : SUBSET Spelling, images : Seq(Sized), preview : Sized \cup {None}, date : Nat]

\* feeds.Item
Item == [of : Nat, title : Title, gallery : Seq(Image), enclosure : Sized \cup {None}, date : Nat]

ASSUME InputAssumption == Input \subseteq Inputs /\ FixedWords \subseteq Spelling
ASSUME NestingAssumption ==
  \A in \in Input : \A i \in DOMAIN in.page : \A c \in DOMAIN in.page[i].texts :
    in.page[i].texts[c].within < c
ASSUME SizeAssumption  == Unknown \notin Image /\ Pending \notin Image \cup {Unknown}

\* A document is stored under a key, for a time.
Document == [key : Seq(Character), lifetime : Int]

ASSUME NoneAssumption == None \notin Image \cup Nat \cup Sized \cup Document

VARIABLES
  input,   \* what this run is about
  phase,   \* "request", "scan" (next message), "fetch" (its sizes),
           \* "generate", "respond", "rejected", "done"
  pos,     \* the message or post the loop has come to
  sizes,   \* images[i].Size
  posts,   \* channel.Posts
  items,   \* feed.Items
  created, \* feed.Created
  stored,  \* the key and lifetime the document is cached with, None if it is not
  maxAge   \* what Cache-Control says, 0 for no-cache

made        == <<posts, items, created>>
sent        == <<stored, maxAge>>
contentVars == <<input, phase, pos, sizes, made, sent>>

TypeOK ==
  /\ input \in Inputs
  /\ phase \in {"request", "scan", "fetch", "generate", "respond", "rejected", "done"}
  /\ pos \in Nat
  /\ sizes \in Seq(Image \cup {Unknown, Pending})
  /\ posts \in Seq(Post)
  /\ items \in Seq(Item)
  /\ created \in Nat \cup {None}
  /\ stored \in Document \cup {None}
  /\ maxAge \in Int

Init ==
  /\ input \in Input
  /\ phase = "request"
  /\ pos = 1
  /\ sizes = <<>>
  /\ posts = <<>>
  /\ items = <<>>
  /\ created = None
  /\ stored = None
  /\ maxAge = 0

params == FeedParamsOf(input.query, input.cacheTTLDefault)

\* NewFeedParamFromRequest, and on to the scrape or a 400.
Parse ==
  /\ phase = "request"
  /\ phase' = IF Rejected(input.query) THEN "rejected" ELSE "scan"
  /\ UNCHANGED <<input, pos, sizes, made, sent>>

------------------------------------------------------------------------------
(* The scraper.                                                              *)

Current == input.page[pos]

extractPostIDFromPath(path) == Len(path) = 2 /\ path[2] = "number"

\* A message without a number is left out.
SkipMessage ==
  /\ phase = "scan" /\ pos =< Len(input.page)
  /\ ~ extractPostIDFromPath(Current.path)
  /\ pos' = pos + 1
  /\ UNCHANGED <<input, phase, sizes, made, sent>>

\* Those whose style has a URL.
Photos(message) ==
  Pick(message.photos, {i \in DOMAIN message.photos : message.photos[i] # None})

\* extractImages starts one goroutine per photo ...
StartPost ==
  /\ phase = "scan" /\ pos =< Len(input.page)
  /\ extractPostIDFromPath(Current.path)
  /\ sizes' = [i \in DOMAIN Photos(Current) |-> Pending]
  /\ phase' = "fetch"
  /\ UNCHANGED <<input, pos, made, sent>>

\* The HEAD request may fail in several ways, which all count as 0.
getImageSize(image) == {image, Unknown}

FetchSizeOfLast(i) ==
  /\ phase = "fetch" /\ i \in DOMAIN sizes /\ sizes[i] = Pending
  /\ \E size \in getImageSize(Last(Photos(Current))) : sizes' = [sizes EXCEPT ![i] = size]
  /\ UNCHANGED <<input, phase, pos, made, sent>>

\* ... each of which writes the size of its own, if it gets one, ...
FetchSize(i) ==
  /\ phase = "fetch" /\ i \in DOMAIN sizes /\ sizes[i] = Pending
  /\ \E size \in getImageSize(Photos(Current)[i]) : sizes' = [sizes EXCEPT ![i] = size]
  /\ UNCHANGED <<input, phase, pos, made, sent>>

Images == [i \in DOMAIN sizes |-> [image |-> Photos(Current)[i], size |-> sizes[i]]]

extractPreview(message) ==
  IF message.link = None THEN {None}
  ELSE {[image |-> message.link, size |-> size] : size \in getImageSize(message.link)}

\* The first photo, or else the image behind the link.
Previews == IF Images # <<>> THEN {Images[1]} ELSE extractPreview(Current)

findMainContainer(message) ==
  LET main == {i \in DOMAIN message.texts : ~ message.texts[i].inReply} IN
    IF main # {} THEN {Min(main)} ELSE DOMAIN message.texts

\* The last container outside quoted messages; without one the containers of
\* quoted messages, and if they are nested the deepest of them.
findMessageContainer(message) ==
  LET all == DOMAIN message.texts
      main == {i \in all : ~ message.texts[i].inReply}
      depth[i \in all] ==
        IF message.texts[i].within = 0 THEN 0 ELSE depth[message.texts[i].within] + 1 IN
    IF main # {} THEN {Max(main)}
    ELSE {i \in all : \A j \in all : depth[j] =< depth[i]}

\* Html is that of the first container found, Text that of all of them.
Html(message) ==
  LET found == findMessageContainer(message) IN
    IF found = {} THEN <<>> ELSE message.texts[Min(found)].text

Text(message) ==
  LET texts == [i \in DOMAIN message.texts |-> message.texts[i].text] IN
    FlattenSeq(Pick(texts, findMessageContainer(message)))

HtmlWords(message) == message.texts[Min(findMessageContainer(message))].words

HasHtml(message) == Html(message) # <<>>

\* handleUnsupportedContent
ContentOf(message) ==
  IF HasHtml(message) THEN "html" ELSE IF Photos(message) = <<>> THEN "unsupported" ELSE "empty"

TitleOf(message) ==
  LET content == ContentOf(message)
      title == extractTitle(Html(message), Text(message)) IN
    IF content = "unsupported" THEN UnsupportedTitle
    ELSE IF content = "empty" /\ title = <<>> THEN ImagePostTitle
    ELSE title

WordsOf(message) ==
  LET content == ContentOf(message) IN
    IF content = "html" THEN HtmlWords(message)
    ELSE IF content = "unsupported" THEN FixedWords
    ELSE {}

extractPostDatetime(message) ==
  IF message.date \in {Missing, Malformed} THEN None ELSE message.date

FinishUndated ==
  /\ phase = "fetch" /\ Pending \notin ToSet(sizes)
  /\ \E preview \in Previews :
       posts' = Append(posts, [of |-> pos, title |-> TitleOf(Current),
         content |-> ContentOf(Current), words |-> WordsOf(Current), images |-> Images,
         preview |-> preview, date |-> extractPostDatetime(Current)])
  /\ pos' = pos + 1
  /\ phase' = "scan"
  /\ UNCHANGED <<input, sizes, items, created, sent>>

\* ... and waits for all of them.  A post without a date is left out.
FinishPost ==
  /\ phase = "fetch" /\ Pending \notin ToSet(sizes)
  /\ \/ extractPostDatetime(Current) = None /\ UNCHANGED posts
     \/ /\ extractPostDatetime(Current) # None
        /\ \E preview \in Previews :
             posts' = Append(posts, [of |-> pos, title |-> TitleOf(Current),
               content |-> ContentOf(Current), words |-> WordsOf(Current), images |-> Images,
               preview |-> preview, date |-> extractPostDatetime(Current)])
  /\ pos' = pos + 1
  /\ phase' = "scan"
  /\ UNCHANGED <<input, sizes, items, created, sent>>

Visited ==
  /\ phase = "scan" /\ pos > Len(input.page)
  /\ phase' = "generate"
  /\ pos' = 1
  /\ UNCHANGED <<input, sizes, made, sent>>

------------------------------------------------------------------------------
(* The generator.                                                            *)

\* strings.Contains, after folding the case unless caseSensitive.
ContainsWord(words, piece, caseSensitive) ==
  IF piece = Blank THEN TRUE
  ELSE \E s \in words :
         s.word = piece.word /\ (caseSensitive => s.upper = piece.upper)

shouldExcludePost(post, excludeWords, caseSensitive) ==
  \E i \in DOMAIN excludeWords : ContainsWord(post.words, excludeWords[i], caseSensitive)

Excluded(post, p) == shouldExcludePost(post, p.ExcludeWords, p.ExcludeCaseSensitive)

Exclude ==
  /\ phase = "generate" /\ pos =< Len(posts)
  /\ Excluded(posts[pos], params)
  /\ pos' = pos + 1
  /\ UNCHANGED <<input, phase, sizes, made, sent>>

\* appendGallery; the enclosure is enough for a post that is a single image.
Gallery(post) ==
  IF post.content = "empty" /\ Len(post.images) = 1 THEN <<>>
  ELSE [i \in DOMAIN post.images |-> post.images[i].image]

Add ==
  LET post == posts[pos] IN
    /\ phase = "generate" /\ pos =< Len(posts)
    /\ ~ Excluded(post, params)
    /\ items' = Append(items, [of |-> post.of, title |-> post.title, gallery |-> Gallery(post),
                               enclosure |-> post.preview, date |-> post.date])
    /\ created' = IF created = None \/ post.date > created THEN post.date ELSE created
    /\ pos' = pos + 1
    /\ UNCHANGED <<input, phase, sizes, posts, sent>>

Generated ==
  /\ phase = "generate" /\ pos > Len(posts)
  /\ phase' = "respond"
  /\ UNCHANGED <<input, pos, sizes, made, sent>>

\* cacheContent, then serveContent.
Respond ==
  /\ phase = "respond"
  /\ stored' = IF params.CacheTTL =< 0 THEN None
               ELSE [key |-> buildCacheKey(params), lifetime |-> Lifetime(params)]
  /\ maxAge' = IF params.CacheTTL =< 0 THEN 0 ELSE MaxAge(params)
  /\ phase' = "done"
  /\ UNCHANGED <<input, pos, sizes, made>>

------------------------------------------------------------------------------

Next ==
  \/ Parse \/ Respond
  \/ SkipMessage \/ StartPost \/ FinishPost \/ Visited
  \/ \E i \in DOMAIN sizes : FetchSize(i)
  \/ Exclude \/ Add \/ Generated

Spec == Init /\ [][Next]_contentVars

------------------------------------------------------------------------------
(* Properties.                                                               *)

\* What a reader of the README expects to find: messages with a number and a
\* date, without a word that was asked to be left out.
Listed(i) ==
  LET message == input.page[i] IN
    /\ extractPostIDFromPath(message.path) /\ message.date \notin {Missing, Malformed}
    /\ \A p \in ToSet(input.query.exclude) \ {Blank} : \A s \in WordsOf(message) :
         s.word = p.word => input.query.caseSensitive /\ s.upper # p.upper

\* The feed has an item for each of them and no other, in the order of the page,
\* and is as old as the youngest of them.
ItemsExpected ==
  phase = "done" =>
    LET listed == {i \in DOMAIN input.page : Listed(i)} IN
      /\ {items[k].of : k \in DOMAIN items} = listed
      /\ \A k, l \in DOMAIN items : k < l => items[k].of < items[l].of
      /\ created = IF listed = {} THEN None ELSE Max({input.page[i].date : i \in listed})

\* An item shows every photo of its message and no image of another; a post
\* that is a single image shows it once.  The length of an enclosure is that of
\* its image, whatever the order in which the answers arrive, or unknown.
ImagesShown ==
  \A i \in DOMAIN items :
    LET item == items[i]
        message == input.page[item.of]
        photos == ToSet(message.photos) \ {None}
        enclosed == IF item.enclosure = None THEN {} ELSE {item.enclosure.image} IN
      /\ photos \subseteq ToSet(item.gallery) \cup enclosed
      /\ ToSet(item.gallery) \cup enclosed \subseteq photos \cup ({message.link} \ {None})
      /\ ~ HasHtml(message) /\ Len(Photos(message)) = 1 => enclosed \cap ToSet(item.gallery) = {}
      /\ item.enclosure # None => item.enclosure.size \in {item.enclosure.image, Unknown}

Source(i) ==
  LET message == input.page[items[i].of] IN Cleaned(TitleSource(Html(message), Text(message)))

\* A title is no longer than the limit, but for the ellipsis that marks a cut.
\* Without parentheses it is the text it is made from, or is cut where one of
\* its words ends, unless the first word is already too long.
TitleCutAtWord ==
  \A i \in DOMAIN items :
    LET title == items[i].title
        message == input.page[items[i].of]
        source == Source(i)
        kept == Front(title) IN
      /\ Len(title) =< maxTitleLength + 1
      /\ Len(title) > maxTitleLength => Last(title) = Ellipsis
      /\ HasHtml(message) /\ {"(", ")"} \cap ToSet(source) = {} =>
        \/ title = source
        \/ /\ Last(title) = Ellipsis
           /\ IsPrefix(kept, source)
           /\ \/ source[Len(title)] \in Punctuation
              \/ " " \notin ToSet(SubSeq(source, 1, maxTitleLength))

\* A post shows its own text and not the text it replies to or a part of it
\* only: the words and the title of a container that is in no quoted message
\* and has no other such container in it, if there is one (findMessageContainer).
OwnText ==
  \A i \in DOMAIN posts :
    LET texts == input.page[posts[i].of].texts
        main == {c \in DOMAIN texts : ~ texts[c].inReply}
        innermost == main \ {texts[c].within : c \in main} IN
      posts[i].content = "html" /\ main # {} =>
        \E c \in innermost : /\ posts[i].words = texts[c].words
                             /\ posts[i].title = extractTitle(texts[c].text, texts[c].text)

\* What is stored can be served to everyone who asks for it: requests that
\* share a key ask for the same channel and format and leave out the same posts
\* (buildCacheKey).  This holds of requests for one username, whatever its
\* characters, and of those whose usernames contain no colon; "a:rss" without
\* exclusions and "a" without "rss:" do share a key.
KeyDetermines ==
  stored # None =>
    \A q \in Query :
      LET p == FeedParamsOf(q, input.cacheTTLDefault)
          plain == ":" \notin ToSet(p.Username) \cup ToSet(params.Username) IN
        /\ ~ Rejected(q) /\ buildCacheKey(p) = stored.key
        /\ plain \/ p.Username = params.Username
        =>
          /\ p.Username = params.Username /\ p.Format = params.Format
          /\ \A i \in DOMAIN posts : Excluded(posts[i], p) <=> Excluded(posts[i], params)

\* The cache is given no document for longer than the request, or else the
\* operator, asked for, and with cache_ttl=0 none.  As long as the lifetime can be
\* represented it is what was asked for, and HTTP caches are told the same;
\* beyond that it wraps around, and may be nothing or negative (which the cache in
\* memory takes for expired, and the client of Redis for no expiry at all).
KeptAsAsked ==
  LET asked == IF input.query.cache_ttl = Missing THEN input.cacheTTLDefault
               ELSE input.query.cache_ttl IN
    phase = "done" =>
      /\ stored # None <=> asked > 0
      /\ stored # None => stored.lifetime =< asked * Minute
      /\ asked > 0 /\ asked * Minute < 2 ^ (IntWidth - 1) =>
           /\ stored.lifetime = asked * Minute
           /\ maxAge * Minute = stored.lifetime * SecondsPerMinute

\* extract.go says that removeIncompleteParens "removes parenthetical text that
\* crosses the character limit": what closes a parenthesis stays with what
\* opens it.
TitleKeepsParens ==
  \A i \in DOMAIN items :
    LET Balanced(s) == \A k \in DOMAIN s : s[k] = ")" => \E j \in 1..k : s[j] = "(" IN
      HasHtml(input.page[items[i].of]) /\ Balanced(Source(i)) => Balanced(items[i].title)

==============================================================================
