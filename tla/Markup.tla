------------------------------- MODULE Markup -------------------------------
(***************************************************************************)
(* The validators that read the text of a package while it streams in      *)
(* (uploads.py: _HtmlValidator over Python's HTMLParser, _CssValidator).   *)
(*                                                                         *)
(* An HTML document reaches _HtmlValidator as tokens, whatever the chunks; *)
(* each handler is an action.  A style sheet reaches _CssValidator chunk   *)
(* by chunk, cut anywhere; it keeps a tail of what it has read, and looks  *)
(* for the constructs the policy is about in the tail and the new chunk.   *)
(* A tag carries at most one attribute, and the CSS of a document at most  *)
(* one reference at a time; comments, escapes in CSS and the words of      *)
(* inline scripts are left out.                                            *)
(*                                                                         *)
(* An operator named <definition>_<Slip> is the definition with a plausible *)
(* mistake in it.  No specification uses it: it shows that a property would *)
(* notice the mistake.                                                      *)
(***************************************************************************)
EXTENDS UploadPolicy, Integers

CONSTANTS ArtifactKinds,    \* the package: comparison key to kind
          Tag,              \* the tags that are tried
          Attribute,        \* the attributes that are tried, with NoAttribute
          NoAttribute,
          Reference,        \* the references that are tried
          MaxNesting,       \* max_html_nesting
          MaxTokens,        \* max_html_tokens
          Window,           \* how much the CSS validator keeps, in symbols
          MaxChunk,         \* bound on the chunks of a style sheet
          MaxDocument,      \* bound on the tokens of an HTML document
          MaxText           \* bound on the symbols of a style sheet

ASSUME MarkupAssumption == /\ MaxNesting \in Nat \ {0} /\ MaxTokens \in Nat \ {0}
                           /\ Window \in Nat \ {0} /\ MaxChunk \in Nat \ {0}
                           /\ MaxDocument \in Nat /\ MaxText \in Nat

\* The kind of a file is that of its extension.
ASSUME KindsAssumption == \A key \in DOMAIN ArtifactKinds :
                             ArtifactKinds[key] = "csv" => key.extension = "csv"

VARIABLES language,   \* of the document that is read, "none" before
          document,   \* the tokens, or symbols, read so far
          verdict,    \* "reading", "accepted", "refused", or "incomplete"
          html,       \* the state of _HtmlValidator
          css         \* the state of _CssValidator

markupVars == <<language, document, verdict, html, css>>

_HTML_VOID_ELEMENTS == {"area", "br", "col", "hr", "img", "input", "link_stylesheet",
                        "link_icon", "meta", "param", "source", "track", "wbr"}
_HTML_FORBIDDEN_ELEMENTS == {"applet", "base", "embed", "frame", "frameset", "iframe",
                             "object", "portal"}
_URL_ATTRIBUTES == {"action", "background", "cite", "code", "data", "formaction", "href",
                    "longdesc", "manifest", "ping", "poster", "profile", "src", "usemap",
                    "xlink:href"}

ASSUME NoAttributeAssumption == NoAttribute \notin _URL_ATTRIBUTES \cup {"style", "on"}

MarkupInit ==
    /\ language = "none"
    /\ document = <<>>
    /\ verdict = "reading"
    /\ html = [stack |-> <<>>, root_seen |-> FALSE, root_closed |-> FALSE,
               doctype_seen |-> FALSE, head_seen |-> FALSE, body_seen |-> FALSE,
               token_count |-> 0, references |-> {}]
    /\ css = [tail |-> <<>>, references |-> {}]

Reads(lang, symbols) == /\ verdict = "reading"
                        /\ language \in {"none", lang}
                        /\ Len(document) + Len(symbols)
                              <= IF lang = "html" THEN MaxDocument ELSE MaxText
                        /\ language' = lang
                        /\ document' = document \o symbols

----------------------------------------------------------------------------
\* _HtmlValidator: what a handler refuses, and what it does otherwise.
Html(token, refuses, next) ==
    /\ Reads("html", <<token>>)
    /\ IF refuses THEN verdict' = "refused" /\ html' = html
                  ELSE verdict' = verdict /\ html' = next
    /\ UNCHANGED css

Token(kind, tag) == [token |-> kind, tag |-> tag, attribute |-> NoAttribute,
                     reference |-> NoAttribute]

Top(stack) == stack[Len(stack)]
Pop(stack) == SubSeq(stack, 1, Len(stack) - 1)

\* _token counts the tags and declarations.
Counted == [html EXCEPT !.token_count = @ + 1]
TooMany == html.token_count >= MaxTokens

handle_decl ==
    Html(Token("decl", "doctype html"),
         TooMany \/ html.stack # <<>> \/ html.doctype_seen,
         [Counted EXCEPT !.doctype_seen = TRUE])

\* handle_pi and unknown_decl.
handle_other_markup == Html(Token("other", "none"), TRUE, html)

RefusesPlace_SecondBody(tag) ==
    \/ html.stack = <<>> /\ (tag # "html" \/ html.root_seen \/ html.root_closed)
    \/ html.stack # <<>> /\ tag = "html"
    \/ tag = "head" /\ (html.stack # <<"html">> \/ html.head_seen \/ html.body_seen)
    \/ tag = "body" /\ html.stack # <<"html">>

\* Where the root, the head and the body may start.
RefusesPlace(tag) ==
    \/ html.stack = <<>> /\ (tag # "html" \/ html.root_seen \/ html.root_closed)
    \/ html.stack # <<>> /\ tag = "html"
    \/ tag = "head" /\ (html.stack # <<"html">> \/ html.head_seen \/ html.body_seen)
    \/ tag = "body" /\ (html.stack # <<"html">> \/ html.body_seen)

\* _inspect_code: a style, or a script, refers to a file or to nothing outside.
RefusesCode(language_of_code, reference) ==
    IF language_of_code = "style"
    THEN /\ reference.form \notin {"data_image", "data_font", "blob"}
         /\ ResolveAssetReference(reference, ArtifactKinds, CssKinds) # "ok"
    ELSE ResolveAssetReference(reference, ArtifactKinds, {"csv"}) # "ok"

\* _validate_attributes: links need an href; a script's src, forms, manifests and
\* responsive sources are external; URLs are resolved, and styles and handlers read
\* as code.  "on" is any event handler, "refresh" an http-equiv of that value.
RefusesAttribute(tag, attribute, reference) ==
    \/ tag \in {"link_stylesheet", "link_icon"} /\ attribute # "href"
    \/ attribute \in {"manifest", "action", "formaction", "srcset", "imagesrcset"}
    \/ tag = "script" /\ attribute = "src"
    \/ /\ attribute \in _URL_ATTRIBUTES
       /\ InspectUrlAttribute(reference, tag, attribute, ArtifactKinds) # "ok"
    \/ attribute = "style" /\ RefusesCode("style", reference)
    \/ attribute = "on" /\ RefusesCode("script", reference)
    \/ tag = "meta" /\ attribute = "content" /\ reference.form = "external"
    \/ tag = "meta" /\ attribute = "refresh"

Referenced(attribute, reference) ==
    IF attribute \in _URL_ATTRIBUTES \cup {"style", "on"} /\ reference.form = "local"
    THEN {reference.key} ELSE {}

\* handle_starttag, handle_startendtag and _start_tag.
handle_starttag(tag, attribute, reference, self_closing) ==
    LET void == tag \in _HTML_VOID_ELEMENTS
        refuses == \/ TooMany
                   \/ tag \in _HTML_FORBIDDEN_ELEMENTS \cup {"form"}
                   \/ RefusesPlace(tag)
                   \/ RefusesAttribute(tag, attribute, reference)
                   \/ ~void /\ (self_closing \/ Len(html.stack) >= MaxNesting)
        started == [Counted EXCEPT
                       !.root_seen = @ \/ html.stack = <<>>,
                       !.head_seen = @ \/ tag = "head",
                       !.body_seen = @ \/ tag = "body",
                       !.references = @ \cup Referenced(attribute, reference)]
    IN  Html([token |-> IF self_closing THEN "startend" ELSE "start", tag |-> tag,
              attribute |-> attribute, reference |-> reference],
             refuses,
             IF void THEN started ELSE [started EXCEPT !.stack = Append(@, tag)])

handle_endtag(tag) ==
    Html(Token("end", tag),
         \/ TooMany \/ tag \in _HTML_VOID_ELEMENTS
         \/ html.stack = <<>> \/ Top(html.stack) # tag,
         [Counted EXCEPT !.stack = Pop(@), !.root_closed = @ \/ tag = "html"])

InsideCode == html.stack # <<>> /\ Top(html.stack) \in {"style", "script"}

\* Text that is not blank; inside a style or a script it is read as code, which
\* refers to a file of the package here.
handle_data(reference) ==
    Html([Token("data", "none") EXCEPT !.reference = reference],
         \/ html.stack = <<>>
         \/ InsideCode /\ RefusesCode(Top(html.stack), reference),
         [html EXCEPT !.references = IF InsideCode /\ reference.form = "local"
                                     THEN @ \cup {reference.key} ELSE @])

\* handle_charref and handle_entityref are HTMLParser's own and do nothing, inside
\* the root or outside.  Code has no character references.
handle_charref == ~InsideCode /\ Html(Token("charref", "none"), FALSE, html)

\* finish: the parser has nothing left over, and the root is closed.
finish_html ==
    /\ language = "html"
    /\ verdict = "reading"
    /\ verdict' = IF html.root_seen /\ html.root_closed /\ html.stack = <<>>
                  THEN "accepted" ELSE "incomplete"
    /\ UNCHANGED <<language, document, html, css>>

----------------------------------------------------------------------------
\* _CssValidator.  A symbol is one of these, or a reference that begins and ends
\* as a word does; "@" and "import" make an @import rule, "scheme" is "https:", so
\* that an external URL is spelt out.
Symbols == {[symbol |-> s, reference |-> NoAttribute] :
                s \in {"url(", ")", "@", "import", "scheme", "//", "word"}}
               \cup [symbol : {"reference"},
                     reference : {r \in Reference : r.form # "external"}]

Is(text, i, symbol) == text[i].symbol = symbol

\* The \b of the expressions, before and behind what is a word: they see no more of
\* the text than they are given.
BeginsWord(text, i) == text[i].symbol \in {"url(", "import", "scheme", "word", "reference"}
EndsWord(text, i) == text[i].symbol \in {"import", "word", "reference"}
StartsWord(text, i) == i = 1 \/ ~EndsWord(text, i - 1)
StopsWord(text, i) == i = Len(text) \/ ~BeginsWord(text, i + 1)

Pairs(text) == 1..(Len(text) - 1)

HasImport(text) == \E i \in Pairs(text) : /\ Is(text, i, "@") /\ Is(text, i + 1, "import")
                                          /\ StopsWord(text, i + 1)

HasExternalUrl(text) ==
    \E i \in Pairs(text) :
        \/ Is(text, i, "scheme") /\ StartsWord(text, i) /\ Is(text, i + 1, "//")
        \/ Is(text, i, "//") /\ BeginsWord(text, i + 1)

\* Where a match of url(...) starts: it ends at the first ")", whatever is between.
Opens(text, i) == Is(text, i, "url(") /\ StartsWord(text, i)
Closes(text, i, j) == /\ i < j /\ Is(text, j, ")")
                      /\ \A k \in (i + 1)..(j - 1) : ~Is(text, k, ")")
Matches(text) ==
    {m \in (1..Len(text)) \X (1..Len(text)) :
        /\ Opens(text, m[1])
        /\ Closes(text, m[1], m[2])
        /\ \A k \in 1..(m[1] - 1) :
              Opens(text, k) => \E j \in (k + 1)..(m[1] - 1) : Is(text, j, ")")}

\* What is between the parentheses is one reference that may stand there.
GoodMatch(text, m) ==
    /\ m[2] = m[1] + 2
    /\ LET reference == text[m[1] + 1].reference IN
       /\ Is(text, m[1] + 1, "reference")
       /\ \/ reference.form \in {"data_image", "data_font", "blob"}
          \/ ResolveAssetReference(reference, ArtifactKinds, CssKinds) = "ok"

FilesIn(text) == {text[m[1] + 1].reference.key :
                     m \in {n \in Matches(text) : text[n[1] + 1].reference.form = "local"}}

Wrong(text) == \/ HasImport(text) \/ HasExternalUrl(text)
               \/ \E m \in Matches(text) : ~GoodMatch(text, m)

\* _inspect: what it finds in a text, and what is left to read then.
_inspect(text, tail, otherwise) ==
    IF Wrong(text)
    THEN verdict' = "refused" /\ css' = css
    ELSE /\ verdict' = otherwise
         /\ css' = [tail |-> tail, references |-> css.references \cup FilesIn(text)]

LastOf(text) == SubSeq(text, IF Len(text) > Window THEN Len(text) - Window + 1 ELSE 1,
                       Len(text))

Kept_OfChunk(tail, data) == LastOf(data)
Kept(tail, data) == LastOf(tail \o data)

feed(data) == /\ Reads("css", data)
              /\ _inspect(css.tail \o data, Kept(css.tail, data), "reading")
              /\ UNCHANGED html

\* It looks at the tail once more.
finish_css == /\ language = "css"
              /\ verdict = "reading"
              /\ _inspect(css.tail, css.tail, "accepted")
              /\ UNCHANGED <<language, document, html>>

----------------------------------------------------------------------------
Chunks == UNION {[1..n -> Symbols] : n \in 1..MaxChunk}

MarkupNext ==
    \/ handle_decl
    \/ handle_other_markup
    \/ \E tag \in Tag, self_closing \in BOOLEAN :
          \/ \E attribute \in Attribute, reference \in Reference :
                handle_starttag(tag, attribute, reference, self_closing)
          \/ handle_starttag(tag, NoAttribute, NoAttribute, self_closing)
    \/ \E tag \in Tag : handle_endtag(tag)
    \/ \E reference \in Reference : handle_data(reference)
    \/ handle_charref
    \/ finish_html
    \/ \E data \in Chunks : feed(data)
    \/ finish_css

MarkupSpec == MarkupInit /\ [][MarkupNext]_markupVars

----------------------------------------------------------------------------
(* What the HTML validator has to decide, in terms of the whole document.   *)

Starts(i) == document[i].token = "start" /\ document[i].tag \notin _HTML_VOID_ELEMENTS
Ends(i) == document[i].token = "end"
StartsAny(i) == document[i].token \in {"start", "startend"}

\* How many elements are open before token i.
Depth(i) == Cardinality({j \in 1..(i - 1) : Starts(j)})
                - Cardinality({j \in 1..(i - 1) : Ends(j)})

\* Token j opened the innermost element that is open before token i.
Innermost(j, i) == /\ j < i
                   /\ Starts(j)
                   /\ Depth(j) = Depth(i) - 1
                   /\ \A k \in (j + 1)..i : Depth(k) >= Depth(i)

InCode(i) == \E j \in 1..(i - 1) : /\ Innermost(j, i)
                                   /\ document[j].tag \in {"style", "script"}

\* What the text of a style or of a script may refer to.
CodeMayUse(tag, reference) ==
    \/ reference.form \in {"data_image", "data_font", "blob"} /\ tag = "style"
    \/ /\ reference.form = "local"
       /\ reference.key \in DOMAIN ArtifactKinds
       /\ ArtifactKinds[reference.key] \in (IF tag = "style" THEN CssKinds ELSE {"csv"})

Resolves(i) ==
    LET t == document[i] IN
    CASE t.token = "data" ->
             InCode(i) => \E j \in 1..(i - 1) : /\ Innermost(j, i)
                                               /\ CodeMayUse(document[j].tag, t.reference)
      [] StartsAny(i) -> ~RefusesAttribute(t.tag, t.attribute, t.reference)
      [] OTHER -> TRUE

\* Token i may stand where it stands, after the tokens before it.
TokenIsRight(i) ==
    /\ document[i].token # "other"
    /\ Resolves(i)
    /\ Depth(i) <= MaxNesting - (IF Starts(i) THEN 1 ELSE 0)
    /\ Depth(i) = 0 => \/ document[i].token \in {"decl", "charref"}
                       \/ Starts(i) /\ document[i].tag = "html"
    /\ document[i].token = "decl" =>
           Depth(i) = 0 /\ \A j \in 1..(i - 1) : document[j].token # "decl"
    /\ Ends(i) => \E j \in 1..(i - 1) : /\ Innermost(j, i)
                                        /\ document[j].tag = document[i].tag
    /\ StartsAny(i) =>
          /\ document[i].tag \notin _HTML_FORBIDDEN_ELEMENTS \cup {"form"}
          /\ document[i].token = "startend" => document[i].tag \in _HTML_VOID_ELEMENTS
          /\ document[i].tag = "html" =>
                \A j \in 1..(i - 1) : ~(Starts(j) /\ document[j].tag = "html")
          /\ document[i].tag = "head" =>
                /\ Depth(i) = 1
                /\ \A j \in 1..(i - 1) :
                      ~(Starts(j) /\ document[j].tag \in {"head", "body"})
          /\ document[i].tag = "body" =>
                /\ Depth(i) = 1
                /\ \A j \in 1..(i - 1) : ~(Starts(j) /\ document[j].tag = "body")

Uncounted == {"data", "charref"}

\* No continuation is needed to tell that a document is wrong.
WellFormedSoFar ==
    /\ Cardinality({i \in DOMAIN document : document[i].token \notin Uncounted}) <= MaxTokens
    /\ \A i \in DOMAIN document : TokenIsRight(i)

Complete == /\ \E i \in DOMAIN document : Starts(i)
            /\ Depth(Len(document) + 1) = 0

\* The validator, which keeps a stack and five flags, refuses a document at the
\* first token that makes it wrong, and at its end exactly when it is unfinished:
\* one html element, in it at most one head and then at most one body, every
\* element closed in its turn, no text outside (character references do not count
\* as text), every reference in the package.
HtmlVerdict ==
    language = "html" =>
        CASE verdict = "reading" -> WellFormedSoFar
          [] verdict = "accepted" -> WellFormedSoFar /\ Complete
          [] verdict = "incomplete" -> WellFormedSoFar /\ ~Complete
          [] OTHER -> ~WellFormedSoFar

\* Every url(...) is closed within the window.
FitsWindow == \A i, j \in 1..Len(document) :
                 Opens(document, i) /\ Closes(document, i, j) => j - i <= Window

\* The same constructs, whether or not they are words of their own: an @importers, a
\* myurl(...), an xhttps://.
GluedUrls(text) == {m \in (1..Len(text)) \X (1..Len(text)) :
                       Is(text, m[1], "url(") /\ Closes(text, m[1], m[2])}
GluedFiles(text) ==
    {text[m[1] + 1].reference.key :
        m \in {n \in GluedUrls(text) : /\ GoodMatch(text, n)
                                       /\ text[n[1] + 1].reference.form = "local"}}
WrongIfGlued(text) ==
    \/ \E i \in Pairs(text) :
          \/ Is(text, i, "@") /\ Is(text, i + 1, "import")
          \/ Is(text, i, "scheme") /\ Is(text, i + 1, "//")
          \/ Is(text, i, "//") /\ BeginsWord(text, i + 1)
    \/ \E m \in GluedUrls(text) : ~GoodMatch(text, m)

\* However the upload is cut into chunks, the CSS validator lets nothing pass that
\* one reading of the whole style sheet would refuse, and misses no reference,
\* provided that no url(...) is longer than what it keeps of the text.  What it
\* refuses or lists beyond that is at least there as a part of a longer word, which
\* a cut can sever: only for such words does the place of the cut matter.
StyleVerdict ==
    language = "css" =>
        IF verdict = "refused" THEN WrongIfGlued(document)
        ELSE /\ css.references \subseteq GluedFiles(document)
             /\ FitsWindow => ~Wrong(document) /\ FilesIn(document) \subseteq css.references
=============================================================================
