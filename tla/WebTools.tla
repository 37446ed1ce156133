------------------------------ MODULE WebTools ------------------------------
(***************************************************************************)
(* The web tools of a turn: WebToolService, SearchService and              *)
(* WebpageService (infrastructure/web), which the plugin builds once, with *)
(* the settings there are at that moment.  A search asks the provider for  *)
(* a page of results; a read tries one way after another to a page and     *)
(* gives what it extracts; a context reads all addresses of a message at   *)
(* the same time.                                                          *)
(*                                                                         *)
(* An address is a string; Wiki and Local say what the code reads off it.  *)
(* A page is what its extraction finds, as lengths: main (the extractor or *)
(* the "extract" of a JSON answer), all (the parser or the raw text),      *)
(* desc (a description).  The network, the providers and the libraries are *)
(* external: any outcome they allow.                                       *)
(***************************************************************************)
EXTENDS Naturals, Sequences, FiniteSets, SequencesExt, FiniteSetsExt

CONSTANTS None,
          Settings,   \* [provider, size, urls, proxy, env, curl, paged]: configured and installed
          Lists,      \* what the search engine may rank: sequences of addresses, "" is none
          Messages,   \* sequences of addresses a message or a call may mention
          Wiki, Local,\* addresses of Wikimedia; addresses that are not allowed
          Contents,   \* what a page may hold: [type, main, all, desc]
          MaxPage,    \* _MAX_PAGE
          TavilyPages,\* _TAVILY_MAX_PAGE
          Short,      \* a text shorter than this gives way to the description
          Cap,        \* max_content_chars
          MaxCalls    \* bound: calls; a behaviour that searches does not read, as the two share
                      \* nothing but their settings

VARIABLES saved,    \* the settings on disk
          config,   \* the settings the services were built with
          engine,   \* what the search engine ranks now
          found,    \* the answers to searches, the oldest first
          reads,    \* the reads under way or answered: one, or one per address
          shown,    \* the context built of them: [is, sources]
          called    \* number of calls

vars == <<saved, config, engine, found, reads, shown, called>>

Nothing == [is |-> "nothing", sources |-> {}]
Init ==
    /\ saved \in Settings /\ config = saved
    /\ engine = <<>>
    /\ found = <<>> /\ reads = <<>> /\ shown = Nothing /\ called = 0

-----------------------------------------------------------------------------
(* Searching.  Tavily has no pages: a page is cut out of a longer answer.  First a faulty *)
(* version that cuts before it drops what is there twice.                                 *)

Least(a, b) == IF a < b THEN a ELSE b
FirstOf(s, n) == SubSeq(s, 1, Least(n, Len(s)))
WithUrl(s) == SelectSeq(s, LAMBDA u : u # "")
Deduped(s) == SelectSeq([i \in DOMAIN s |-> IF \E j \in 1..(i - 1) : s[j] = s[i] THEN "" ELSE s[i]],
                        LAMBDA u : u # "")
CutFirst(s, page, size) == Deduped(SubSeq(s, (page - 1) * size + 1, Least(page * size, Len(s))))
Paginated(s, page, size) ==
    SubSeq(Deduped(s), (page - 1) * size + 1, Least(page * size, Len(Deduped(s))))

Tavily(page) ==
    {Paginated(WithUrl(FirstOf(engine, config.size * page)), page, config.size)}
    \cup {<<>>}                                                          \* no key
DuckDuckGo(page) ==
    LET from == IF config.paged THEN (page - 1) * config.size ELSE 0
    IN  {WithUrl(SubSeq(engine, from + 1, Least(from + config.size, Len(engine))))}
        \cup {<<>>}                                         \* both backends fail, or time out
Raw(page) == CASE config.provider = "tavily" -> Tavily(page)
               [] config.provider = "duckduckgo" -> DuckDuckGo(page)
               [] OTHER -> {<<>>}

Answer(page, raw, error) ==
    [page |-> page, size |-> config.size, provider |-> config.provider, error |-> error,
     of |-> engine,
     results |-> [i \in DOMAIN raw |-> [rank |-> (page - 1) * config.size + i, url |-> raw[i]]],
     more |-> /\ Len(raw) = config.size
              /\ \/ config.provider = "duckduckgo" /\ page < MaxPage
                 \/ config.provider = "tavily" /\ page < TavilyPages]

Calls == called < MaxCalls /\ called' = called + 1

web_search(page) ==
    /\ Calls /\ engine # <<>>
    /\ \/ /\ config.provider = "tavily" /\ page > TavilyPages
          /\ found' = Append(found, Answer(page, <<>>, "UNSUPPORTED_PAGE"))
       \/ /\ ~(config.provider = "tavily" /\ page > TavilyPages)
          /\ \E raw \in Raw(page) : found' = Append(found, Answer(page, raw, None))
       \/ /\ config.provider = "tavily" /\ page <= TavilyPages           \* raise_for_status
          /\ found' = Append(found, Answer(page, <<>>, "SEARCH_FAILED"))
    /\ UNCHANGED <<saved, config, engine, reads, shown>>

EngineChanges ==
    /\ engine' \in Lists \ {engine} /\ reads = <<>> /\ (found # <<>> \/ called = 0)
    /\ UNCHANGED <<saved, config, found, reads, shown, called>>

-----------------------------------------------------------------------------
(* Reading a page *)

Ways(url) ==
    LET direct == [name |-> "wikimedia_direct", proxy |-> None, env |-> FALSE]
        default == [name |-> "default", proxy |-> config.proxy, env |-> config.env]
    IN  IF url \notin Wiki THEN <<default>>
        ELSE IF default.proxy = None /\ ~default.env THEN <<direct>> ELSE <<direct, default>>

\* Errors by status: Unreached has none, Unreadable is a type of content that is not supported.
Unreached == [error |-> "unreached", status |-> None]
Unreadable == [error |-> "unsupported", status |-> 200]
Refusals == {[error |-> "status", status |-> s] : s \in {403, 404, 503}}
Supported(url, type) == type \in {"html", "text"} \/ (url \in Wiki /\ type = "json")
Fetched(url) == {c \in Contents : Supported(url, c.type)}

Retried(url, e) == url \in Wiki \/ e.status \in {403, 503, None}
Impersonates(url, e) == url \in Wiki \/ (config.curl /\ e.status = 403)

Failed(e) == [ok |-> FALSE, error |-> e]
Without(what) == Failed([error |-> what, status |-> None])
Read(url) == [url |-> url, todo |-> IF url \in Local THEN <<>> ELSE Ways(url), last |-> None,
              page |-> None, cut |-> FALSE, tried |-> {}, answer |->
                  IF url \in Local THEN Without("not allowed") ELSE None]
Open(t) == reads[t].answer = None

\* _fetch_once over the next way.
Fetch(t) ==
    /\ Open(t) /\ reads[t].page = None /\ reads[t].todo # <<>>
    /\ LET way == Head(reads[t].todo).name
           url == reads[t].url
           now == [reads[t] EXCEPT !.todo = Tail(@), !.tried = @ \cup {way}]
       IN  \/ \E c \in Fetched(url), cut \in BOOLEAN :
                reads' = [reads EXCEPT ![t] = [now EXCEPT !.page = c, !.cut = cut]]
           \/ \E e \in Refusals \cup {Unreached, Unreadable} :
                reads' = [reads EXCEPT ![t] =
                    IF Retried(url, e) THEN [now EXCEPT !.last = e]
                    ELSE [now EXCEPT !.last = e, !.answer = Failed(e)]]
    /\ UNCHANGED <<saved, config, engine, found, shown, called>>

\* No way is left: the client that looks like a browser, where it is installed and may help.
FetchAsBrowser(t) ==
    /\ Open(t) /\ reads[t].page = None /\ reads[t].todo = <<>> /\ "browser" \notin reads[t].tried
    /\ LET url == reads[t].url
           now == [reads[t] EXCEPT !.tried = @ \cup {"browser"}]
       IN  IF Impersonates(url, reads[t].last) /\ config.curl
           THEN \/ \E c \in Fetched(url), cut \in BOOLEAN :
                     reads' = [reads EXCEPT ![t] = [now EXCEPT !.page = c, !.cut = cut]]
                \/ \E e \in Refusals \cup {Unreached, Unreadable} :
                     reads' = [reads EXCEPT ![t] = [now EXCEPT !.last = e, !.answer = Failed(e)]]
                \/ reads' = [reads EXCEPT ![t] = [now EXCEPT !.answer = Without("raised")]]  \* encoding
           ELSE reads' = [reads EXCEPT ![t].answer = Failed(reads[t].last)]
    /\ UNCHANGED <<saved, config, engine, found, shown, called>>

Extracted(c) == IF c.main > 0 THEN c.main ELSE c.all
Description(c) == c.type # "text" /\ c.desc /\ (c.type = "json" => c.main > 0)
\* First a faulty version that says only what the length of the text says.
ToldByLength(t, n) == n > Cap
Told(t, n) == n > Cap \/ reads[t].cut
Parse(t) ==
    /\ Open(t) /\ reads[t].page # None
    /\ LET c == reads[t].page
           n == Extracted(c)
       IN  reads' = [reads EXCEPT ![t].answer =
               IF n < Short /\ Description(c)
               THEN [ok |-> TRUE, from |-> "description", len |-> 1, truncated |-> reads[t].cut]
               ELSE IF n = 0 THEN Without("empty")
               ELSE [ok |-> TRUE, from |-> "text", len |-> Least(n, Cap),
                     truncated |-> Told(t, n)]]
    /\ UNCHANGED <<saved, config, engine, found, shown, called>>

read_webpage(url) ==
    /\ Calls /\ reads = <<>> /\ engine = <<>> /\ reads' = <<Read(url)>>
    /\ UNCHANGED <<saved, config, engine, found, shown>>

-----------------------------------------------------------------------------
(* The context of a message: its addresses, each once, read at the same time. *)

Addresses(message) ==
    FirstOf(Deduped(SelectSeq(message, LAMBDA u : u \notin Local)), config.urls)
build_context(message) ==
    /\ Calls /\ reads = <<>> /\ engine = <<>> /\ Addresses(message) # <<>>
    /\ reads' = [i \in DOMAIN Addresses(message) |-> Read(Addresses(message)[i])]
    /\ shown' = [Nothing EXCEPT !.is = "gathering"]
    /\ UNCHANGED <<saved, config, engine, found>>

Good(t) == reads[t].answer.ok
Answered == \A t \in DOMAIN reads : ~Open(t)
Raised == \E t \in DOMAIN reads : ~Open(t) /\ ~Good(t) /\ reads[t].answer = Without("raised")
Sources == IF \E t \in DOMAIN reads : Good(t) THEN {t \in DOMAIN reads : Good(t)} ELSE DOMAIN reads
Gather ==
    /\ shown.is = "gathering"
    /\ Answered \/ Raised
    /\ shown' = IF Raised THEN [Nothing EXCEPT !.is = "raised"]
                ELSE [is |-> "built", sources |-> Sources]
    /\ UNCHANGED <<saved, config, engine, found, reads, called>>

\* The answer was taken; the next call starts afresh.
Close ==
    /\ reads # <<>> /\ Answered /\ shown.is # "gathering"
    /\ reads' = <<>> /\ shown' = Nothing
    /\ UNCHANGED <<saved, config, engine, found, called>>

-----------------------------------------------------------------------------
(* Settings.  A change is written to the settings of the plugin; the services of the tools *)
(* keep what they were built with until the plugins are loaded again.                      *)

Save(s) ==
    /\ saved = config /\ reads = <<>> /\ saved' = s
    /\ UNCHANGED <<config, engine, found, reads, shown, called>>
register_tool ==
    /\ saved # config /\ reads = <<>> /\ config' = saved
    /\ UNCHANGED <<saved, engine, found, reads, shown, called>>

Next ==
    \/ \E page \in 1..MaxPage : web_search(page)
    \/ EngineChanges
    \/ \E m \in Messages : build_context(m) \/ read_webpage(m[1])
    \/ \E t \in DOMAIN reads : Fetch(t) \/ FetchAsBrowser(t) \/ Parse(t)
    \/ Gather \/ Close
    \/ \E s \in Settings : Save(s)
    \/ register_tool

Spec == Init /\ [][Next]_vars

-----------------------------------------------------------------------------
(* Properties *)

TypeOK ==
    /\ saved \in Settings /\ config \in Settings /\ engine \in Lists \cup {<<>>} /\ called \in 0..MaxCalls
    /\ \A t \in DOMAIN reads : reads[t].page \in Contents \cup {None}

(***************************************************************************)
(* A later page goes on where an earlier one ended: while Tavily ranks the *)
(* same, no result of one page is shown again on the next, its number is   *)
(* its place among all of them, and none between the two pages is left out *)
(* (_paginate_sources, which cuts each page out of a new search).          *)
(***************************************************************************)
Urls(answer) == {answer.results[i].url : i \in DOMAIN answer.results}
PagesGoOn ==
    \A i, j \in DOMAIN found :
        LET one == found[i]
            next == found[j]
        IN  /\ one.provider = "tavily" /\ next.provider = "tavily" /\ one.size = next.size
            /\ one.of = next.of /\ one.page + 1 = next.page
            /\ one.more /\ next.results # <<>>
            => /\ Urls(one) \cap Urls(next) = {}
               /\ \A answer \in {one, next}, k \in 1..one.size :
                    k \in DOMAIN answer.results =>
                        answer.results[k].url
                            = Deduped(WithUrl(one.of))[answer.results[k].rank]
               /\ next.results[1].rank = one.results[Len(one.results)].rank + 1

(***************************************************************************)
(* What the model is told of a page is what was read: a text that is not   *)
(* the whole page is called truncated, and a description stands in for a   *)
(* short text only.  A failure is the last one there was, and every way    *)
(* that may still have helped was tried (fetch_and_parse).                 *)
(***************************************************************************)
ReadsHonest ==
    \A t \in DOMAIN reads :
        LET r == reads[t]
        IN  ~Open(t) =>
            IF Good(t)
            THEN /\ Supported(r.url, r.page.type)
                 /\ r.answer.truncated \/ ~r.cut
                 /\ IF r.answer.from = "description"
                    THEN r.page.desc /\ Extracted(r.page) < Short
                    ELSE r.answer.truncated \/ r.answer.len = Extracted(r.page)
            ELSE r.answer.error \in {Unreached, Unreadable} \cup Refusals =>
                 /\ r.answer.error = r.last /\ r.page = None
                 /\ Retried(r.url, r.last) =>
                        {Ways(r.url)[i].name : i \in DOMAIN Ways(r.url)} \subseteq r.tried
                 /\ r.last.status = 403 /\ config.curl => "browser" \in r.tried

(***************************************************************************)
(* A context names the pages that were read, all of them, and those that   *)
(* failed only when none was read (build_context); it fails as a whole     *)
(* only when a read did not come back at all.                              *)
(***************************************************************************)
SourcesWhole ==
    /\ shown.is = "raised" => Raised
    /\ shown.is = "built" =>
             /\ shown.sources # {} /\ Answered
             /\ \A t \in DOMAIN reads : Good(t) => t \in shown.sources
             /\ (\E t \in shown.sources : ~Good(t)) => \A t \in DOMAIN reads : ~Good(t)
=============================================================================
