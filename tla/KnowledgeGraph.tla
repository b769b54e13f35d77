--------------------------- MODULE KnowledgeGraph ---------------------------
(***************************************************************************)
(* core.KnowledgeGraph.Execute (src/tools/core/knowledge_graph.go): a few  *)
(* calls of the store in turn, and the text made of what they return.      *)
(*                                                                         *)
(* The store is external: each call returns what it likes, or an error,    *)
(* and may contradict the one before, since others write to the store      *)
(* meanwhile.  The blocks of one answer have different ids: block i of an  *)
(* answer has id i.  A line of the text is what it is about and how deep   *)
(* it is indented; pages have numbers, too.                                *)
(***************************************************************************)
EXTENDS Naturals, SequencesExt

CONSTANTS
    MaxBlocks,      \* bound: blocks, or pages, in one answer
    Pages,          \* pages that hits and answers are about
    Asked,          \* max_results in the arguments; 0: none
    PageDefault, Default, MaxResults,   \* 100, 10, 100
    Shallow         \* up to this many results traverse looks one step ahead: 5

ASSUME GraphBounds ==
    /\ {MaxBlocks, PageDefault, Default, MaxResults, Shallow} \subseteq Nat
    /\ Asked \subseteq Nat

VARIABLES
    stage,      \* the call of the store that is next; "idle"; "over"
    mode,
    limit,      \* params.MaxResults
    blocks,     \* what the last listing returned
    lines,      \* sb
    todo        \* what the loops, or writeNode, have yet to write

graphVars == <<stage, mode, limit, blocks, lines, todo>>

GraphInit ==
    /\ stage = "idle"
    /\ mode = "search" /\ limit = 0
    /\ blocks = <<>> /\ lines = <<>> /\ todo = <<>>

-----------------------------------------------------------------------------
(* Pages are headers, blocks and snippets items.  Lines that are the same  *)
(* whatever the store returns, the types of references and the texts of    *)
(* snippets are left out.                                                  *)
Header(page) == [of |-> page, depth |-> 0, header |-> TRUE]
Item(block, depth) == [of |-> block, depth |-> depth, header |-> FALSE]
Items(bs, depth) == [k \in DOMAIN bs |-> Item(bs[k], depth)]

(* What a loop over the n blocks of an answer appends: those in S.         *)
InOrder(n, S) ==
    LET upTo[i \in 0..n] ==
            IF i = 0 THEN <<>> ELSE
            IF i \in S THEN Append(upTo[i - 1], i) ELSE upTo[i - 1]
    IN  upTo[n]

Limit(m, asked) ==
    LET n == IF asked > 0 THEN asked ELSE IF m = "page" THEN PageDefault ELSE Default
    IN  IF n > MaxResults THEN MaxResults ELSE n

SearchDepth(n) == IF n <= Shallow THEN 1 ELSE 2

GraphExecute(m, asked, inPage) ==
    /\ stage = "idle"
    /\ mode' = m
    /\ limit' = Limit(m, asked)
    /\ stage' = IF m = "search" /\ ~inPage THEN "list" ELSE "page"
    /\ UNCHANGED <<blocks, lines, todo>>

(* GetPage: the page is there, or not, or the call fails.                  *)
GetPage ==
    /\ stage = "page"
    /\ stage' \in {"list", "over"}
    /\ UNCHANGED <<mode, limit, blocks, lines, todo>>

(* Search and SearchInPage return hits, which are on pages, to be shown    *)
(* page by page, the pages in the order of their first hits.               *)
PageChanges(hits) == InOrder(Len(hits),     \* variant for EveryHitOnce
    {i \in DOMAIN hits : i = 1 \/ hits[i] # hits[i - 1]})
FirstHits(hits) == InOrder(Len(hits),
    {i \in DOMAIN hits : \A j \in 1..(i - 1) : hits[j] # hits[i]})

SearchHits(hits) ==
    /\ stage = "list" /\ mode = "search"
    /\ blocks' = hits
    /\ todo' = [k \in DOMAIN FirstHits(hits) |-> Header(hits[FirstHits(hits)[k]])]
    /\ stage' = IF hits = <<>> THEN "over" ELSE "show"
    /\ UNCHANGED <<mode, limit, lines>>

(* The id stands in for the name of a page that GetPageByID does not find. *)
HitsOn(page) == InOrder(Len(blocks), {i \in DOMAIN blocks : blocks[i] = page})

ShowHits ==
    /\ stage = "show" /\ mode = "search" /\ todo # <<>>
    /\ lines' = lines \o <<Head(todo)>> \o Items(HitsOn(Head(todo).of), 0)
    /\ todo' = Tail(todo)
    /\ UNCHANGED <<stage, mode, limit, blocks>>

-----------------------------------------------------------------------------
(* GetBlockTree returns blocks with the ids of their parents: 0 for none,  *)
(* more than there are blocks for one that is not among them.              *)
KnownEarlier(parents, i) == parents[i] \in 1..(i - 1)   \* variant for PageShowsTree:
                                                        \* one loop
Known(parents, i) == parents[i] \in DOMAIN parents

Roots(parents) == InOrder(Len(parents), {i \in DOMAIN parents : ~Known(parents, i)})
RootsShown(parents) ==
    SubSeq(Roots(parents), 1, IF limit < Len(Roots(parents)) THEN limit ELSE Len(Roots(parents)))

GetBlockTree(parents) ==
    /\ stage = "list" /\ mode = "page"
    /\ blocks' = parents
    /\ todo' = Items(RootsShown(parents), 0)
    /\ stage' = "show"
    /\ UNCHANGED <<mode, limit, lines>>

Children(n) == InOrder(Len(blocks), {i \in DOMAIN blocks : Known(blocks, i) /\ blocks[i] = n})

(* writeNode writes a node, then its children, before what is next to it.  *)
WriteNode ==
    /\ stage = "show" /\ mode = "page" /\ todo # <<>>
    /\ lines' = Append(lines, Head(todo))
    /\ todo' = Items(Children(Head(todo).of), Head(todo).depth + 1) \o Tail(todo)
    /\ UNCHANGED <<stage, mode, limit, blocks>>

-----------------------------------------------------------------------------
(* GetRelatedPages, asked for SearchDepth(limit) steps, may return any     *)
(* number of pages, GetPagesWithSharedTags up to limit, as the store sees  *)
(* it.  Only traverse counts what it shows.                                *)
ListPages(pages) ==
    LET shown == IF mode = "traverse" /\ limit < Len(pages) THEN limit ELSE Len(pages)
    IN  /\ stage = "list" /\ mode \in {"traverse", "related"}
        /\ blocks' = pages
        /\ todo' = [k \in 1..shown |-> Header(pages[k])]
        /\ stage' = IF pages = <<>> THEN "over" ELSE "show"
        /\ UNCHANGED <<mode, limit, lines>>

(* GetBlockSnippets for one page after the other; an error is ignored.     *)
ShowPages(snippets) ==
    /\ stage = "show" /\ mode \in {"traverse", "related"} /\ todo # <<>>
    /\ lines' = lines \o <<Head(todo)>> \o [k \in 1..snippets |-> Item(k, 0)]
    /\ todo' = Tail(todo)
    /\ UNCHANGED <<stage, mode, limit, blocks>>

TextEnds ==
    /\ stage = "show" /\ todo = <<>>
    /\ stage' = "over"
    /\ UNCHANGED <<mode, limit, blocks, lines, todo>>

ListFails ==
    /\ stage = "list"
    /\ stage' = "over"
    /\ UNCHANGED <<mode, limit, blocks, lines, todo>>

Answers(S) == UNION {[1..n -> S] : n \in 0..MaxBlocks}

GraphStep ==
    \/ \E m \in {"search", "traverse", "page", "related"}, asked \in Asked,
          inPage \in BOOLEAN : GraphExecute(m, asked, inPage)
    \/ GetPage \/ ListFails
    \/ \E pages \in Answers(Pages) : SearchHits(pages) \/ ListPages(pages)
    \/ \E n \in 0..MaxBlocks : \E parents \in [1..n -> 0..(n + 1)] : GetBlockTree(parents)
    \/ ShowHits \/ WriteNode \/ TextEnds
    \/ \E snippets \in {0, 1} : ShowPages(snippets)

-----------------------------------------------------------------------------
Shown(m) == stage = "over" /\ mode = m /\ lines # <<>>
Shows(b) == \E k \in DOMAIN lines : lines[k].of = b /\ ~lines[k].header

(* The ids on the way from a root to block b.                              *)
IsPath(p, b) ==
    /\ p # <<>> /\ Last(p) = b /\ blocks[Head(p)] \notin DOMAIN blocks
    /\ \A k \in 2..Len(p) : blocks[p[k]] = p[k - 1]
Paths == UNION {[1..n -> DOMAIN blocks] : n \in 1..Len(blocks)}
Path(b) == CHOOSE p \in Paths : IsPath(p, b)

(* Parents come before their children, siblings in the order of the store. *)
Before(p, q) ==
    \/ IsStrictPrefix(p, q)
    \/ \E k \in DOMAIN p \cap DOMAIN q :
          p[k] < q[k] /\ SubSeq(p, 1, k - 1) = SubSeq(q, 1, k - 1)

(* A page is shown as a tree, in whatever order the store lists its        *)
(* blocks: every block under one of the first roots, once, as deep as it   *)
(* has ancestors, in document order; an orphan is a root, and a cycle does *)
(* not appear.                                                             *)
PageShowsTree ==
    Shown("page") =>
        LET roots == {i \in DOMAIN blocks : blocks[i] \notin DOMAIN blocks}
            first == {r \in roots : Cardinality({s \in roots : s < r}) < limit}
        IN  /\ \A b \in DOMAIN blocks : Shows(b) <=>
                  \E p \in Paths : IsPath(p, b) /\ Head(p) \in first
            /\ \A k \in DOMAIN lines : lines[k].depth + 1 = Len(Path(lines[k].of))
            /\ \A k \in 2..Len(lines) : Before(Path(lines[k - 1].of), Path(lines[k].of))

(* Every hit of a search is shown once, under a header of its page, which  *)
(* is shown once; what the store ranks higher comes first on its page, and *)
(* the page of the best hit first of all.                                  *)
EveryHitOnce ==
    Shown("search") =>
        LET At(b) == {k \in DOMAIN lines : lines[k] = Item(b, 0)}
            Heads == {k \in DOMAIN lines : lines[k].header}
            HeadOf(k) == Max({h \in Heads : h < k})
        IN  /\ lines[1] = Header(blocks[1])
            /\ \A h, g \in Heads : lines[h] = lines[g] => h = g
            /\ \A b \in DOMAIN blocks : \E k \in At(b) :
                  At(b) = {k} /\ lines[HeadOf(k)] = Header(blocks[b])
            /\ \A b, c \in DOMAIN blocks : b < c /\ blocks[b] = blocks[c] =>
                  \A k \in At(b), l \in At(c) : k < l
=============================================================================
