----------------------------- MODULE IndexFeeds -----------------------------
(***************************************************************************)
(* Where the index board comes from.  A pass asks three sources in turn,   *)
(* each only when the one before it failed or had no row; then the names   *)
(* and, page by page, the yearly figures, neither of which may hold the    *)
(* board up; and stores what it has.  Which readings may become a          *)
(* session's row is the board's own matter.                                *)
(***************************************************************************)
EXTENDS Integers, FiniteSets, SequencesExt

CONSTANTS
    IndexSymbols,       \* the indices
    Spelled(_),         \* the index a source's spelling means, or NoIndexName
    NoIndexName,
    MarketViews, BoardFeeds, Carousels,     \* what the three sources may answer with
    NameLists,          \* what the names' source may answer with
    StatsPages,         \* what a page of the yearly figures may hold
    PerPage, LastPage,  \* rows of a full page, pages asked for
    Reach,              \* blocks after its own that a block's text reaches into
    MaxFeedPasses       \* bound on passes

ASSUME IndexFeedsAssumption ==
    /\ NoIndexName \notin IndexSymbols /\ Reach \in Nat
    /\ {PerPage, LastPage} \subseteq Nat \ {0} /\ MaxFeedPasses \in Nat

\* A cell of an answer: a number, words that are none, blank, or not there at all.
Number(n) == [is |-> "number", n |-> n]
Words == [is |-> "words", n |-> 0]
Blank == [is |-> "blank", n |-> 0]
Gone == [is |-> "gone", n |-> 0]
Heading(spelling) == [is |-> "text", n |-> spelling]
NoHeading == [is |-> "gone", n |-> NoIndexName]
Unread == -99               \* what is not a number is null

VARIABLES
    feed,       \* the pass under way
    indexOf,    \* market_indices: name (0 for the bare symbol), level, yearly high
    feedPasses, \* passes begun
    givenName, givenHigh,    \* history: indices given a name, a yearly high
    stated      \* history: the yearly highs sources stated, by index

feedVars == <<feed, indexOf, feedPasses, givenName, givenHigh, stated>>
feedHistory == <<givenName, givenHigh, stated>>

NoFeed == [pc |-> "idle", answers |-> <<>>, board |-> <<>>, names |-> {}, stats |-> <<>>, page |-> 0]
NoIndexRow == [name |-> 0, level |-> Unread, high52 |-> Unread]

FeedsTypeOK ==
    /\ feed.pc \in {"idle", "board", "names", "stats", "store", "failed"}
    /\ feedPasses \in 0..MaxFeedPasses /\ givenName \cup givenHigh \subseteq IndexSymbols
    /\ DOMAIN indexOf = IndexSymbols /\ DOMAIN feed.stats \subseteq IndexSymbols

InitFeeds ==
    /\ feed = NoFeed /\ indexOf = [s \in IndexSymbols |-> NoIndexRow] /\ feedPasses = 0
    /\ givenName = {} /\ givenHigh = {} /\ stated = [s \in IndexSymbols |-> {}]

---------------------------------------------------------------------------
(***************************************************************************)
(* Reading an answer.                                                      *)
(***************************************************************************)
\* Deviation: what is blank counts as zero.
coerced(cell) == IF cell.is = "words" THEN Unread ELSE cell.n

numeric(cell) == IF cell.is = "number" THEN cell.n ELSE Unread

\* Rows with a symbol and a level, the first of each symbol.
bySymbol(parsed) ==
    FoldLeft(LAMBDA kept, r : IF \E i \in DOMAIN kept : kept[i].symbol = r.symbol
                              THEN kept ELSE Append(kept, r),
             <<>>, SelectSeq(parsed, LAMBDA r : r.symbol # NoIndexName /\ r.level # Unread))

\* (The change, its sign and the volume are read as the level is.)
feedRow(row) == [symbol |-> Spelled(row.symbol), level |-> numeric(row.level)]

\* One feed nests its rows, the other may do either; anything else is no row.
parseSarmaayaMarketView(answer) ==
    IF answer.shape \in {"array", "nested"} THEN bySymbol([i \in DOMAIN answer.rows |-> feedRow(answer.rows[i])])
    ELSE <<>>

parseSarmaayaIndices(answer) ==
    IF answer.shape = "nested" THEN bySymbol([i \in DOMAIN answer.rows |-> feedRow(answer.rows[i])])
    ELSE <<>>

\* The page's text is cut a fixed length after each block's beginning: a field the
\* block lacks is that of the next block, where the text reaches so far.
tag(blocks, i, field) ==
    LET at == {j \in i..i + Reach : j \in DOMAIN blocks /\ blocks[j][field].is # "gone"}
    IN IF at = {} THEN Gone ELSE blocks[Min(at)][field]

parseIndices(blocks) ==
    bySymbol([i \in DOMAIN blocks |->
        LET said == tag(blocks, i, "symbol")
        IN [symbol |-> IF said.is = "gone" THEN NoIndexName ELSE Spelled(said.n),
            level |-> numeric(tag(blocks, i, "level"))]])

---------------------------------------------------------------------------
(***************************************************************************)
(* A pass.                                                                 *)
(***************************************************************************)
Refused == [shape |-> "refused", rows |-> <<>>]     \* no answer, or one that says no
leg == Len(feed.answers) + 1

StartFeed ==
    /\ feed.pc \in {"idle", "failed"} /\ feedPasses < MaxFeedPasses /\ feedPasses' = feedPasses + 1
    /\ feed' = [NoFeed EXCEPT !.pc = "board"]
    /\ UNCHANGED <<indexOf, feedHistory>>

\* A source without rows is a source that failed; when all have, the pass fails with
\* the first one's failure.
legReads(answer, board) ==
    /\ feed' = [feed EXCEPT !.answers = Append(@, answer), !.board = board,
                  !.pc = IF board # <<>> THEN "names" ELSE IF leg = 3 THEN "failed" ELSE "board"]
    /\ UNCHANGED <<indexOf, feedPasses, feedHistory>>

fetchSarmaayaMarketView ==
    /\ feed.pc = "board" /\ leg = 1
    /\ \E answer \in MarketViews \cup {Refused} : legReads(answer, parseSarmaayaMarketView(answer))

fetchSarmaayaIndices ==
    /\ feed.pc = "board" /\ leg = 2
    /\ \E answer \in BoardFeeds \cup {Refused} : legReads(answer, parseSarmaayaIndices(answer))

fetchPsxBoard ==
    /\ feed.pc = "board" /\ leg = 3
    /\ \E answer \in Carousels \cup {Refused} : legReads(answer, parseIndices(answer.rows))

\* Whatever goes wrong, there are no names.
fetchIndexNames ==
    /\ feed.pc = "names"
    /\ \E names \in NameLists \cup {{}} :
          feed' = [feed EXCEPT !.pc = "stats", !.names = names, !.page = 1]
    /\ UNCHANGED <<indexOf, feedPasses, feedHistory>>

\* A later row of a symbol replaces an earlier one.
statsOf(rows) ==
    [s \in {Spelled(rows[i].symbol) : i \in DOMAIN rows} \ {NoIndexName} |->
        numeric(rows[Max({i \in DOMAIN rows : Spelled(rows[i].symbol) = s})].high52)]

\* The next page, until one is short, is refused, or is the last; a page that is no
\* JSON throws, and nothing of the pages before it is kept.
fetchSarmaayaIndexStats ==
    /\ feed.pc = "stats"
    /\ \/ feed' = [feed EXCEPT !.pc = "store"] /\ UNCHANGED stated
       \/ feed' = [feed EXCEPT !.pc = "store", !.stats = <<>>] /\ UNCHANGED stated
       \/ \E rows \in StatsPages :
             /\ feed' = [feed EXCEPT !.stats = statsOf(rows) @@ @, !.page = @ + 1,
                           !.pc = IF Len(rows) < PerPage \/ feed.page = LastPage THEN "store" ELSE "stats"]
             /\ stated' = [s \in IndexSymbols |-> stated[s] \cup
                    {rows[i].high52.n : i \in {j \in DOMAIN rows : Spelled(rows[j].symbol) = s
                                                            /\ rows[j].high52.is = "number"}}]
    /\ UNCHANGED <<indexOf, feedPasses, givenName, givenHigh>>

named(s) == {n.name : n \in {m \in feed.names : m.symbol = s}}

\* A description is kept once there is one; the level is the pass's own; a figure that
\* is not published leaves the stored one, as a write of it that is refused does.
storedRow(old, r, refusals) ==
    LET s == r.symbol
        high == IF s \in DOMAIN feed.stats /\ s \notin refusals THEN feed.stats[s] ELSE Unread
    IN [name |-> IF old.name # 0 \/ named(s) = {} THEN old.name ELSE CHOOSE n \in named(s) : TRUE,
        level |-> r.level, high52 |-> IF high = Unread THEN old.high52 ELSE high]

scrapeIndices(refusals) ==
    LET at(s) == {i \in DOMAIN feed.board : feed.board[i].symbol = s}
        Read == {s \in IndexSymbols : at(s) # {}}
        after == [s \in IndexSymbols |-> IF s \in Read
                    THEN storedRow(indexOf[s], feed.board[Min(at(s))], refusals) ELSE indexOf[s]]
    IN /\ feed.pc = "store" /\ refusals \subseteq Read
       /\ indexOf' = after
       /\ givenName' = givenName \cup {s \in Read : named(s) # {}}
       /\ givenHigh' = givenHigh \cup {s \in Read : after[s].high52 # Unread}
       /\ feed' = NoFeed
       /\ UNCHANGED <<feedPasses, stated>>

NextFeeds ==
    \/ StartFeed \/ fetchSarmaayaMarketView \/ fetchSarmaayaIndices \/ fetchPsxBoard
    \/ fetchIndexNames \/ fetchSarmaayaIndexStats
    \/ \E refusals \in SUBSET IndexSymbols : scrapeIndices(refusals)

---------------------------------------------------------------------------
\* What an answer itself says of an index: the number beside the first row that has its
\* spelling and a number.
Publishes(rows, s, n) ==
    \E i \in DOMAIN rows :
        /\ Spelled(rows[i].symbol) = s /\ rows[i].level = Number(n)
        /\ \A j \in 1..i - 1 : Spelled(rows[j].symbol) = s => rows[j].level.is # "number"

\* A page in which every block carries a symbol and a level, so that no block's text
\* has to be read into the next one's.
WholeBlocks(blocks) == \A i \in DOMAIN blocks : blocks[i].symbol.is # "gone" /\ blocks[i].level.is # "gone"

\* The board as published: it is of one source, the first that published any level, each
\* index once and beside the level that source says, and no index it published is left
\* out; a pass fails only when no source said a level.  In the table a description is
\* never lost, and a yearly figure is one that was published, and is not blanked.
BoardIsAsPublished ==
    LET asked == Len(feed.answers)
        Readable(k) == feed.answers[k].shape \in (IF k = 1 THEN {"array", "nested"} ELSE {"nested", "page"})
        rowsOf(k) == IF k < 3 THEN feed.answers[k].rows
                     ELSE [i \in DOMAIN feed.answers[k].rows |->
                              [feed.answers[k].rows[i] EXCEPT !.symbol = @.n]]
        Says(k, s, n) == Readable(k) /\ Publishes(rowsOf(k), s, n)
        Chosen == feed.pc \notin {"board", "failed"} /\ asked > 0
    IN /\ \A k \in 1..asked : k < asked \/ (feed.pc = "failed" /\ k < 3) =>
             \A s \in IndexSymbols, n \in 0..9 : ~Says(k, s, n)
       /\ Chosen /\ (asked = 3 => WholeBlocks(feed.answers[3].rows)) =>
             \A s \in IndexSymbols :
                /\ Cardinality({i \in DOMAIN feed.board : feed.board[i].symbol = s}) <= 1
                /\ \A n \in 0..9 : Says(asked, s, n) <=>
                      \E i \in DOMAIN feed.board : feed.board[i].symbol = s /\ feed.board[i].level = n
       /\ \A s \in givenName : indexOf[s].name # 0
       /\ \A s \in IndexSymbols :
             /\ s \in givenHigh => indexOf[s].high52 # Unread
             /\ indexOf[s].high52 \in stated[s] \cup {Unread}

=============================================================================
