------------------------------- MODULE Listing --------------------------------
(***************************************************************************)
(* The stock list: the query of a page, and the board that turns its pages.*)
(* A page is two queries, its rows and the count of the whole list, that   *)
(* run beside each other and beside the writers.  The board keeps every    *)
(* answer under the question it asked, list, order and page, and shows the *)
(* one of the question it is at; answers come back in any order.           *)
(*                                                                         *)
(* The screener, which pages another list, is below it.                    *)
(***************************************************************************)
EXTENDS Integers, FiniteSets, SequencesExt

CONSTANTS
    Tickers,        \* symbols, a range of naturals, in their own order
    Figures,        \* values of the sorted column
    PageRows,       \* rowsPerPage
    MaxAsked,       \* bound on requests
    MaxChanged      \* bound on writes

ASSUME ListingAssumption ==
    /\ Tickers \subseteq Nat /\ IsFiniteSet(Tickers) /\ Figures \subseteq Nat \ {0}
    /\ PageRows \in Nat \ {0} /\ MaxAsked \in Nat \ {0} /\ MaxChanged \in Nat

Dash == 0
Lists == {"kse100", "allshr"}
PageCount(total) == (total + PageRows - 1) \div PageRows
Questions == [list : Lists, order : {"asc", "desc"}, page : Nat \ {0}]

VARIABLES
    figure,     \* the column's value of each symbol's newest priced row
    members,    \* the members of each list's index
    changed,    \* writes so far
    question,   \* what the board is at
    answers,    \* what came back, by question
    asking,     \* requests on their way, by question
    requests    \* requests so far

listingVars == <<figure, members, changed, question, answers, asking, requests>>

NoAnswer == [rows |-> <<>>, rowsAt |-> -1, total |-> 0, totalAt |-> -1]

ListingTypeOK ==
    /\ figure \in [Tickers -> Figures \cup {Dash}] /\ members \in [Lists -> SUBSET Tickers]
    /\ question \in Questions /\ requests \in 0..MaxAsked /\ changed \in 0..MaxChanged
    /\ DOMAIN answers \subseteq Questions /\ DOMAIN asking \subseteq Questions

\* The board opens on the KSE-100 and asks for its first page.
InitListing ==
    /\ figure \in [Tickers -> Figures \cup {Dash}]
    /\ members = [list \in Lists |->
          IF list = "allshr" THEN Tickers ELSE {t \in Tickers : t + 1 \in Tickers}]
    /\ question = [list |-> "kse100", order |-> "desc", page |-> 1]
    /\ answers = [q \in {} |-> NoAnswer] /\ asking = [q \in {question} |-> NoAnswer]
    /\ requests = 1 /\ changed = 0

---------------------------------------------------------------------------
(***************************************************************************)
(* The query.                                                              *)
(***************************************************************************)

\* The tracked members of the list's index.
buildWhereClause(list) == members[list]

ByFigure(order, s, t) ==
    \/ figure[s] # Dash /\ figure[t] = Dash
    \/ /\ Dash \notin {figure[s], figure[t]}
       /\ IF order = "asc" THEN figure[s] < figure[t] ELSE figure[s] > figure[t]

\* Deviation: symbols of the same value come in any order.
orderByColumn(order, s, t) == ByFigure(order, s, t)

\* Missing values last in both directions, ties by symbol.
buildOrderBy(order, s, t) ==
    ByFigure(order, s, t) \/ (figure[s] = figure[t] /\ s < t)

\* The orders a query may answer in.
Sorted(set, order) ==
    {q \in SetToSeqs(set) :
        \A i, j \in DOMAIN q : i < j => ~buildOrderBy(order, q[j], q[i])}

---------------------------------------------------------------------------
(***************************************************************************)
(* The board.                                                              *)
(***************************************************************************)
Known == question \in DOMAIN answers

With(f, q, a) == [x \in DOMAIN f \cup {q} |-> IF x = q THEN a ELSE f[x]]
Without(f, q) == [x \in DOMAIN f \ {q} |-> f[x]]

\* What the screen is at is asked for when it gets there, unless its answer is still
\* fresh, and when it polls; once for all who ask the same.
useStocks(q) ==
    /\ question' = q
    /\ \/ q \in DOMAIN answers /\ UNCHANGED <<asking, requests>>
       \/ /\ requests < MaxAsked
          /\ asking' = IF q \in DOMAIN asking THEN asking ELSE With(asking, q, NoAnswer)
          /\ requests' = IF q \in DOMAIN asking THEN requests ELSE requests + 1
    /\ UNCHANGED <<figure, members, changed, answers>>

Poll == useStocks(question)

PageOf(sorted, page) ==
    SubSeq(sorted, (page - 1) * PageRows + 1,
           IF page * PageRows < Len(sorted) THEN page * PageRows ELSE Len(sorted))

QueryRows(q) ==
    /\ asking[q].rowsAt = -1
    /\ \E sorted \in Sorted(buildWhereClause(q.list), q.order) :
          asking' = [asking EXCEPT ![q].rowsAt = changed, ![q].rows = PageOf(sorted, q.page)]
    /\ UNCHANGED <<figure, members, changed, question, answers, requests>>

QueryTotal(q) ==
    /\ asking[q].totalAt = -1
    /\ asking' = [asking EXCEPT ![q].totalAt = changed,
                                ![q].total = Cardinality(buildWhereClause(q.list))]
    /\ UNCHANGED <<figure, members, changed, question, answers, requests>>

Answer(q) ==
    /\ asking[q].rowsAt # -1 /\ asking[q].totalAt # -1
    /\ answers' = With(answers, q, asking[q])
    /\ asking' = Without(asking, q)
    /\ UNCHANGED <<figure, members, changed, question, requests>>

FailAnswer(q) ==
    /\ asking' = Without(asking, q)
    /\ UNCHANGED <<figure, members, changed, question, answers, requests>>

\* The list and the order start again from the first page.
chooseUniverse ==
    \E list \in Lists \ {question.list} :
        useStocks([question EXCEPT !.list = list, !.page = 1])

handleSortChange ==
    \E order \in {"asc", "desc"} \ {question.order} :
        useStocks([question EXCEPT !.order = order, !.page = 1])

TurnPage ==
    \/ /\ Known /\ question.page < PageCount(answers[question].total)
       /\ useStocks([question EXCEPT !.page = @ + 1])
    \/ question.page > 1 /\ useStocks([question EXCEPT !.page = @ - 1])

\* A new price, or a member that joins or leaves the index.
WriteFigure ==
    /\ changed < MaxChanged /\ changed' = changed + 1
    /\ \/ /\ \E t \in Tickers, v \in Figures \cup {Dash} : figure' = [figure EXCEPT ![t] = v]
          /\ UNCHANGED members
       \/ /\ \E list \in Lists, t \in Tickers :
                members' = [members EXCEPT ![list] = IF t \in @ THEN @ \ {t} ELSE @ \cup {t}]
          /\ UNCHANGED figure
    /\ UNCHANGED <<question, answers, asking, requests>>

NextListing ==
    \/ Poll \/ chooseUniverse \/ handleSortChange \/ TurnPage \/ WriteFigure
    \/ \E q \in DOMAIN asking : QueryRows(q) \/ QueryTotal(q) \/ Answer(q) \/ FailAnswer(q)

ListingSpec == InitListing /\ [][NextListing]_listingVars

---------------------------------------------------------------------------
\* The pages of a list: those of its questions, when nothing was written since any
\* of them was read.
Current(list, order) ==
    {q \in DOMAIN answers : q.list = list /\ q.order = order
        /\ answers[q].rowsAt = changed /\ answers[q].totalAt = changed}

RowsOf(qs) == [p \in {q.page : q \in qs} |-> answers[CHOOSE q \in qs : q.page = p].rows]

\* These pages hold these symbols, each in one place, those without a figure last.
Covers(pages, turned, all) ==
    LET cells == UNION {{<<p, i>> : i \in DOMAIN pages[p]} : p \in turned}
        symbol(c) == pages[c[1]][c[2]]
        before(c, d) == c[1] < d[1] \/ (c[1] = d[1] /\ c[2] < d[2])
    IN /\ {symbol(c) : c \in cells} = all
       /\ \A c, d \in cells : symbol(c) = symbol(d) => c = d
       /\ \A c, d \in cells : before(c, d) /\ figure[symbol(c)] = Dash => figure[symbol(d)] = Dash

\* Turning all the pages of a list while nothing is written meets every symbol of it
\* exactly once, as many as the count says, the missing values after all others;
\* whatever was asked in between and whichever answer came late.
PagesCoverTheList ==
    \A list \in Lists, order \in {"asc", "desc"} :
        LET current == Current(list, order)
            pages == RowsOf(current)
            all == buildWhereClause(list)
            turned == 1..PageCount(Cardinality(all))
        IN turned \subseteq DOMAIN pages =>
             /\ Covers(pages, turned, all)
             /\ \A q \in current : answers[q].total = Cardinality(all)

---------------------------------------------------------------------------
(***************************************************************************)
(* The screener.  The screen is the address: the filters, the named screen,*)
(* the order and the page are parsed from it, sent to the server, which    *)
(* lays the reader's filters over those of the named screen, resolves the  *)
(* technical ones to a set of stocks and answers a page.  The form is a    *)
(* draft that reaches the address when it is applied.                      *)
(*                                                                         *)
(* A filter set is a function on the fields it has.  The switch that shows *)
(* the technical columns is left out: it changes no row.  One bound stands *)
(* for the price, size and ratio bounds, which differ in their column only.*)
(***************************************************************************)
CONSTANTS
    Board,      \* what is stored of each company: pe, ret by period, above, change, shariah
    Bounds,     \* the values a reader gives a bound
    ScreenRows  \* rows a page has

ASSUME ScreensAssumption ==
    /\ \A c \in DOMAIN Board : DOMAIN Board[c] = {"pe", "change", "ret", "above", "shariah"}
    /\ DOMAIN Board \subseteq Nat /\ IsFiniteSet(DOMAIN Board)
    /\ Bounds \subseteq Int /\ ScreenRows \in Nat \ {0}

Unpublished == -99         \* a figure nobody published
NoScreen == "none"
NoFilters == [f \in {} |-> 0]

\* One set of filters over another, field by field.
Over(f, g) == [x \in DOMAIN f \cup DOMAIN g |-> IF x \in DOMAIN f THEN f[x] ELSE g[x]]

\* The fields of the form; Shariah is a switch of its own and has no field.
Fields == {"minPe", "minReturn", "returnPeriod", "maRelation"}
ValuesOf == [minPe |-> Bounds, minReturn |-> Bounds, returnPeriod |-> {"1w", "1m"},
             maRelation |-> {"above"}]
NamedScreens == {"low_pe", "gainers"}

VARIABLES
    url,        \* the address: filters, preset, sort, page
    draft,      \* the fields of the form that are filled in
    edited      \* the form was typed in since the address changed

screenVars == <<url, draft, edited>>

Blank == [filters |-> NoFilters, preset |-> NoScreen, sort |-> NoScreen, page |-> 1]

ScreensTypeOK ==
    /\ \A f \in DOMAIN draft : draft[f] \in ValuesOf[f]
    /\ url.preset \in NamedScreens \cup {NoScreen} /\ url.sort \in {"pe", NoScreen} /\ url.page \in Nat \ {0}

InitScreens == url = Blank /\ draft = NoFilters /\ edited = FALSE

---------------------------------------------------------------------------
(***************************************************************************)
(* The address and the form.                                               *)
(***************************************************************************)
\* The address of a screen, its defaults dropped, and a number read back as a number.
screenParams(filters, preset, sort, page) ==
    [filters |-> filters, preset |-> preset, sort |-> sort, page |-> page]

\* What the form shows of an address.
parseScreen(u) == [f \in Fields \cap DOMAIN u.filters |-> u.filters[f]]

\* Every field filled in; the form knows nothing of the switch.
buildFilters == draft

\* The form follows the address, wherever it changes from; typing is then forgotten.
setParams(u) ==
    /\ url' = u
    /\ IF u # url THEN draft' = parseScreen(u) /\ edited' = FALSE
       ELSE UNCHANGED <<draft, edited>>

setField(f, v) ==
    /\ draft' = With(draft, f, v)
    /\ draft' # draft /\ edited' = TRUE /\ UNCHANGED url

emptyField(f) ==
    /\ f \in DOMAIN draft /\ draft' = Without(draft, f)
    /\ edited' = TRUE /\ UNCHANGED url

\* Applied on the first page, in no order of the reader's.
apply == setParams(screenParams(buildFilters, url.preset, NoScreen, 1))

\* Clearing empties the form as well, where the address was blank already.
reset == url' = Blank /\ draft' = NoFilters /\ edited' = FALSE

\* A named screen replaces the filters; choosing it again leaves it.
choosePreset(key) ==
    setParams(screenParams(NoFilters, IF key = url.preset THEN NoScreen ELSE key, NoScreen, 1))

changeSort == setParams(screenParams(url.filters, url.preset, "pe", 1))

\* The switch changes the address in place, its page kept.
toggleShariah ==
    LET on == "shariah" \in DOMAIN url.filters
        filters == IF on THEN Without(url.filters, "shariah")
                   ELSE With(url.filters, "shariah", "1")
    IN setParams([url EXCEPT !.filters = filters])

---------------------------------------------------------------------------
(***************************************************************************)
(* The server.                                                             *)
(***************************************************************************)
SCREENER_PRESETS == [low_pe |-> [minPe |-> 1, maxPe |-> 10], gainers |-> [minChange |-> 1]]

\* What is asked of the server: no order under a named screen.
query == [filters |-> url.filters, preset |-> url.preset, page |-> url.page,
          sort |-> IF url.preset = NoScreen THEN url.sort ELSE NoScreen]

\* A return bound without a period is over a month.
toStockFilters(q) ==
    LET sent == Without(q.filters, "maRelation")
    IN IF "minReturn" \in DOMAIN sent THEN Over(sent, [returnPeriod |-> "1m"]) ELSE sent

\* The reader's filters over those of the named screen, field by field.
filtersOf(q) ==
    Over(toStockFilters(q), IF q.preset = NoScreen THEN NoFilters ELSE SCREENER_PRESETS[q.preset])

\* Deviation: what cannot be judged is let through.
unlessItFails(q, c) == "maRelation" \in DOMAIN q.filters => Board[c].above # "no"

\* No average, no match.
matchesTechnical(q, c) == "maRelation" \in DOMAIN q.filters => Board[c].above = "yes"

atLeast(value, filters, f) ==
    f \in DOMAIN filters => value # Unpublished /\ value >= filters[f]

\* A clause for each filter present; a figure nobody published satisfies no bound.
buildScreenerClauses(c, filters) ==
    /\ atLeast(Board[c].pe, filters, "minPe") /\ atLeast(Board[c].change, filters, "minChange")
    /\ "maxPe" \in DOMAIN filters => Board[c].pe # Unpublished /\ Board[c].pe <= filters["maxPe"]
    /\ "minReturn" \in DOMAIN filters =>
          atLeast(Board[c].ret[filters["returnPeriod"]], filters, "minReturn")
    /\ "shariah" \in DOMAIN filters => Board[c].shariah

\* The technical filters come first, as a set of stocks, also an empty one.
Matching(q) ==
    LET filters == filtersOf(q)
    IN {c \in DOMAIN Board : matchesTechnical(q, c) /\ buildScreenerClauses(c, filters)}

\* Figures ascending or descending, the unpublished last, ties by symbol.
inOrder(q, c, d) ==
    LET key(x) == IF q.preset = "gainers" THEN -Board[x].change
                  ELSE IF q.preset = "low_pe" \/ q.sort = "pe" THEN Board[x].pe ELSE 0
        missing(x) == key(x) \in {Unpublished, -Unpublished}
    IN IF missing(c) # missing(d) THEN missing(d)
       ELSE IF key(c) # key(d) THEN key(c) < key(d) ELSE c < d

\* A page, each row with its place in the whole list as the reason it is there.
listStocks(q) ==
    LET found == Matching(q)
        rank == [c \in found |-> Cardinality({d \in found : inOrder(q, d, c)}) + 1]
        onPage == {c \in found : rank[c] > (q.page - 1) * ScreenRows /\ rank[c] <= q.page * ScreenRows}
    IN [total |-> Cardinality(found), rows |-> {[company |-> c, rank |-> rank[c]] : c \in onPage}]

\* The page turned to is one the table offers.
changePage ==
    LET total == listStocks(query).total
    IN \E p \in 1..total :
          /\ (p - 1) * ScreenRows < total
          /\ setParams(screenParams(url.filters, url.preset, url.sort, p))

NextScreens ==
    \/ apply \/ reset \/ changeSort \/ toggleShariah \/ changePage
    \/ \E f \in Fields : emptyField(f) \/ \E v \in ValuesOf[f] : setField(f, v)
    \/ \E key \in NamedScreens : choosePreset(key)

ScreensSpec == InitScreens /\ [][NextScreens]_screenVars

---------------------------------------------------------------------------
\* A company meets what is filled in, and what the named screen asks beyond it.
Meets(c) ==
    LET stated(x) == x # Unpublished
        holds(f, d) == f \in DOMAIN draft => d
        r == Board[c].ret[IF "returnPeriod" \in DOMAIN draft THEN draft["returnPeriod"] ELSE "1m"]
    IN /\ holds("minPe", stated(Board[c].pe) /\ Board[c].pe >= draft["minPe"])
       /\ holds("minReturn", stated(r) /\ r >= draft["minReturn"])
       /\ holds("maRelation", Board[c].above = "yes")
       /\ "shariah" \in DOMAIN url.filters => Board[c].shariah
       /\ url.preset = "gainers" => stated(Board[c].change) /\ Board[c].change >= 1
       /\ url.preset = "low_pe" =>
             /\ stated(Board[c].pe) /\ Board[c].pe <= 10
             /\ "minPe" \in DOMAIN draft \/ Board[c].pe >= 1

\* The results are of the form, once what was typed is applied or left: all pages
\* together are exactly the companies that meet every field filled in, the switch, and
\* what the named screen asks beyond them, whatever way led here, and a company without
\* the figure meets no bound on it.
ResultsAreOfTheForm ==
    LET listed == UNION {{r.company : r \in listStocks([query EXCEPT !.page = p]).rows}
                            : p \in 1..Cardinality(DOMAIN Board)}
    IN ~edited => listed = {c \in DOMAIN Board : Meets(c)}

=============================================================================
