---------------------------- MODULE Fundamentals ----------------------------
(***************************************************************************)
(* The JSON leg of a sync: the metric table, the ratio series, the payouts *)
(* and the income statement of one symbol, what the merge makes of them,   *)
(* what is stored and how the statement is served.  The requests of a run  *)
(* are answered one by one while the source publishes a new quarter, a new *)
(* year or a payout; any of them may be refused or lost.                   *)
(*                                                                         *)
(* A figure is named by what it is of: the quarter, the fiscal year or the *)
(* payout it was published with.  The annual series keeps a placeholder in *)
(* its older rows, a quoted one.                                           *)
(***************************************************************************)
EXTENDS Integers, Sequences, FiniteSets, FiniteSetsExt

CONSTANTS
    StatementLines, \* the lines of the statement, in the source's order
    TtmOnly,        \* those whose annual rows are placeholders only
    Profiles,       \* what kinds of symbol there are: company, bank, fund
    MaxPublished,   \* bound on quarters, years and payouts
    MaxFetches      \* bound on runs

LineNames == {StatementLines[i] : i \in DOMAIN StatementLines}

ASSUME FundamentalsAssumption ==
    /\ StatementLines \in Seq(LineNames) /\ TtmOnly \subseteq LineNames
    /\ Profiles \subseteq {"company", "bank", "fund"}
    /\ MaxPublished \in Nat \ {0} /\ MaxFetches \in Nat

Unpublished == 0
Placeholder == -1
Legs == {"details", "series", "dividends", "income"}
Refusals == {"refused", "lost"}
TTM == 0        \* the column of the trailing twelve months; years are from 1

VARIABLES
    profile,    \* what the source publishes of the symbol
    published,  \* the newest quarter, year and payout
    fetch,      \* the run: its legs and what they brought
    verdict,    \* what the run told the source's breaker
    fetches,    \* runs so far
    cells,      \* income_statements: value and position, by column and line
    ratioRow,   \* the newest row of ratios
    payouts     \* dividends stored, by announcement

fundamentalsVars == <<profile, published, fetch, verdict, fetches, cells, ratioRow, payouts>>

NothingRead == [pe |-> Unpublished, book |-> Unpublished, dividends |-> {},
                ttm |-> <<>>, statement |-> <<>>]
NoFetch == [pc |-> "idle", leg |-> [l \in Legs |-> "due"], isin |-> FALSE, read |-> NothingRead]
NoRatios == [pe |-> Unpublished, book |-> Unpublished, dps |-> Unpublished]
Columns == 0..MaxPublished

FundamentalsTypeOK ==
    /\ profile \in Profiles /\ published \in [{"quarter", "year", "payout"} -> 0..MaxPublished]
    /\ fetch.pc \in {"idle", "details", "legs", "persist"}
    /\ fetch.leg \in [Legs -> {"due", "annual", "ok"} \cup Refusals]
    /\ verdict \in {"none", "success", "failure"} /\ fetches \in 0..MaxFetches
    /\ DOMAIN cells \subseteq Columns \X LineNames
    /\ payouts \subseteq 1..MaxPublished

InitFundamentals ==
    /\ profile \in Profiles /\ published = [quarter |-> 1, year |-> 1, payout |-> 0]
    /\ fetch = NoFetch /\ verdict = "none" /\ fetches = 0
    /\ cells = <<>> /\ ratioRow = NoRatios /\ payouts = {}

---------------------------------------------------------------------------
(***************************************************************************)
(* What the source answers, and what is read of it.                        *)
(***************************************************************************)
\* A number, or nothing for what is not one.
asNumber(raw) == IF raw = Placeholder THEN Unpublished ELSE raw

\* The metric table has the P/E of every symbol with earnings.
parseSarmaayaDetails == asNumber(IF profile = "fund" THEN Placeholder ELSE published.quarter)

\* The head of a series; a bank's book value is only in the annual one.
seriesLatest(periodicity) ==
    CASE profile = "company" -> published.quarter
      [] profile = "bank" /\ periodicity = "ANN" -> published.year
      [] OTHER -> Unpublished

\* Payouts with a date and an amount, placeholders left out.
parseSarmaayaDividends ==
    LET history == {[date |-> d, amount |-> d] : d \in 1..published.payout}
                   \cup {[date |-> 0, amount |-> 0]}
    IN {p.date : p \in {h \in history : h.date > 0 /\ h.amount > 0}}

\* The rows of a line in the annual response: the newest year is a number unless the
\* line has none, the older rows are quoted.
annualRows(line) ==
    {[year |-> y, quoted |-> y < published.year \/ line \in TtmOnly,
      value |-> IF y < published.year \/ line \in TtmOnly THEN Placeholder ELSE y]
        : y \in 1..published.year}

\* Deviation: a quoted value is a figure like the others.
takeEveryRow(line) == [y \in {r.year : r \in annualRows(line)} |-> y - published.year]

\* Only numbers are taken.
annualValues(line) == [y \in {r.year : r \in {a \in annualRows(line) : ~a.quoted}} |-> asNumber(y)]

\* Every line keeps its place, with a value for the periodicity or without.
parseSarmaayaIncomeStatement(periodicity) ==
    IF profile = "fund" THEN <<>>
    ELSE [i \in DOMAIN StatementLines |->
            [line |-> StatementLines[i],
             values |-> IF periodicity = "LTM" THEN [c \in {TTM} |-> published.quarter]
                        ELSE annualValues(StatementLines[i])]]

\* What f has, and what only g has.
laidOver(f, g) == [x \in DOMAIN f \cup DOMAIN g |-> IF x \in DOMAIN f THEN f[x] ELSE g[x]]

\* The lines of the annual response, then those only the other has; the values of both.
mergeIncomeStatements(ltm, ann) ==
    LET has(s, line) == \E i \in DOMAIN s : s[i].line = line
        of(s, line) == IF has(s, line) THEN (CHOOSE i \in DOMAIN s : s[i].line = line) ELSE 0
        values(s, line) == IF has(s, line) THEN s[of(s, line)].values ELSE <<>>
        only == {i \in DOMAIN ltm : ~has(ann, ltm[i].line)}
        nth(n) == CHOOSE i \in only : Cardinality({j \in only : j <= i}) = n
        order == ann \o [n \in 1..Cardinality(only) |-> ltm[nth(n)]]
    IN [i \in DOMAIN order |->
          [line |-> order[i].line, values |-> laidOver(values(ltm, order[i].line), values(ann, order[i].line))]]

---------------------------------------------------------------------------
(***************************************************************************)
(* The run.                                                                *)
(***************************************************************************)
beginFetch ==
    /\ fetch.pc = "idle" /\ fetches < MaxFetches /\ fetches' = fetches + 1
    /\ fetch' = [NoFetch EXCEPT !.pc = "details"]
    /\ UNCHANGED <<profile, published, verdict, cells, ratioRow, payouts>>

\* Without the table there is no ISIN, and the legs that need it fail unasked: a
\* failure with no status, so they count as lost.
fetchDetails(answer) ==
    /\ fetch.pc = "details"
    /\ fetch' = IF answer = "ok"
         THEN [fetch EXCEPT !.pc = "legs", !.isin = TRUE, !.leg["details"] = "ok",
                            !.read.pe = parseSarmaayaDetails]
         ELSE [fetch EXCEPT !.pc = "legs", !.leg = [@ EXCEPT !["details"] = answer,
                                                !["series"] = "lost", !["income"] = "lost"]]
    /\ UNCHANGED <<profile, published, verdict, fetches, cells, ratioRow, payouts>>

inLegs(l) ==
    /\ fetch.pc = "legs" /\ fetch.leg[l] \in {"due", "annual"}
    /\ UNCHANGED <<profile, published, verdict, fetches, cells, ratioRow, payouts>>

\* The annual series is asked only where the current one has no book value.
fetchSeries(answer) ==
    /\ inLegs("series")
    /\ LET first == fetch.leg["series"] = "due"
           book == seriesLatest(IF first THEN "LTM" ELSE "ANN")
       IN fetch' = IF answer # "ok" THEN [fetch EXCEPT !.leg["series"] = answer]
                   ELSE [fetch EXCEPT !.read.book = book,
                            !.leg["series"] = IF first /\ book = Unpublished THEN "annual" ELSE "ok"]

fetchDividends(answer) ==
    /\ inLegs("dividends")
    /\ fetch' = [fetch EXCEPT !.leg["dividends"] = answer,
                    !.read.dividends = IF answer = "ok" THEN parseSarmaayaDividends ELSE @]

\* Both periodicities, one after the other; a failure of either fails the leg.
fetchIncome(answer) ==
    /\ inLegs("income")
    /\ fetch' = CASE answer # "ok" -> [fetch EXCEPT !.leg["income"] = answer]
                  [] answer = "ok" /\ fetch.leg["income"] = "due" ->
                        [fetch EXCEPT !.leg["income"] = "annual",
                                      !.read.ttm = parseSarmaayaIncomeStatement("LTM")]
                  [] OTHER ->
                        [fetch EXCEPT !.leg["income"] = "ok", !.read.statement =
                            mergeIncomeStatements(fetch.read.ttm, parseSarmaayaIncomeStatement("ANN"))]

failed == {l \in Legs : fetch.leg[l] \in Refusals}
producedSomething ==
    \/ fetch.read.pe # Unpublished \/ fetch.read.book # Unpublished
    \/ fetch.read.dividends # {} \/ fetch.read.statement # <<>>

\* The breaker hears of a failure when every leg failed, or when one was lost and the
\* run brought nothing.  A run that failed leaves the other providers' figures to store.
concludeFetch ==
    /\ fetch.pc = "legs" /\ \A l \in Legs : fetch.leg[l] \in {"ok"} \cup Refusals
    /\ verdict' = IF failed = Legs \/ ((\E l \in failed : fetch.leg[l] = "lost") /\ ~producedSomething)
                  THEN "failure" ELSE "success"
    /\ fetch' = [fetch EXCEPT !.pc = "persist"]
    /\ UNCHANGED <<profile, published, fetches, cells, ratioRow, payouts>>

---------------------------------------------------------------------------
(***************************************************************************)
(* What is stored.                                                         *)
(***************************************************************************)
firstPublished(a, b) == IF a # Unpublished THEN a ELSE b

\* Field by field, this leg before the page, whose block states a P/E or nothing.
mergeRatios(pagePe) ==
    [pe |-> firstPublished(fetch.read.pe, pagePe), book |-> fetch.read.book,
     dps |-> IF fetch.read.dividends = {} THEN Unpublished ELSE Max(fetch.read.dividends)]

\* One row a column and line, with the line's place in this run's statement.
upsertStatement ==
    LET s == fetch.read.statement
        stated == UNION {{<<c, i>> : c \in DOMAIN s[i].values} : i \in DOMAIN s}
        row(k) == LET i == CHOOSE j \in DOMAIN s : s[j].line = k[2]
                  IN [value |-> s[i].values[k[1]], position |-> i]
    IN laidOver([k \in {<<p[1], s[p[2]].line>> : p \in stated} |-> row(k)], cells)

\* A row of ratios with nothing in it is not written.
storeFundamentals(pagePe) ==
    /\ fetch.pc = "persist" /\ fetch' = NoFetch
    /\ cells' = upsertStatement
    /\ ratioRow' = IF mergeRatios(pagePe) = NoRatios THEN ratioRow ELSE mergeRatios(pagePe)
    /\ payouts' = payouts \cup fetch.read.dividends
    /\ UNCHANGED <<profile, published, verdict, fetches>>

\* The statement served: the trailing column first, then years from the newest; lines
\* by the lowest place one of their rows has.
placeOf(line) == Min({cells[k].position : k \in {c \in DOMAIN cells : c[2] = line}})

buildIncomeStatement ==
    LET columns == {k[1] : k \in DOMAIN cells}
    IN [columns |-> columns, places |-> [l \in {k[2] : k \in DOMAIN cells} |-> placeOf(l)]]

Publish ==
    /\ \E f \in DOMAIN published : published[f] < MaxPublished /\ published' = [published EXCEPT ![f] = @ + 1]
    /\ UNCHANGED <<profile, fetch, verdict, fetches, cells, ratioRow, payouts>>

NextFundamentals ==
    \/ beginFetch \/ concludeFetch \/ Publish
    \/ \E answer \in {"ok"} \cup Refusals :
          fetchDetails(answer) \/ fetchSeries(answer) \/ fetchDividends(answer) \/ fetchIncome(answer)
    \/ \E pagePe \in {Unpublished, published.quarter} : storeFundamentals(pagePe)

FundamentalsSpec == InitFundamentals /\ [][NextFundamentals]_fundamentalsVars

---------------------------------------------------------------------------
\* The statement served is the company's, whatever requests failed and whatever the
\* source published between them: a year's figure is the one published as that
\* year's and never a placeholder, no later read changes it, the trailing column is
\* of a quarter that was, and the lines stand in the source's order, those included
\* that only one of the responses has figures for.
StatementIsTheCompanys ==
    LET served == buildIncomeStatement
        rank(l) == CHOOSE i \in DOMAIN StatementLines : StatementLines[i] = l
    IN /\ \A k \in DOMAIN cells :
             IF k[1] = TTM THEN cells[k].value \in 1..published.quarter
             ELSE cells[k].value = k[1] /\ k[2] \notin TtmOnly
       /\ \A l, m \in DOMAIN served.places : rank(l) < rank(m) => served.places[l] < served.places[m]

=============================================================================
