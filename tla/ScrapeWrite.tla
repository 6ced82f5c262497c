---------------------------- MODULE ScrapeWrite ----------------------------
(***************************************************************************)
(* What a page sync stores of one symbol.  The providers' answers are      *)
(* merged, the price block is verified, one transaction writes what is     *)
(* left, and the beta measured from the history lands on the newest ratio  *)
(* row an await later.  Several syncs are in flight, and the quote poll    *)
(* writes the same price rows.  Which session a reading belongs to, and    *)
(* the check against the close before it, are the price rows' own matter.  *)
(***************************************************************************)
EXTENDS Integers, FiniteSets

CONSTANTS
    Sessions,       \* sessions a price row may be of
    Prices,         \* prices a provider may state
    Lows, Highs,    \* ends of a 52-week range a provider may state
    Writers,        \* syncs that can be in flight
    MaxSyncs        \* bound on syncs

ASSUME WriteAssumption ==
    /\ Prices \cup Lows \cup Highs \subseteq Nat \ {0} /\ MaxSyncs \in Nat

Null == 0                       \* a field nobody stated, an SQL null
NoRow == [price |-> Null, low |-> Null, high |-> Null]
Blocks == [price : Prices \cup {Null}, low : Lows \cup {Null}, high : Highs \cup {Null}]
RatioFields == {"eps", "beta"}

VARIABLES
    row,        \* stock_prices, by session
    ratio,      \* the fields the newest row of ratios states, {} also for no row
    financials, \* rows of financials: the sync that created each, and its quarter
    task,       \* what each sync is at
    started,    \* syncs so far
    judged      \* history: the ranges verification accepted

writeVars == <<row, ratio, financials, task, started, judged>>

Done == [pc |-> "idle"]

WriteTypeOK ==
    /\ row \in [Sessions -> Blocks] /\ ratio \subseteq RatioFields
    /\ financials \subseteq [by : 1..MaxSyncs, quarter : {Null}]
    /\ started \in 0..MaxSyncs
    /\ \A w \in Writers : task[w].pc \in {"idle", "write", "beta"}

InitWrite ==
    /\ row = [s \in Sessions |-> NoRow]
    /\ ratio = {} /\ financials = {} /\ started = 0 /\ judged = {}
    /\ task = [w \in Writers |-> Done]

---------------------------------------------------------------------------
(***************************************************************************)
(* Merging and verifying.                                                  *)
(***************************************************************************)
pick(first, second) == IF first # Null THEN first ELSE second

\* The price is of one provider, the exchange if it has a block; the range is filled
\* field by field from both.  (A block that is there and empty ends in no write, as
\* two providers without a price do.)
mergePrice(psx, sarmaaya) ==
    [price |-> IF psx = NoRow THEN sarmaaya.price ELSE psx.price,
     low |-> pick(psx.low, sarmaaya.low), high |-> pick(psx.high, sarmaaya.high)]

\* The range is judged as a pair: it is dropped whole unless it brackets the price.
\* (By a tolerance, which the model leaves out.)
verifyQuote(q) ==
    IF q.low # Null /\ q.high # Null /\ q.low < q.high /\ q.price \in q.low..q.high
    THEN q ELSE [q EXCEPT !.low = Null, !.high = Null]

---------------------------------------------------------------------------
\* Both page scrapers may answer, or one, or only with half of it; the ratio block
\* is what any source states, and Sarmaaya's page gives the year's EPS.  A sync
\* without a usable price writes nothing.
scrapeAndVerify(w) ==
    /\ task[w] = Done /\ started < MaxSyncs /\ started' = started + 1
    /\ \E s \in Sessions, psx, sarmaaya \in Blocks, stated \in SUBSET RatioFields :
          LET q == verifyQuote(mergePrice(psx, sarmaaya))
          IN /\ task' = [task EXCEPT ![w] =
                   IF q.price = Null THEN Done
                   ELSE [pc |-> "write", session |-> s, quote |-> q, stated |-> stated,
                         annual |-> sarmaaya # NoRow, by |-> started + 1]]
             /\ judged' = IF q.price = Null THEN judged ELSE judged \cup {<<q.low, q.high>>}
    /\ UNCHANGED <<row, ratio, financials>>

\* An absent range leaves the stored one alone; a new row has none.
upsertPrice(old, q) ==
    [price |-> q.price, low |-> pick(q.low, old.low), high |-> pick(q.high, old.high)]

\* The row of the year is looked up under quarter 0, and created under none.
upsertFinancial(by) ==
    IF \E f \in financials : f.quarter # Null THEN financials
    ELSE financials \cup {[by |-> by, quarter |-> Null]}

\* One transaction.  A ratio row with nothing in it is not created.
persistScrapeResult(w) ==
    LET t == task[w]
    IN /\ t.pc = "write"
       /\ row' = [row EXCEPT ![t.session] = upsertPrice(@, t.quote)]
       /\ ratio' = IF t.stated = {} THEN ratio ELSE t.stated
       /\ financials' = IF t.annual THEN upsertFinancial(t.by) ELSE financials
       /\ task' = [task EXCEPT ![w] = [pc |-> "beta"]]
       /\ UNCHANGED <<started, judged>>

\* Best effort, onto the newest row, as a null too; a beta alone makes a row.
refreshBeta(w) ==
    /\ task[w].pc = "beta"
    /\ \/ ratio' = ratio \cup {"beta"}
       \/ ratio' = ratio \ {"beta"}
       \/ UNCHANGED ratio
    /\ task' = [task EXCEPT ![w] = Done]
    /\ UNCHANGED <<row, financials, started, judged>>

\* The quote poll states no range.
PollWrites ==
    /\ \E s \in Sessions, p \in Prices : row' = [row EXCEPT ![s].price = p]
    /\ UNCHANGED <<ratio, financials, task, started, judged>>

NextWrite ==
    \/ \E w \in Writers : scrapeAndVerify(w) \/ persistScrapeResult(w) \/ refreshBeta(w)
    \/ PollWrites

WriteSpec == InitWrite /\ [][NextWrite]_writeVars

---------------------------------------------------------------------------
(***************************************************************************)
(* What is stored.                                                         *)
(***************************************************************************)

\* A stored 52-week range is one that verification accepted, both ends of it
\* together: providers that fill each other's gaps, runs that read half of it and
\* two syncs that write the same row leave no mixture.
RangeIsOnePair ==
    \A s \in Sessions : LET r == row[s] IN
        r.low # Null \/ r.high # Null => <<r.low, r.high>> \in judged /\ r.low < r.high

=============================================================================
