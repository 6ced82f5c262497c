----------------------------- MODULE IndexPages -----------------------------
(***************************************************************************)
(* What is served of an index: its summary, its daily history and its      *)
(* candles, read from the day rows and the live reading the board writes,  *)
(* and the volume summed up from its members, which is kept in memory for  *)
(* thirty seconds under a key of its own for the list of indices and for   *)
(* one index.                                                              *)
(*                                                                         *)
(* A day has four moments: before the session, in it, the stamp every day  *)
(* row carries, and after it.  Instants are 4 * day + moment.              *)
(***************************************************************************)
EXTENDS Integers, FiniteSets, Sequences, SequencesExt, FiniteSetsExt

CONSTANTS
    FinalIndexDay,
    NoSessionOn,    \* days without a session, on which the board may be read all the same
    IndexLevels,    \* levels the board gives
    PublishedMoves, \* changes it may state, NotStated for none
    IndexMembers,
    MemberVolumes,  \* volumes a member's day may have
    MaxIndexWrites

NotStated == -99
MemoKeys == {"all", "one"}

ASSUME IndexPagesAssumption ==
    /\ FinalIndexDay \in Nat \ {0} /\ IndexLevels \subseteq Nat \ {0} /\ MaxIndexWrites \in Nat
    /\ MemberVolumes \subseteq Nat /\ NoSessionOn \subseteq Int

VARIABLES
    instant,        \* now
    dayRows,        \* the index's row of each session stored
    live,           \* the newest live reading
    volumeOf,       \* what each member's row of a day says of its volume
    volumeCache,    \* by key: the sum, how many writes it has seen, and its age
    indexWrites

indexPageVars == <<instant, dayRows, live, volumeOf, volumeCache, indexWrites>>

dayOf(at) == at \div 4
rowStamp(day) == 4 * day + 2
IndexToday == dayOf(instant)

IndexPagesTypeOK ==
    /\ instant \in 0..(4 * FinalIndexDay + 3) /\ DOMAIN dayRows \subseteq 0..FinalIndexDay
    /\ live.at \in {NotStated} \cup 0..instant /\ DOMAIN volumeOf = IndexMembers \X (0..FinalIndexDay)
    /\ DOMAIN volumeCache \subseteq MemoKeys /\ indexWrites \in 0..MaxIndexWrites

NoReading == [at |-> NotStated, value |-> NotStated, change |-> NotStated]

\* The last session is stored with the volume its exchange published; the members' rows of
\* it may be all there or one short.
InitIndexPages ==
    /\ instant = 4 /\ live = NoReading /\ volumeCache = <<>> /\ indexWrites = 0
    /\ \E v \in IndexLevels, total \in {NotStated, 2, 3} :
          dayRows = (0 :> [value |-> v, open |-> NotStated, volume |-> total])
    /\ \E short \in {NotStated, 1} :
          volumeOf = [p \in IndexMembers \X (0..FinalIndexDay) |->
                        IF p[2] # 0 THEN NotStated
                        ELSE IF p[1] = (CHOOSE m \in IndexMembers : TRUE) THEN short ELSE 1]

---------------------------------------------------------------------------
(***************************************************************************)
(* The summary.                                                            *)
(***************************************************************************)
\* The newest rows first; the summary is given two.
listValues == [i \in 1..Cardinality(DOMAIN dayRows) |->
    CHOOSE d \in DOMAIN dayRows : Cardinality({e \in DOMAIN dayRows : e >= d}) = i]
latestValues == SubSeq(listValues, 1, Min({2, Len(listValues)}))

\* The live reading is the value only if it is later than the stamp of the newest row.
useLive == live.at # NotStated /\ (latestValues = <<>> \/ live.at > rowStamp(latestValues[1]))

valueDay == IF useLive THEN dayOf(live.at) ELSE IF latestValues = <<>> THEN NotStated ELSE latestValues[1]
value == IF useLive THEN live.value ELSE IF latestValues = <<>> THEN NotStated ELSE dayRows[latestValues[1]].value

\* The rows of the days before the value's.
rowsBeforeValue == SelectSeq(latestValues, LAMBDA d : d < valueDay)
previousClose == IF rowsBeforeValue = <<>> THEN NotStated ELSE dayRows[rowsBeforeValue[1]].value

derivedChange == IF NotStated \in {value, previousClose} THEN NotStated ELSE value - previousClose

\* As published with the live reading that is shown, derived otherwise.
shownChange == IF useLive /\ live.change # NotStated THEN live.change ELSE derivedChange

\* Of the row of the value's day, or else of the newest row.
rowFigure(figure) ==
    LET own == SelectSeq(latestValues, LAMBDA d : d = valueDay)
    IN IF own # <<>> /\ dayRows[own[1]][figure] # NotStated THEN dayRows[own[1]][figure]
       ELSE IF latestValues = <<>> THEN NotStated ELSE dayRows[latestValues[1]][figure]

---------------------------------------------------------------------------
(***************************************************************************)
(* The volume of the members.                                              *)
(***************************************************************************)
\* The newest session, and the newest day whose volume the exchange published.
constituentVolumeScopes ==
    LET published == {d \in DOMAIN dayRows : dayRows[d].volume # NotStated}
    IN [session |-> IF DOMAIN dayRows = {} THEN NotStated ELSE Max(DOMAIN dayRows),
        checkDay |-> IF published = {} THEN NotStated ELSE Max(published),
        published |-> IF published = {} THEN NotStated ELSE dayRows[Max(published)].volume]

\* A member's newest row of a day counts once; one without a volume adds nothing.  None: nobody has a row.
constituentVolumeSums(day) ==
    LET counted == {m \in IndexMembers : volumeOf[<<m, day>>] # NotStated}
    IN IF day = NotStated \/ counted = {} THEN NotStated
       ELSE MapThenSumSet(LAMBDA m : volumeOf[<<m, day>>], counted)

\* Shown only if the same sum met the exchange's own figure on the day both are known.
derivedIndexVolume(sum, published, check) ==
    IF NotStated \in {sum, published, check} \/ check # published THEN NotStated ELSE sum

computeDerivedVolumes ==
    LET scope == constituentVolumeScopes
    IN derivedIndexVolume(constituentVolumeSums(scope.session), scope.published,
                          constituentVolumeSums(scope.checkDay))

\* A page asks: what is kept is served while it is young, and put together otherwise.
derivedVolumes(key) ==
    /\ volumeCache' = IF key \in DOMAIN volumeCache THEN volumeCache
                      ELSE (key :> [volume |-> computeDerivedVolumes, seen |-> indexWrites]) @@ volumeCache
    /\ UNCHANGED <<instant, dayRows, live, volumeOf, indexWrites>>

\* Thirty seconds: what was kept has gone stale, of one key or of both.
MemoExpires ==
    /\ \E keys \in SUBSET DOMAIN volumeCache :
          keys # {} /\ volumeCache' = [k \in DOMAIN volumeCache \ keys |-> volumeCache[k]]
    /\ UNCHANGED <<instant, dayRows, live, volumeOf, indexWrites>>

---------------------------------------------------------------------------
(***************************************************************************)
(* History and candles.                                                    *)
(***************************************************************************)
historyPage(from, page, limit) ==
    LET rows == SelectSeq(listValues, LAMBDA d : d >= from)
    IN [total |-> Len(rows), items |-> SubSeq(rows, (page - 1) * limit + 1, Min({page * limit, Len(rows)}))]

\* One bar per day, oldest first; a row's bar has its value as the close, and no high or low.
toIndexCandles(from) ==
    [i \in 1..historyPage(from, 1, Len(listValues)).total |->
        LET days == Reverse(historyPage(from, 1, Len(listValues)).items)
        IN [time |-> days[i], close |-> dayRows[days[i]].value, open |-> dayRows[days[i]].open]]

\* The windows of the returns: the last close a year back, the first of the year.
valueAtOrBefore(day) ==
    LET rows == {d \in DOMAIN dayRows : d <= day} IN IF rows = {} THEN NotStated ELSE dayRows[Max(rows)].value
valueAtOrAfter(day) ==
    LET rows == {d \in DOMAIN dayRows : d >= day} IN IF rows = {} THEN NotStated ELSE dayRows[Min(rows)].value
returnOver(base) == IF base \in {NotStated, 0} \/ value = NotStated THEN NotStated ELSE ((value - base) * 100) \div base

---------------------------------------------------------------------------
(***************************************************************************)
(* What is written behind the pages.                                       *)
(***************************************************************************)
IndexWrite == indexWrites < MaxIndexWrites /\ indexWrites' = indexWrites + 1

\* A pass of the board, inside the session's hours: the live reading, and the day's row
\* unless the reading is refused or the day has no session.
BoardPass ==
    /\ IndexWrite /\ instant % 4 \in {1, 3}
    /\ \E v \in IndexLevels, moved \in PublishedMoves, total \in {NotStated, 2}, refused \in BOOLEAN :
          /\ live' = [at |-> instant, value |-> v, change |-> moved]
          /\ dayRows' = IF refused \/ IndexToday \in NoSessionOn THEN dayRows
                        ELSE LET old == IF IndexToday \in DOMAIN dayRows THEN dayRows[IndexToday]
                                        ELSE [value |-> v, open |-> NotStated, volume |-> NotStated]
                             IN (IndexToday :> [value |-> v,
                                            open |-> IF old.open = NotStated /\ instant % 4 = 1 THEN v ELSE old.open,
                                            volume |-> IF total = NotStated THEN old.volume ELSE total]) @@ dayRows
    /\ UNCHANGED <<instant, volumeOf, volumeCache>>

\* A member's sync writes its row of today.
MemberSynced ==
    /\ IndexWrite /\ IndexToday \notin NoSessionOn
    /\ \E m \in IndexMembers, v \in MemberVolumes : volumeOf' = [volumeOf EXCEPT ![<<m, IndexToday>>] = v]
    /\ UNCHANGED <<instant, dayRows, live, volumeCache>>

\* Time passes; the memory, which is younger than a moment, is gone.
MomentPasses ==
    /\ instant < 4 * FinalIndexDay + 3 /\ instant' = instant + 1 /\ volumeCache' = <<>>
    /\ UNCHANGED <<dayRows, live, volumeOf, indexWrites>>

NextIndexPages ==
    \/ \E key \in MemoKeys : derivedVolumes(key)
    \/ MemoExpires \/ BoardPass \/ MemberSynced \/ MomentPasses

---------------------------------------------------------------------------
\* The figures of a summary belong together.  The previous close is the newest stored one of
\* a day before the value's, among all rows and not the two that were read; a change is the
\* difference of the two unless the reading shown came with its own; what is kept in memory
\* is what the members add up to as long as nothing was written since; and the candles and
\* the pages of the history hold each session once.
SummaryIsOfItsDay ==
    LET before == {d \in DOMAIN dayRows : d < valueDay}
        fresh(key) == key \in DOMAIN volumeCache /\ volumeCache[key].seen = indexWrites
    IN /\ value # NotStated =>
            /\ IF before = {} THEN previousClose = NotStated ELSE previousClose = dayRows[Max(before)].value
            /\ shownChange \in {NotStated, value - previousClose} \/ (value = live.value /\ shownChange = live.change)
       /\ \A key \in MemoKeys : fresh(key) => volumeCache[key].volume = computeDerivedVolumes
       /\ \A limit \in {1, 2} :
            LET pages == [p \in 1..Len(listValues) |-> historyPage(0, p, limit).items]
            IN FlattenSeq(pages) = listValues
       /\ \A i, j \in DOMAIN toIndexCandles(0) : i < j => toIndexCandles(0)[i].time < toIndexCandles(0)[j].time

=============================================================================
