---------------------------- MODULE MCBackground ----------------------------
(***************************************************************************)
(* One small instance of each module about the work beside the scrapers:   *)
(* the repeatable jobs, the corporate actions, the market caps, a sync's   *)
(* transaction, the backfills, the notices, the write-ups, the desk of a   *)
(* queue and the page it is run from.  A behaviour is one of them; the     *)
(* other modules' variables keep one initial value.                        *)
(***************************************************************************)
EXTENDS Scheduler, CorporateActions, MarketCap, ScrapeWrite, Backfill, CompanyRecords, SyncDesk

VARIABLE part

Parts == {"schedule", "actions", "caps", "write", "backfill", "notices", "profiles", "queue", "desk"}

allVars == <<part, schedulerVars, actionVars, capVars, writeVars, backfillVars, announcementVars, profileVars, deskVars,
             syncDeskVars>>

\* Bars without an open or a close, and a session twice.
Bar(d, o, c) == [day |-> d, open |-> o, close |-> c]
YahooBars == {<<>>, <<Bar(1, 1, 2), Bar(2, Missing, 1)>>, <<Bar(1, 2, 1), Bar(2, 2, Missing)>>,
              <<Bar(1, Missing, 1), Bar(2, 1, 1), Bar(2, 2, 2)>>}

\* Nothing, a price that cannot be read, a day twice, a volume missing.
PriceOn(d, p) == [day |-> d, price |-> p]
VolumeOn(d, v) == [day |-> d, volume |-> v]
SarmaayaSeries ==
    {[prices |-> <<>>, volumes |-> <<>>],
     [prices |-> <<PriceOn(1, Missing)>>, volumes |-> <<VolumeOn(1, 1)>>],
     [prices |-> <<PriceOn(2, 1), PriceOn(1, 2), PriceOn(1, 1)>>,
      volumes |-> <<VolumeOn(1, 1), VolumeOn(1, 2)>>],
     [prices |-> <<PriceOn(2, 2), PriceOn(1, Missing)>>, volumes |-> <<VolumeOn(2, Missing)>>]}

\* A headline corrected under its id and without one, a notice twice, one of the market.
Item(id, symbol, title, wording) ==
    [id |-> id, symbol |-> symbol, title |-> title, day |-> 1, wording |-> wording]
NoticePages ==
    {<<Item(1, "HBL", 1, {"DIVIDEND", "BOARD_MEETING"}), Item(0, "OGDC", 1, {}),
       Item(2, "-", 2, {"RESULTS"})>>,
     <<Item(1, "HBL", 2, {"BOARD_MEETING"}), Item(0, "OGDC", 1, {"CORPORATE_ACTION"}),
       Item(0, "OGDC", 2, {})>>,
     <<Item(1, "HBL", 1, {}), Item(1, "HBL", 3, {}), Item(3, "OGDC", 1, {})>>}

\* A product dropped, a write-up changed, an image without its source.
Product(name, given) == [name |-> name, given |-> given]
File(symbol, text, products) == [symbol |-> symbol, text |-> text, products |-> products]
Folders ==
    {<<File("HBL", 1, <<Product(1, {"path", "source", "licence"}), Product(2, {})>>),
       File("OGDC", 2, <<>>)>>,
     <<File("HBL", 3, <<Product(2, {"path", "source", "licence"})>>),
       File("OGDC", 4, <<Product(1, {"path"})>>)>>}

NoDesk ==
    /\ queue = {} /\ dead = {} /\ fanouts = 0 /\ toEnqueue = {} /\ stores = 0 /\ runs = 0 /\ board = Away
    /\ statusData = NoData /\ statusAsk = Idle /\ stocksData = -1 /\ stocksAsk = Idle
    /\ syncAll = "idle" /\ clearing = "idle" /\ due = 0 /\ rid = {}

Init ==
    /\ part \in Parts
    /\ InitScheduler
    /\ part # "schedule" =>
          /\ job = "sync-all"
          /\ boot[CHOOSE w \in Workers : TRUE].env = CHOOSE env \in Settings : TRUE
    /\ InitActions
    /\ part # "actions" =>
          /\ known = {} /\ stepsAt = Never
          /\ \A c \in Closures : exDateFor(c, Holidays) \in Dates \ {0} => closure <= c
    /\ InitCaps /\ InitWrite
    /\ InitBackfill /\ InitAnnouncements /\ InitProfiles /\ InitDesk
    /\ IF part = "desk" THEN InitSyncDesk ELSE NoDesk
    /\ part # "backfill" => \A d \in BarDays : rows[d] = NoBarRow
    /\ part # "profiles" => companies = WrittenUp /\ folder = CHOOSE f \in Releases : TRUE

\* The behaviour is about p: the other modules stand still.
Only(p) ==
    /\ part = p /\ UNCHANGED part
    /\ IF p = "schedule" THEN TRUE ELSE UNCHANGED schedulerVars
    /\ IF p = "actions" THEN TRUE ELSE UNCHANGED actionVars
    /\ IF p = "caps" THEN TRUE ELSE UNCHANGED capVars
    /\ IF p = "write" THEN TRUE ELSE UNCHANGED writeVars
    /\ IF p = "backfill" THEN TRUE ELSE UNCHANGED backfillVars
    /\ IF p = "notices" THEN TRUE ELSE UNCHANGED announcementVars
    /\ IF p = "profiles" THEN TRUE ELSE UNCHANGED profileVars
    /\ IF p = "queue" THEN TRUE ELSE UNCHANGED deskVars
    /\ IF p = "desk" THEN TRUE ELSE UNCHANGED syncDeskVars

Next ==
    \/ Only("schedule") /\ NextScheduler
    \/ Only("actions") /\ NextActions
    \/ Only("caps") /\ NextCaps
    \/ Only("write") /\ NextWrite
    \/ Only("backfill") /\ NextBackfill
    \/ Only("notices") /\ NextAnnouncements
    \/ Only("profiles") /\ NextProfiles
    \/ Only("queue") /\ NextDesk
    \/ Only("desk") /\ NextSyncDesk

---------------------------------------------------------------------------
\* A pass over the register takes its next step or dies, and there is a next pass,
\* the daily job's.
Spec == Init /\ [][Next]_allVars /\ WF_allVars(Only("actions") /\ PassSteps)

\* The type invariants of all of them.
TypeOK ==
    /\ SchedulerTypeOK /\ ActionsTypeOK /\ CapsTypeOK /\ WriteTypeOK /\ BackfillTypeOK /\ AnnouncementsTypeOK /\ ProfilesTypeOK
    /\ DeskTypeOK /\ SyncDeskTypeOK

\* Of the sources that are read again: a reading, a death and another reading leave what
\* was held, fill what was missing, and store each thing once.
RereadsAreHarmless ==
    /\ part = "backfill" => GapsAreFilledOnce
    /\ part = "notices" => ArchiveIsTheSources
    /\ part = "profiles" => WriteUpsAreWhole

\* Of a queue and the page it is run from: the list of failures is of the failed jobs, and
\* what the page says is so.
QueuePageHolds ==
    /\ part = "queue" => FailuresAreCounted
    /\ part = "desk" => RefreshShowsIt

=============================================================================
