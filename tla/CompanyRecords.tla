---------------------------- MODULE CompanyRecords ----------------------------
(***************************************************************************)
(* The committed write-ups of companies, loaded into the database by the   *)
(* weekly job and by the command, which may overlap; the job fails when a  *)
(* file does and is tried again.  Deploys change the folder, symbols come  *)
(* and go, a loader may die at any file.                                   *)
(*                                                                         *)
(* A write-up is its text and its products; a product is its name and      *)
(* which of the image, its source and its licence are given.               *)
(*                                                                         *)
(* The archive of notices about the same companies is below it.            *)
(***************************************************************************)
EXTENDS Integers, Sequences, FiniteSets

CONSTANTS
    WrittenUp,      \* the symbols written about
    Releases,     \* the folders deploys bring: sequences of files
    Loaders,      \* the weekly job and the command
    JobAttempts,  \* attempts: 2 of the job
    MaxLoads      \* bound on the loads, deploys and changes of the register

Products == [name : Nat, given : SUBSET {"path", "source", "licence"}]
WriteUps == [symbol : WrittenUp, text : Nat \ {0}, products : Seq(Products)]

\* A folder holds one file of a symbol, <SYMBOL>.json.
ASSUME ProfileAssumption ==
    /\ JobAttempts \in Nat \ {0} /\ MaxLoads \in Nat /\ "job" \in Loaders
    /\ Releases \subseteq Seq(WriteUps)
    /\ \A files \in Releases : \A i, j \in DOMAIN files :
          files[i].symbol = files[j].symbol => i = j

VARIABLES
    companies,   \* the symbols tracked
    profiles,    \* the profile of each, or none
    folder,      \* the folder deployed
    loader,      \* per loader: the folder it reads, the file it is at, the tracked
                 \* symbol it has found for it, the files that failed, what it skipped,
                 \* and the symbols others have written or changed since it began
    loads        \* loads, deploys and changes begun

profileVars == <<companies, profiles, folder, loader, loads>>

NoProfile == [text |-> 0, products |-> <<>>]
Begun(how, files, attempt) ==
    [at |-> how, folder |-> files, next |-> 1, failed |-> {}, skipped |-> {},
     attempt |-> attempt, touched |-> {}]
NoLoad == Begun("idle", <<>>, 1)
FilesOf(files) == {files[i] : i \in DOMAIN files}

ProfilesTypeOK ==
    /\ companies \in SUBSET WrittenUp
    /\ \A s \in WrittenUp : profiles[s].products \in Seq(Products)
    /\ folder \in Releases /\ loads \in 0..MaxLoads
    /\ \A l \in Loaders : loader[l].at \in {"idle", "file", "found", "done", "failed"}

InitProfiles ==
    /\ companies \in {WrittenUp, WrittenUp \ {CHOOSE s \in WrittenUp : TRUE}}
    /\ profiles = [s \in WrittenUp |-> NoProfile] /\ folder \in Releases
    /\ loader = [l \in Loaders |-> NoLoad] /\ loads = 0

Bound == loads < MaxLoads /\ loads' = loads + 1

---------------------------------------------------------------------------
\* An image ships with its source and its licence, or not at all.
productSchema(product) == product.given \in {{}, {"path", "source", "licence"}}

profileSchema(file) == \A i \in DOMAIN file.products : productSchema(file.products[i])

\* What the page is given of a product: its image when it can be attributed.
toWireProduct(product) ==
    [name |-> product.name, image |-> product.given = {"path", "source", "licence"}]

\* The three answers: of a symbol that is not tracked, without a profile, its profile.
getCompanyProfile(s) ==
    IF s \notin companies THEN "404"
    ELSE IF profiles[s] = NoProfile THEN "null" ELSE "profile"

Stored(file) == [text |-> file.text, products |-> file.products]

Here(l) == loader[l].folder[loader[l].next]

\* syncCompanyProfiles reads its folder.
Load(l) ==
    /\ loader[l].at \in {"idle", "done"} /\ Bound
    /\ loader' = [loader EXCEPT ![l] = Begun("file", folder, 1)]
    /\ UNCHANGED <<companies, profiles, folder>>

\* The next file: one that does not parse is noted, a symbol that is not tracked is
\* reported and never made.
ReadFile(l) ==
    /\ loader[l].at = "file" /\ loader[l].next <= Len(loader[l].folder)
    /\ LET file == Here(l) IN
       \/ /\ ~profileSchema(file)
          /\ loader' = [loader EXCEPT ![l].failed = @ \cup {file}, ![l].next = @ + 1]
       \/ /\ profileSchema(file) /\ file.symbol \notin companies
          /\ loader' = [loader EXCEPT ![l].skipped = @ \cup {file.symbol}, ![l].next = @ + 1]
       \/ /\ profileSchema(file) /\ file.symbol \in companies
          /\ loader' = [loader EXCEPT ![l].at = "found"]
    /\ UNCHANGED <<companies, profiles, folder, loads>>

\* Its transaction: the profile, and the products replaced as a whole.  It fails when
\* the stock is gone by then.
WriteProfile(l) ==
    /\ loader[l].at = "found"
    /\ LET file == Here(l) IN
       IF file.symbol \in companies
       THEN /\ profiles' = [profiles EXCEPT
                  ![file.symbol] = Stored(file)]
            /\ loader' = [o \in Loaders |->
                  IF o = l THEN [loader[l] EXCEPT !.at = "file", !.next = @ + 1]
                  ELSE [loader[o] EXCEPT !.touched = @ \cup {file.symbol}]]
       ELSE /\ profiles' = profiles
            /\ loader' = [loader EXCEPT ![l].at = "file", ![l].next = @ + 1,
                                        ![l].failed = @ \cup {file}]
    /\ UNCHANGED <<companies, folder, loads>>

\* The database refuses the transaction: nothing of it is written.
RefuseProfile(l) ==
    /\ loader[l].at = "found"
    /\ loader' = [loader EXCEPT ![l].at = "file", ![l].next = @ + 1,
                                ![l].failed = @ \cup {Here(l)}]
    /\ UNCHANGED <<companies, profiles, folder, loads>>

\* The end: a job with a failed file throws, after the good ones are written, and is
\* tried once more; the command says so and stops.
FinishLoad(l) ==
    /\ loader[l].at = "file" /\ loader[l].next > Len(loader[l].folder)
    /\ loader' = [loader EXCEPT ![l].at = IF loader[l].failed = {} THEN "done" ELSE "failed"]
    /\ UNCHANGED <<companies, profiles, folder, loads>>

RetryLoad(l) ==
    /\ l = "job" /\ loader[l].at = "failed" /\ loader[l].attempt < JobAttempts
    /\ loader' = [loader EXCEPT ![l] = Begun("file", folder, loader[l].attempt + 1)]
    /\ UNCHANGED <<companies, profiles, folder, loads>>

DieLoading(l) ==
    /\ loader[l].at \in {"file", "found"}
    /\ loader' = [loader EXCEPT ![l] = NoLoad]
    /\ UNCHANGED <<companies, profiles, folder, loads>>

\* A deploy brings another folder, and starts the worker again.
DeployFolder(files) ==
    /\ files # folder /\ Bound
    /\ folder' = files
    /\ loader' = [loader EXCEPT !["job"] = NoLoad]
    /\ UNCHANGED <<companies, profiles>>

\* A symbol is removed, its profile with it, or added.
ChangeRegister(s) ==
    /\ Bound
    /\ companies' = IF s \in companies THEN companies \ {s} ELSE companies \cup {s}
    /\ profiles' = [profiles EXCEPT ![s] = NoProfile]
    /\ loader' = [l \in Loaders |-> [loader[l] EXCEPT !.touched = @ \cup {s}]]
    /\ UNCHANGED folder

NextProfiles ==
    \/ \E l \in Loaders : Load(l) \/ ReadFile(l) \/ WriteProfile(l) \/ RefuseProfile(l)
                          \/ FinishLoad(l) \/ RetryLoad(l) \/ DieLoading(l)
    \/ \E files \in Releases : DeployFolder(files)
    \/ \E s \in WrittenUp : ChangeRegister(s)

ProfilesSpec == InitProfiles /\ [][NextProfiles]_profileVars

---------------------------------------------------------------------------
\* A profile is of a tracked symbol and is one file of one folder, whole: never the
\* text of one with the products of another, nor a product with a part of its
\* attribution; a page shows exactly the images it stores.  A load that ended well found
\* no bad file, and where nobody else wrote since, each tracked symbol it covers has its
\* file's write-up and no other symbol has one.
WriteUpsAreWhole ==
    /\ \A s \in WrittenUp :
          /\ s \notin companies => profiles[s] = NoProfile /\ getCompanyProfile(s) = "404"
          /\ profiles[s] # NoProfile =>
                /\ \E files \in Releases : \E file \in FilesOf(files) :
                      /\ file.symbol = s
                      /\ profiles[s] = Stored(file)
                /\ \A i \in DOMAIN profiles[s].products :
                      toWireProduct(profiles[s].products[i]).image
                         <=> profiles[s].products[i].given # {}
    /\ \A l \in Loaders : loader[l].at = "done" =>
          \A file \in FilesOf(loader[l].folder) :
             /\ profileSchema(file)
             /\ file.symbol \notin loader[l].touched =>
                   profiles[file.symbol] = IF file.symbol \in companies THEN Stored(file)
                                           ELSE NoProfile

---------------------------------------------------------------------------
(***************************************************************************)
(* The archive of official notices.  A batch of what a source lists is     *)
(* stored notice by notice, each found by its identity first; the same     *)
(* page is read again, with a headline corrected, by a run that may have   *)
(* died the last time; the stocks notices are about come and go.           *)
(***************************************************************************)
CONSTANTS
    Issuers,       \* the symbols a notice can be about, tracked or not
    NoIssuer,      \* of a notice about the whole market
    Batches,       \* what a source may list
    MaxBatches     \* bound on the batches, and on what happens to the register

Categories == {"RESULTS", "DIVIDEND", "BOARD_MEETING", "MATERIAL_DISCLOSURE",
               "CORPORATE_ACTION", "OTHER"}
Items == [id : Nat, symbol : Issuers \cup {NoIssuer}, title : Nat, day : Nat,
          wording : SUBSET Categories]

ASSUME AnnouncementAssumption ==
    NoIssuer \notin Issuers /\ MaxBatches \in Nat /\ Batches \subseteq Seq(Items)

VARIABLES
    issuersTracked, \* the stocks there are
    archive,        \* the notices stored
    batch,          \* the one being stored: its items, those left, the stocks it found
    batches,        \* batches begun
    changes         \* changes of the register

announcementVars == <<issuersTracked, archive, batch, batches, changes>>

CATEGORY_RULES == <<"DIVIDEND", "BOARD_MEETING", "RESULTS", "CORPORATE_ACTION",
                    "MATERIAL_DISCLOSURE">>
NoBatch == [at |-> "idle", items |-> <<>>, next |-> 1, found |-> {}, lost |-> {}]

AnnouncementsTypeOK ==
    /\ issuersTracked \in SUBSET Issuers
    /\ \A n \in archive : n.stock \in Issuers \cup {NoIssuer} /\ n.category \in Categories
    /\ batch.at \in {"idle", "storing", "stored"} /\ batch.next \in 1..Len(batch.items) + 1
    /\ batches \in 0..MaxBatches /\ changes \in 0..MaxBatches

InitAnnouncements ==
    /\ issuersTracked = Issuers /\ archive = {} /\ batch = NoBatch
    /\ batches = 0 /\ changes = 0

---------------------------------------------------------------------------
\* The first rule the source's wording matches; a wording is the rules it matches.
mapCategory(wording) ==
    LET rules == {i \in 1..5 : CATEGORY_RULES[i] \in wording}
    IN IF rules = {} THEN "OTHER"
       ELSE CATEGORY_RULES[CHOOSE i \in rules : \A j \in rules : i <= j]

\* What a notice is known by: the source's id, and without one what it says.
dedupeKeyFor(item) ==
    IF item.id # 0 THEN <<"id", item.id>> ELSE <<item.symbol, item.title, item.day>>

NoticeOf(item, found) ==
    [key |-> dedupeKeyFor(item), title |-> item.title, day |-> item.day, of |-> item,
     category |-> mapCategory(item.wording),
     stock |-> IF item.symbol \in found THEN item.symbol ELSE NoIssuer]

\* upsertAnnouncements, up to its loop: the stocks of the whole batch.
BeginBatch(items) ==
    /\ batch.at # "storing" /\ batches < MaxBatches
    /\ batch' = [NoBatch EXCEPT !.at = "storing", !.items = items,
                   !.found = issuersTracked \cap {items[i].symbol : i \in DOMAIN items}]
    /\ batches' = batches + 1
    /\ UNCHANGED <<issuersTracked, archive, changes>>

\* One notice: updated where it is, or created; a row the database refuses, its stock
\* gone since, is skipped.
StoreNotice ==
    /\ batch.at = "storing" /\ batch.next <= Len(batch.items)
    /\ LET notice == NoticeOf(batch.items[batch.next], batch.found)
           refused == notice.stock # NoIssuer /\ notice.stock \notin issuersTracked
       IN IF refused THEN UNCHANGED archive
          ELSE archive' = {n \in archive : n.key # notice.key} \cup {notice}
    /\ batch' = [batch EXCEPT !.next = @ + 1]
    /\ UNCHANGED <<issuersTracked, batches, changes>>

FinishBatch ==
    /\ batch.at = "storing" /\ batch.next > Len(batch.items)
    /\ batch' = [batch EXCEPT !.at = "stored"]
    /\ UNCHANGED <<issuersTracked, archive, batches, changes>>

\* The ingesting process dies.
DieStoring ==
    /\ batch.at = "storing"
    /\ batch' = NoBatch
    /\ UNCHANGED <<issuersTracked, archive, batches, changes>>

\* A stock is removed, its notices with it, or added.
RemoveIssuer(s) ==
    /\ s \in issuersTracked /\ changes < MaxBatches
    /\ issuersTracked' = issuersTracked \ {s}
    /\ archive' = {n \in archive : n.stock # s}
    /\ batch' = [batch EXCEPT !.lost = @ \cup {s}]
    /\ changes' = changes + 1
    /\ UNCHANGED batches

AddIssuer(s) ==
    /\ s \in Issuers \ issuersTracked /\ changes < MaxBatches
    /\ issuersTracked' = issuersTracked \cup {s}
    /\ changes' = changes + 1
    /\ UNCHANGED <<archive, batch, batches>>

NextAnnouncements ==
    \/ \E items \in Batches : BeginBatch(items)
    \/ StoreNotice \/ FinishBatch \/ DieStoring
    \/ \E s \in Issuers : RemoveIssuer(s) \/ AddIssuer(s)

AnnouncementsSpec == InitAnnouncements /\ [][NextAnnouncements]_announcementVars

---------------------------------------------------------------------------
\* Two notices of the archive are two notices at their source: they have not one id,
\* nor, without ids, one text.  One is filed under a stock that is tracked or under
\* none, and under its own.  A batch stored to its end is in the archive, the last
\* wording of each notice, but for what went with a stock that was removed meanwhile.
ArchiveIsTheSources ==
    /\ \A n, m \in archive :
          /\ n.of.id # 0 /\ n.of.id = m.of.id => n = m
          /\ n.of.id = 0 /\ m.of.id = 0 /\ <<n.of.symbol, n.title, n.day>>
                = <<m.of.symbol, m.title, m.day>> => n = m
    /\ \A n \in archive : n.stock \in {n.of.symbol} \cap issuersTracked \/ n.stock = NoIssuer
    /\ batch.at = "stored" =>
          \A i \in DOMAIN batch.items :
             LET item == batch.items[i]
                 same(o) == IF item.id # 0 THEN o.id = item.id
                            ELSE o.id = 0 /\ <<o.symbol, o.title, o.day>>
                                             = <<item.symbol, item.title, item.day>>
             IN \/ \E j \in i..Len(batch.items) :
                      \E n \in archive : same(batch.items[j]) /\ n.of = batch.items[j]
                \/ \E j \in DOMAIN batch.items :
                      same(batch.items[j]) /\ batch.items[j].symbol \in batch.lost

=============================================================================
