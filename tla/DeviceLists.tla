---------------------------- MODULE DeviceLists ----------------------------
(***************************************************************************)
(* The two lists a browser keeps for its reader: the saved screens of the  *)
(* screener and the watchlist.  Each tab reads them once, when it opens,   *)
(* and shows its own copy from then on; a change is written to the one     *)
(* storage the tabs share, which may refuse it.  The storage tells the     *)
(* other tabs that the screens changed, at some later moment; nobody       *)
(* listens for the watchlist.                                              *)
(***************************************************************************)
EXTENDS Integers, FiniteSets, SequencesExt

CONSTANTS
    DeviceTabs,        \* the tabs a reader may have open
    Names,          \* what a reader calls a screen
    Lower(_),       \* a name in lower case
    TooLong,        \* names over 60 characters
    Addresses,      \* queries the screener may be at
    Followed,       \* symbols a reader may follow, numbered in their order
    WatchLimit,     \* rows the watchlist asks for
    MaxWrites       \* bound on the changes made

ASSUME DeviceListsAssumption ==
    /\ TooLong \subseteq Names /\ WatchLimit \in Nat \ {0} /\ MaxWrites \in Nat
    /\ IsFiniteSet(Followed) /\ Followed = 1..Cardinality(Followed)
    /\ "none" \notin DeviceTabs

Unnamed == ""
Closed == "closed"      \* no dialog; an open one holds the name typed
NoProblem == "none"
\* A stored value that is no list of screens: nothing of it is kept.
Garbage == <<[id |-> -2, name |-> Unnamed, query |-> "", whole |-> FALSE]>>

VARIABLES
    storage,    \* the screens stored, ill-formed records among them
    watched,    \* the symbols stored
    refusing,   \* the browser refuses to write
    tab,        \* what each open tab holds
    unheard,    \* the tabs the storage has yet to tell
    told,       \* screens a reader was told are saved, and nobody deleted since
    lastStar,   \* the tab whose watchlist was stored last, or none
    writes

deviceVars == <<storage, watched, refusing, tab, unheard, told, lastStar, writes>>

ids(screens) == {screens[i].id : i \in DOMAIN screens}

\* A list with no more than what is kept, in its order.
Keeping(list, kept) ==
    LET places == {k \in DOMAIN list : list[k] \in kept}
        nth(n) == CHOOSE k \in places : Cardinality({j \in places : j <= k}) = n
    IN [n \in 1..Cardinality(places) |-> list[nth(n)]]

\* The list stored: the well-formed records of it, none where it is no list.
read(stored) == Keeping(stored, {s \in ToSet(stored) : s.whole})

\* A tab that opens reads both lists once.
Opened == [screens |-> read(storage), stars |-> watched, dialog |-> Closed]

Open == DOMAIN tab

DeviceListsTypeOK ==
    /\ Open \subseteq DeviceTabs /\ unheard \subseteq Open /\ refusing \in BOOLEAN
    /\ writes \in 0..MaxWrites
    /\ \A t \in Open : tab[t].dialog \in Names \cup {Unnamed, Closed} /\ tab[t].stars \in Seq(Followed)

\* Screens saved by an earlier visit, one record of them from an older version.
InitDevice ==
    /\ storage \in {<<>>, Garbage,
                    <<[id |-> -1, name |-> "old", query |-> "", whole |-> FALSE],
                      [id |-> 0, name |-> "old", query |-> "", whole |-> TRUE]>>}
    /\ watched = <<>> /\ refusing \in BOOLEAN
    /\ tab = <<>> /\ unheard = {} /\ lastStar = "none" /\ writes = 0
    /\ told = ids(read(storage))

---------------------------------------------------------------------------
(***************************************************************************)
(* The saved screens.                                                      *)
(***************************************************************************)
screenNameProblem(screens, name) ==
    IF name = Unnamed THEN "unnamed"
    ELSE IF name \in TooLong THEN "long"
    ELSE IF \E i \in DOMAIN screens : Lower(screens[i].name) = Lower(name) THEN "taken"
    ELSE NoProblem

Shown(t, r) == tab' = [tab EXCEPT ![t] = r]

\* The list of a tab, written over what is stored; the other tabs are to be told.
write(t, screens) ==
    /\ storage' = screens
    /\ unheard' = IF screens = storage THEN unheard ELSE unheard \cup (Open \ {t})

\* What is still promised once a tab has written its list: a tab that has not been
\* told of a screen writes over it.
Promised(t) == IF t \in unheard THEN told \cap ids(tab[t].screens) ELSE told

Dialog(t, text) ==
    /\ Shown(t, [tab[t] EXCEPT !.dialog = text])
    /\ UNCHANGED <<storage, watched, refusing, unheard, told, lastStar, writes>>

\* Not offered while the browser blocks the storage; the name starts blank.
openSave(t) == tab[t].dialog = Closed /\ ~refusing /\ Dialog(t, Unnamed)
typeName(t, name) == tab[t].dialog \notin {Closed, name} /\ Dialog(t, name)
cancelSave(t) == tab[t].dialog # Closed /\ Dialog(t, Closed)

\* A screen of the name typed at the end of the tab's list.
Joined(t, query) ==
    Append(tab[t].screens, [id |-> writes + 1, name |-> tab[t].dialog, query |-> query, whole |-> TRUE])

\* Deviation: the tab shows the screen whether or not it was stored.
shownAtOnce(t, query) ==
    /\ tab[t].dialog # Closed /\ screenNameProblem(tab[t].screens, tab[t].dialog) = NoProblem
    /\ writes < MaxWrites /\ writes' = writes + 1
    /\ IF refusing THEN UNCHANGED <<storage, unheard>> ELSE write(t, Joined(t, query))
    /\ Shown(t, [tab[t] EXCEPT !.screens = Joined(t, query), !.dialog = Closed])
    /\ told' = Promised(t) \cup {writes + 1}
    /\ UNCHANGED <<watched, refusing, lastStar>>

\* The screen at the tab's address joins the list, which is stored whole; a name that
\* will not do, or a storage that refuses, leaves the dialog open and says why.
commitSave(t, query) ==
    /\ tab[t].dialog # Closed /\ screenNameProblem(tab[t].screens, tab[t].dialog) = NoProblem
    /\ ~refusing /\ writes < MaxWrites /\ writes' = writes + 1
    /\ write(t, Joined(t, query))
    /\ Shown(t, [tab[t] EXCEPT !.screens = Joined(t, query), !.dialog = Closed])
    /\ told' = Promised(t) \cup {writes + 1}
    /\ UNCHANGED <<watched, refusing, lastStar>>

\* Deleted once the reader confirms; a delete the storage refuses changes nothing.
remove(t, id) ==
    /\ tab[t].dialog = Closed /\ id \in ids(tab[t].screens)
    /\ ~refusing /\ writes < MaxWrites /\ writes' = writes + 1
    /\ LET next == Keeping(tab[t].screens, {s \in ToSet(tab[t].screens) : s.id # id})
       IN write(t, next) /\ Shown(t, [tab[t] EXCEPT !.screens = next])
    /\ told' = Promised(t) \ {id}
    /\ UNCHANGED <<watched, refusing, lastStar>>

\* The storage event: a tab reads the list again.
onStorage(t) ==
    /\ t \in unheard /\ unheard' = unheard \ {t}
    /\ Shown(t, [tab[t] EXCEPT !.screens = read(storage)])
    /\ UNCHANGED <<storage, watched, refusing, told, lastStar, writes>>

---------------------------------------------------------------------------
(***************************************************************************)
(* The watchlist.                                                          *)
(***************************************************************************)
has(t, symbol) == symbol \in Range(tab[t].stars)

\* Shown first, then stored; what the storage refuses is shown all the same.
setWatchlist(t, symbols) ==
    /\ writes < MaxWrites /\ writes' = writes + 1
    /\ Shown(t, [tab[t] EXCEPT !.stars = symbols])
    /\ IF refusing THEN watched' = watched /\ lastStar' = (IF lastStar = t THEN "none" ELSE lastStar)
       ELSE watched' = symbols /\ lastStar' = t
    /\ UNCHANGED <<storage, refusing, unheard, told>>

\* The star: a toggle on the tab's own list.
toggle(t, symbol) ==
    setWatchlist(t, IF has(t, symbol) THEN Keeping(tab[t].stars, Followed \ {symbol})
                    ELSE Append(tab[t].stars, symbol))

clear(t) == tab[t].stars # <<>> /\ setWatchlist(t, <<>>)

\* The page: one page of the stock list, of these symbols; nothing is asked of none.
Watchlist(t) ==
    LET starred == Range(tab[t].stars)
        nth(n) == CHOOSE s \in starred : Cardinality({r \in starred : r <= s}) = n
        many == Cardinality(starred)
    IN [n \in 1..(IF many < WatchLimit THEN many ELSE WatchLimit) |-> nth(n)]

---------------------------------------------------------------------------
\* A reader opens a tab, or closes one.
OpenTab(t) ==
    /\ t \notin Open /\ tab' = [u \in Open \cup {t} |-> IF u = t THEN Opened ELSE tab[u]]
    /\ UNCHANGED <<storage, watched, refusing, unheard, told, lastStar, writes>>

CloseTab(t) ==
    /\ tab' = [u \in Open \ {t} |-> tab[u]] /\ unheard' = unheard \ {t}
    /\ lastStar' = IF lastStar = t THEN "none" ELSE lastStar
    /\ UNCHANGED <<storage, watched, refusing, told, writes>>

\* A full disk, a policy: the storage begins to refuse, or takes writes again.
StorageTurns ==
    /\ refusing' = ~refusing
    /\ UNCHANGED <<storage, watched, tab, unheard, told, lastStar, writes>>

NextDevice ==
    \/ StorageTurns
    \/ \E t \in DeviceTabs : OpenTab(t)
    \/ \E t \in Open :
          \/ CloseTab(t) \/ openSave(t) \/ cancelSave(t) \/ onStorage(t) \/ clear(t)
          \/ \E name \in Names : typeName(t, name)
          \/ \E query \in Addresses : commitSave(t, query)
          \/ \E id \in ids(tab[t].screens) : remove(t, id)
          \/ \E symbol \in Followed : toggle(t, symbol)

DeviceSpec == InitDevice /\ [][NextDevice]_deviceVars

---------------------------------------------------------------------------
\* Two tabs agree: a tab the storage has told everything shows exactly the screens that
\* are stored, no two of one name in any case; a screen the reader was told is saved
\* is stored until it is deleted, unless a tab that had not been told of it yet wrote
\* its own list.  The watchlist of the tab that stored it last is the one stored, and
\* the page lists what has a star, whole while it is short enough.
TabsAgree ==
    /\ told \subseteq ids(read(storage))
    /\ lastStar \in Open => watched = tab[lastStar].stars
    /\ \A t \in Open :
          LET screens == tab[t].screens
          IN /\ t \notin unheard => screens = read(storage)
             /\ \A i, j \in DOMAIN screens :
                   Lower(screens[i].name) = Lower(screens[j].name) => i = j
             /\ \A s \in Followed : s \in Range(Watchlist(t)) => has(t, s)
             /\ Len(tab[t].stars) <= WatchLimit => \A s \in Followed : has(t, s) => s \in Range(Watchlist(t))

=============================================================================
