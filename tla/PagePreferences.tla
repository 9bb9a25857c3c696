-------------------------- MODULE PagePreferences --------------------------
(***************************************************************************)
(* The layout and the recent searches of the page and where they are kept: *)
(* the page's store, the preferences in the workspace's database, and the  *)
(* local storage in which older versions kept them (the legacy keys).      *)
(*                                                                         *)
(* AppShell reads the preferences once per mount, merges the three         *)
(* (hydration), and saves a change of the layout 250 ms after the last     *)
(* one.  The requests that save travel independently and may be applied    *)
(* in any order.  The shell leaves the page when the backend restarts and  *)
(* when it refuses a token, and a restart of the application begins a new  *)
(* page.                                                                   *)
(***************************************************************************)
EXTENDS Naturals, Sequences, FiniteSets

CONSTANTS
  LayoutFields, \* of the layout
  Values,       \* of a field, with 0 the default of all of them
  Items,        \* what can be searched for
  Refused,      \* the items that the service does not accept
  RecentLimit,  \* recent searches that are kept
  Legacies,     \* what local storage may hold at first
  NoValue,      \* in place of one
  MaxSaves,     \* bound on the requests that save
  Budgets       \* bounds: [changes, failures, visits], of what the user does,
                \* requests that fail and mounts of the shell

Default == 0
Layouts == [LayoutFields -> Values]
Factory == [f \in LayoutFields |-> Default]

\* Some of the fields of a layout.
IsPartial(values) ==
  DOMAIN values \subseteq LayoutFields /\ \A f \in DOMAIN values : values[f] \in Values

ASSUME PreferencesAssumption ==
  /\ Default \in Values
  /\ NoValue \notin Layouts \cup Legacies
  /\ \A old \in Legacies : /\ IsPartial(old.layout)
                            /\ NoValue # [layout |-> old.layout, recent |-> old.recent]

VARIABLES
  server,    \* the preferences in the database: [layout, recent]
  legacy,    \* local storage: [layout, recent, invalid] or NoValue
  store,     \* the layout of the page
  mounted,   \* AppShell is
  ready,     \* preferencesReady
  early,     \* localChangeBeforeHydration
  timer,     \* the layout to save when 250 ms have passed, or NoValue
  cached,    \* the data of ['preferences'], or NoValue
  fetch,     \* the request of that query: [at, value, again]
  saves,     \* the requests that save, in the order they were sent
  disturbed, \* history: a request failed, overtook another, or was not
             \* yet applied when the preferences were read
  touched,   \* history: the fields that the user has set in this page; all
             \* fields, once the layout of the page is not what it has read
  budget     \* what is left of the bounds

preferenceVars == <<server, legacy, store, mounted, ready, early, timer, cached, fetch, saves,
                    disturbed, touched, budget>>

NoFetch == [at |-> "idle", value |-> NoValue, again |-> FALSE]
Asking == [NoFetch EXCEPT !.at = "sent"]
NoFields == [f \in {} |-> Default]
Ended == [layout |-> NoFields, recent |-> NoValue, at |-> "ended", clears |-> FALSE]

\* The user's layout is one update of all fields; a merge may update some.
Update(layout, recent) == [layout |-> layout, recent |-> recent]
IsEmpty(update) == DOMAIN update.layout = {} /\ update.recent = NoValue

\* UpdatePreferences: what the update does not name stays.
Merged(values, update) ==
  [layout |-> [f \in LayoutFields |-> IF f \in DOMAIN update.layout THEN update.layout[f]
                                                             ELSE values.layout[f]],
   recent |-> IF update.recent = NoValue THEN values.recent ELSE update.recent]

\* Validate: one refused item refuses the whole update.
Accepted(update) ==
  update.recent # NoValue =>
    /\ Len(update.recent) <= RecentLimit
    /\ \A i \in 1..Len(update.recent) : update.recent[i] \notin Refused

PreferencesInit ==
  /\ server \in [layout : Layouts, recent : {<<>>}]
  /\ legacy \in Legacies \cup {NoValue}
  /\ store = Factory
  /\ mounted = TRUE
  /\ ready = FALSE
  /\ early = FALSE
  /\ timer = NoValue
  /\ cached = NoValue
  /\ fetch = Asking
  /\ saves = <<>>
  /\ disturbed = FALSE
  /\ touched = [f \in LayoutFields |-> FALSE]
  /\ budget \in Budgets

-----------------------------------------------------------------------------
(* Requests *)

Pending == {i \in DOMAIN saves : saves[i].at # "ended"}
LayoutPending == {i \in Pending : DOMAIN saves[i].layout # {}}

\* mutate: of the shell's requests only the last one runs its callback.
Shell(update, clears) ==
  Append([i \in DOMAIN saves |-> [saves[i] EXCEPT !.clears = FALSE]],
         [layout |-> update.layout, recent |-> update.recent, at |-> "sent", clears |-> clears])

Spend(what) == budget[what] > 0 /\ budget' = [budget EXCEPT ![what] = @ - 1]
RequestFails == Spend("failures")

SaveApplied(i) ==
  /\ saves[i].at = "sent"
  /\ Accepted(saves[i])
  /\ server' = Merged(server, saves[i])
  /\ saves' = [saves EXCEPT ![i].at = "applied"]
  /\ UNCHANGED <<legacy, store, mounted, ready, early, timer, cached, fetch, disturbed, touched,
                 budget>>

\* Refused, not delivered, or its answer lost.
SaveFails(i) ==
  /\ saves[i].at # "ended"
  /\ IF Accepted(saves[i]) THEN RequestFails ELSE UNCHANGED budget
  /\ saves' = [saves EXCEPT ![i] = Ended]
  /\ disturbed' = TRUE
  /\ UNCHANGED <<server, legacy, store, mounted, ready, early, timer, cached, fetch, touched>>

\* clearMigratedLegacy, if it is this request that migrates.
Cleared(i) == IF saves[i].clears /\ legacy # NoValue /\ ~legacy.invalid THEN NoValue ELSE legacy

\* The query is invalidated: its request is dropped and sent again, if anybody looks;
\* but the first one, before there is data and the shell is ready, goes on.
SaveSucceeds(i) ==
  /\ saves[i].at = "applied"
  /\ legacy' = Cleared(i)
  /\ saves' = [saves EXCEPT ![i] = Ended]
  /\ fetch' = IF mounted /\ (ready \/ fetch = NoFetch) THEN Asking ELSE fetch
  /\ disturbed' = (disturbed \/ (~mounted /\ fetch # NoFetch))
  /\ UNCHANGED <<server, store, mounted, ready, early, timer, cached, touched, budget>>

FetchAnswered ==
  /\ fetch.at = "sent"
  /\ \/ /\ fetch' = [at |-> "answered", value |-> server, again |-> fetch.again]
        /\ UNCHANGED <<budget, disturbed>>
     \/ /\ RequestFails
        /\ fetch' = IF fetch.again THEN NoFetch ELSE [fetch EXCEPT !.again = TRUE]
        /\ disturbed' = (disturbed \/ fetch.again)
  /\ UNCHANGED <<server, legacy, store, mounted, ready, early, timer, cached, saves, touched>>
-----------------------------------------------------------------------------
(* Hydration *)

\* readLegacyPreferences: what the keys hold that can be read, or NoValue.
ReadLegacy ==
  IF legacy = NoValue \/ IsEmpty(legacy) THEN NoValue ELSE Update(legacy.layout, legacy.recent)

\* Mutant: a legacy value also replaces a value of the server.
Mergeable_Any(values, old) == {f \in DOMAIN old.layout : old.layout[f] # values.layout[f]}

\* The fields of which the server still has the default and the keys do not.
Mergeable(values, old) ==
  {f \in DOMAIN old.layout : values.layout[f] = Default /\ old.layout[f] # Default}

\* mergeLegacyPreferences
MergeLegacy(values, old, localChanged) ==
  Update(IF localChanged THEN NoFields ELSE [f \in Mergeable(values, old) |-> old.layout[f]],
         IF values.recent = <<>> /\ old.recent \notin {NoValue, <<>>} THEN old.recent ELSE NoValue)

\* What there is to migrate: nothing, or the merge of what is read.
Migrated(values) ==
  IF ReadLegacy = NoValue THEN Update(NoFields, NoValue) ELSE MergeLegacy(values, ReadLegacy, early)

\* The request that hydration sends: the layout if the user has changed it before,
\* and what is migrated.
Saved(values) ==
  IF early THEN Update(IF store = values.layout THEN NoFields ELSE store, Migrated(values).recent)
           ELSE Migrated(values)

\* The effect that runs once per mount, when there is data.  A save is told to
\* clear the keys; with nothing to save they are cleared at once.
Hydrate(values) ==
  /\ ready' = TRUE
  /\ early' = FALSE
  /\ store' = IF early THEN store ELSE Merged(values, Migrated(values)).layout
  /\ LET stale == LayoutPending # {} \/ values # server
     IN /\ disturbed' = (disturbed \/ stale)
        /\ touched' = IF early \/ stale THEN [f \in LayoutFields |-> TRUE] ELSE touched
  /\ IF IsEmpty(Saved(values))
     THEN /\ legacy' = IF legacy # NoValue /\ ~legacy.invalid THEN NoValue ELSE legacy
          /\ UNCHANGED saves
     ELSE /\ Len(saves) < MaxSaves
          /\ saves' = Shell(Saved(values), TRUE)
          /\ UNCHANGED legacy

FetchArrives ==
  /\ fetch.at = "answered"
  /\ fetch' = NoFetch
  /\ cached' = fetch.value
  /\ IF mounted /\ ~ready THEN Hydrate(fetch.value)
                          ELSE UNCHANGED <<ready, early, store, touched, disturbed, legacy, saves>>
  /\ UNCHANGED <<server, mounted, timer, budget>>

-----------------------------------------------------------------------------
(* The user and the page *)

UserActs == mounted /\ Spend("changes")

\* Mutant: the timer that runs is left to run with the layout it has.
Queued_First == IF timer = NoValue THEN store' ELSE timer

\* queuePreferencesSave
Queued == store'

\* toggleSidebar, setTheme, setInspectorWidth
Change(f, v) ==
  /\ UserActs
  /\ store[f] # v
  /\ store' = [store EXCEPT ![f] = v]
  /\ touched' = [touched EXCEPT ![f] = TRUE]
  /\ IF ready THEN timer' = Queued /\ UNCHANGED early
              ELSE early' = TRUE /\ UNCHANGED timer
  /\ UNCHANGED <<server, legacy, mounted, ready, cached, fetch, saves, disturbed>>

\* A whole layout that meets no other request puts an earlier failure right.
TimerFires ==
  /\ timer # NoValue
  /\ Len(saves) < MaxSaves
  /\ saves' = Shell(Update(timer, NoValue), FALSE)
  /\ timer' = NoValue
  /\ disturbed' = (LayoutPending # {})
  /\ UNCHANGED <<server, legacy, store, mounted, ready, early, cached, fetch, touched, budget>>

\* The item goes before the recent ones that the page knows of.
Others(item, known) == SelectSeq(known, LAMBDA other : other # item)
Recents(item, known) ==
  LET rest == Others(item, known)
  IN  <<item>> \o SubSeq(rest, 1, IF Len(rest) < RecentLimit THEN Len(rest) ELSE RecentLimit - 1)

\* CommandPalette
Select(item) ==
  /\ UserActs
  /\ Len(saves) < MaxSaves
  /\ LET known == IF cached = NoValue THEN <<>> ELSE cached.recent
     IN  saves' = Append(saves, [layout |-> NoFields, recent |-> Recents(item, known),
                                 at |-> "sent", clears |-> FALSE])
  /\ UNCHANGED <<server, legacy, store, mounted, ready, early, timer, cached, fetch, disturbed,
                 touched>>

\* The gate replaces the shell: the timer is cleared and the callbacks with it.  An
\* event of the host clears the cache too, a refused token does not.
Leave ==
  /\ mounted /\ budget.visits > 0
  /\ mounted' = FALSE
  /\ ready' = FALSE /\ early' = FALSE /\ timer' = NoValue
  /\ saves' = [i \in DOMAIN saves |-> [saves[i] EXCEPT !.clears = FALSE]]
  /\ \/ cached' = NoValue /\ fetch' = NoFetch
     \/ UNCHANGED <<cached, fetch>>
  /\ UNCHANGED <<server, legacy, store, disturbed, touched, budget>>

\* The shell is there again, its refs new; data that is cached hydrates at once.
Mount ==
  /\ ~mounted
  /\ mounted' = TRUE
  /\ Spend("visits")
  /\ fetch' = IF fetch = NoFetch THEN Asking ELSE fetch
  /\ IF cached = NoValue
     THEN UNCHANGED <<ready, early, store, touched, disturbed, legacy, saves>>
     ELSE Hydrate(cached)
  /\ UNCHANGED <<server, timer, cached>>

\* The application is closed and started; requests that are under way are lost.
Restart ==
  /\ mounted /\ budget.visits > 0
  /\ Spend("visits")
  /\ store' = Factory
  /\ ready' = FALSE /\ early' = FALSE /\ timer' = NoValue
  /\ cached' = NoValue /\ fetch' = Asking
  /\ saves' = [i \in DOMAIN saves |-> Ended]
  /\ disturbed' = FALSE
  /\ touched' = [f \in LayoutFields |-> FALSE]
  /\ UNCHANGED <<server, legacy, mounted>>

PreferencesNext ==
  \/ \E i \in DOMAIN saves : SaveApplied(i) \/ SaveFails(i) \/ SaveSucceeds(i)
  \/ FetchAnswered \/ FetchArrives
  \/ \E f \in LayoutFields, v \in Values : Change(f, v)
  \/ TimerFires
  \/ \E item \in Items : Select(item)
  \/ Leave \/ Mount \/ Restart
PreferencesSpec == PreferencesInit /\ [][PreferencesNext]_preferenceVars

-----------------------------------------------------------------------------
(* Properties *)

\* When nothing is under way and nothing has gone wrong since the layout was last
\* saved whole, the database has the layout that the page shows and the page knows
\* the preferences of the database: whatever was changed before they were read,
\* migrated, or interrupted by a restart of the backend.
QuietLayoutIsSaved ==
  mounted /\ ready /\ timer = NoValue /\ fetch = NoFetch /\ Pending = {} /\ ~disturbed
    => server.layout = store /\ cached = server

\* "SQLite 已有的非默认值优先，迁移成功后旧键会被清理，失败则保留到下次启动重试"
\* (V2_ACCEPTANCE.md:32): a value of the database that is not the default is replaced
\* only after the user has set the field (or any field, if that was before the
\* preferences were read), and the legacy keys go only when each of their values is
\* in the database or has been superseded.
Superseded(f) == touched'[f] \/ server'.layout[f] # Default \/ legacy.layout[f] = Default
MigrationIsFaithful ==
  [][/\ \A f \in LayoutFields : server.layout[f] \notin {Default, server'.layout[f]} => touched[f]
     /\ legacy # NoValue /\ legacy' = NoValue =>
          /\ \A f \in DOMAIN legacy.layout : Superseded(f)
          /\ legacy.recent \in {NoValue, <<>>} \/ server'.recent # <<>>]_preferenceVars
=============================================================================
