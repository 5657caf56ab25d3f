---------------------------- MODULE ConfigTransfer ----------------------------
(***************************************************************************)
(* Export and import of the configuration (api/export_config.go,           *)
(* api/import_config.go, configfile/configfile.go), and the import of an   *)
(* Uptime Kuma's monitors (api/import_kuma.go), which shares its key.      *)
(*                                                                         *)
(* An import plans against what is there and then writes item by item,     *)
(* outside of any transaction; imports overlap and a statement may fail.   *)
(* Of a monitor there remain its identity (type and target, which is the   *)
(* name of a push monitor), its token, its channels, its switch and a text *)
(* for all the rest; of its state, whether it counts bad rounds. Rows are  *)
(* numbered as they are created. Rounds and flips are AlertFlow's.         *)
(***************************************************************************)
EXTENDS SequencesExt

CONSTANTS
  Uploads,          \* bound: the imports there will be
  HomeStates,       \* the configurations there are at first
  Edited,           \* files made by hand, beside those that are exported
  KumaLists         \* what an Uptime Kuma may hold

VARIABLES
  channels,         \* what is stored
  monitors,
  settings,
  counting,         \* the rows whose monitor_states count bad rounds (all, at first)
  minted,           \* tokens generated
  upload,           \* the imports
  mishap            \* a statement has failed (bound: one)

transferVars == <<channels, monitors, settings, counting, minted, upload, mishap>>
stored == <<channels, monitors, settings>>

SettingItems == <<"days", "rounds", "templates">>

-----------------------------------------------------------------------------
(* The key that tells duplicates, for all of imports, files and rows: the  *)
(* URL is known of HTTP monitors only.                                     *)

Key(m) == <<m.type, IF m.type = "download" THEN "" ELSE m.target>>
Alike(rows, m) == {i \in DOMAIN rows : Key(rows[i]) = Key(m)}
Oldest(ids) == CHOOSE i \in ids : \A j \in ids : i <= j
Named(rows, name) == {c \in DOMAIN rows : rows[c].name = name}

\* buildConfigFile: newest first, channels by their names; a channel that is gone is left out.
BuildFile(home) ==
  [channels |-> Reverse([c \in DOMAIN home.channels |->
                   [name |-> home.channels[c].name, text |-> home.channels[c].text, fit |-> TRUE]]),
   monitors |-> Reverse([i \in DOMAIN home.monitors |->
     LET m == home.monitors[i]
     IN [type |-> m.type, target |-> m.target, text |-> m.text, token |-> m.token, enabled |-> m.enabled,
         names |-> {home.channels[c].name : c \in m.routes \cap DOMAIN home.channels}, fit |-> "ok"]]),
   settings |-> home.settings]

-----------------------------------------------------------------------------
(* planConfigImport: what will become of every entry.                      *)

FitChannels(file) == {file.channels[i].name : i \in {i \in DOMAIN file.channels : file.channels[i].fit}}

ChannelStatus(file, i) ==
  LET entry == file.channels[i]
  IN IF ~entry.fit THEN "invalid"
     ELSE IF Named(channels, entry.name) # {} THEN "reuse"
     ELSE IF \E j \in 1..(i - 1) : file.channels[j].fit /\ file.channels[j].name = entry.name THEN "merge"
     ELSE "create"

\* Mutant: an entry does not see the ones before it.
StatusUnseen(file, overwrite, i) ==
  LET entry == file.monitors[i]
  IN IF entry.fit # "ok" THEN "invalid"
     ELSE IF Alike(monitors, entry) # {} THEN (IF overwrite THEN "update" ELSE "duplicate")
     ELSE "create"

MonitorStatus(file, overwrite, i) ==
  LET entry == file.monitors[i]
  IN IF entry.fit # "ok" THEN "invalid"
     ELSE IF Alike(monitors, entry) # {} THEN (IF overwrite THEN "update" ELSE "duplicate")
     ELSE IF \E j \in 1..(i - 1) : file.monitors[j].fit = "ok" /\ Key(file.monitors[j]) = Key(entry) THEN "duplicate"
     ELSE "create"

\* The tokens that are taken: of the rows the key finds, and of the file's earlier
\* push entries, whatever becomes of those. A token that is taken is replaced.
Taken(file, i) ==
  {monitors[Oldest(Alike(monitors, monitors[n]))].token : n \in DOMAIN monitors}
    \cup {file.monitors[j].token : j \in {j \in 1..(i - 1) : file.monitors[j].type = "push"}}
PlannedToken(file, i) ==
  LET entry == file.monitors[i]
  IN IF entry.type = "push" /\ entry.token \notin Taken(file, i) THEN entry.token ELSE 0

PlanImport(file, overwrite) ==
  [channels |-> [i \in DOMAIN file.channels |-> ChannelStatus(file, i)],
   monitors |-> [i \in DOMAIN file.monitors |->
     LET entry == file.monitors[i]
     IN [status |-> MonitorStatus(file, overwrite, i),
         token |-> PlannedToken(file, i),
         existing |-> IF Alike(monitors, entry) = {} THEN 0 ELSE Oldest(Alike(monitors, entry)),
         names |-> {n \in entry.names : n \in FitChannels(file) \/ Named(channels, n) # {}}]]]

-----------------------------------------------------------------------------
(* An import: what it imports, its plan, the statement it is at, the       *)
(* channels it has found or made, and the outcome of every entry so far.   *)

NoFile == [channels |-> <<>>, monitors |-> <<>>, settings |-> <<>>]
NoPlan == [channels |-> <<>>, monitors |-> <<>>]
Unused == [kind |-> "none", stage |-> "new", file |-> NoFile, overwrite |-> FALSE, sync |-> FALSE,
           plan |-> NoPlan, ids |-> [n \in {} |-> 0], known |-> [k \in {} |-> 0],
           outcomes |-> <<>>, settled |-> 0, clean |-> TRUE, before |-> <<>>]

Works == UNCHANGED mishap
Breaks == ~mishap /\ mishap' = TRUE

\* The import goes on; what it has changed disturbs the others.
Goes(u, new) ==
  upload' = [v \in Uploads |->
    IF v = u THEN new
    ELSE IF stored' = stored THEN upload[v] ELSE [upload[v] EXCEPT !.before = <<>>]]
Recorded(u, outcome) == [upload[u] EXCEPT !.outcomes = Append(@, outcome)]
Records(u, outcome) == Goes(u, Recorded(u, outcome))
Spoilt(u, outcome) == Goes(u, [Recorded(u, outcome) EXCEPT !.clean = FALSE])
Moves(u, stage) == UNCHANGED <<stored, counting, minted, mishap>> /\ Goes(u, [upload[u] EXCEPT !.stage = stage])

\* configImport reads and plans.
StartImport(u) ==
  /\ upload[u] = Unused
  /\ UNCHANGED <<stored, counting, minted, mishap>>
  /\ \E file \in Edited \cup {BuildFile(home) : home \in HomeStates}, overwrite \in BOOLEAN :
       Goes(u, [Unused EXCEPT !.kind = "config", !.stage = "channels", !.file = file, !.overwrite = overwrite,
                              !.plan = PlanImport(file, overwrite), !.before = stored])

-----------------------------------------------------------------------------
(* applyChannels: the channels are found or made, one after the other. One *)
(* that cannot be made is one less to tell.                                *)

With(f, key, value) == [x \in DOMAIN f \cup {key} |-> IF x = key THEN value ELSE f[x]]
Channel(u) == upload[u].file.channels[upload[u].settled + 1]
Passed(u) == [upload[u] EXCEPT !.settled = @ + 1]
Settled(u, id) == [Passed(u) EXCEPT !.ids = With(@, Channel(u).name, id)]

NextChannel(u, statuses) ==
  /\ upload[u].stage = "channels"
  /\ upload[u].settled < Len(upload[u].file.channels)
  /\ upload[u].plan.channels[upload[u].settled + 1] \in statuses

PassChannel(u) ==
  /\ NextChannel(u, {"invalid", "merge"})
  /\ UNCHANGED <<stored, counting, minted, mishap>>
  /\ Goes(u, Passed(u))

ReuseChannel(u) ==
  /\ NextChannel(u, {"reuse"})
  /\ UNCHANGED <<stored, counting, minted, mishap>>
  /\ Goes(u, Settled(u, Oldest(Named(channels, Channel(u).name))))

InsertChannel(u) ==
  /\ NextChannel(u, {"create"})
  /\ UNCHANGED <<monitors, settings, counting, minted>>
  /\ \/ /\ Works
        /\ channels' = Append(channels, [name |-> Channel(u).name, text |-> Channel(u).text])
        /\ Goes(u, Settled(u, Len(channels) + 1))
     \/ Breaks /\ UNCHANGED channels /\ Goes(u, [Passed(u) EXCEPT !.clean = FALSE])

EndChannels(u) ==
  /\ upload[u].stage = "channels" /\ upload[u].settled = Len(upload[u].file.channels)
  /\ Moves(u, "monitors")

-----------------------------------------------------------------------------
(* applyMonitors: an entry is passed over, rewrites a row but for its      *)
(* token, or makes a row.                                                  *)

Entry(u) == upload[u].file.monitors[Len(upload[u].outcomes) + 1]
Planned(u) == upload[u].plan.monitors[Len(upload[u].outcomes) + 1]

NextEntry(u, kind) ==
  /\ upload[u].kind = kind /\ upload[u].stage = "monitors"
  /\ Len(upload[u].outcomes) < Len(upload[u].file.monitors)

\* idsOfNames: a name the file does not list is passed over.
IdsOfNames(u, names) == {upload[u].ids[n] : n \in names \cap DOMAIN upload[u].ids}

Row(entry, token, routes, enabled) ==
  [type |-> entry.type, target |-> entry.target, text |-> entry.text, token |-> token,
   routes |-> routes, enabled |-> enabled]

\* push_token is unique in the table.
TokenFree(token) == token = 0 \/ \A i \in DOMAIN monitors : monitors[i].token # token

PassEntry(u) ==
  /\ NextEntry(u, "config") /\ Planned(u).status \in {"invalid", "duplicate"}
  /\ UNCHANGED <<stored, counting, minted, mishap>>
  /\ Records(u, Planned(u).status)

\* UpdateMonitor, then ResetMonitorsConsecutive of a row that is paused by it; an
\* error of the second is ignored.
Rewritten(u) ==
  [monitors EXCEPT ![Planned(u).existing] =
     Row(Entry(u), @.token, IdsOfNames(u, Planned(u).names), Entry(u).enabled)]

RewriteMonitor(u) ==
  /\ NextEntry(u, "config") /\ Planned(u).status = "update"
  /\ UNCHANGED <<channels, settings, minted>>
  /\ \/ /\ Works /\ monitors' = Rewritten(u)
        /\ counting' = IF Entry(u).enabled THEN counting ELSE counting \ {Planned(u).existing}
        /\ Records(u, "update")
     \/ /\ Breaks /\ ~Entry(u).enabled
        /\ monitors' = Rewritten(u) /\ UNCHANGED counting /\ Spoilt(u, "update")
     \/ Breaks /\ UNCHANGED <<monitors, counting>> /\ Spoilt(u, "failed")

InsertMonitor(u) ==
  /\ NextEntry(u, "config") /\ Planned(u).status = "create"
  /\ UNCHANGED <<channels, settings, counting>>
  /\ LET fresh == Entry(u).type = "push" /\ Planned(u).token = 0
         token == IF fresh THEN minted + 1 ELSE Planned(u).token
     IN /\ minted' = IF fresh THEN token ELSE minted
        /\ \/ /\ Works /\ TokenFree(token)
              /\ monitors' = Append(monitors, Row(Entry(u), token, IdsOfNames(u, Planned(u).names), Entry(u).enabled))
              /\ Records(u, "create")
           \/ Works /\ ~TokenFree(token) /\ UNCHANGED monitors /\ Spoilt(u, "failed")
           \/ Breaks /\ UNCHANGED monitors /\ Spoilt(u, "failed")

EndMonitors(u) ==
  /\ upload[u].stage = "monitors" /\ Len(upload[u].outcomes) = Len(upload[u].file.monitors)
  /\ Moves(u, IF upload[u].kind = "config" THEN "settings" ELSE "done")

\* applyConfigSettings: item by item, those with a value the program takes.
ApplySettings(u) ==
  /\ upload[u].stage = "settings"
  /\ LET n == upload[u].settled - Len(upload[u].file.channels) + 1
         given == upload[u].file.settings[SettingItems[n]]
         then == [Passed(u) EXCEPT !.stage = IF n = Len(SettingItems) THEN "done" ELSE @]
     IN /\ UNCHANGED <<channels, monitors, counting, minted>>
        /\ \/ /\ Works
              /\ settings' = IF given \in {"none", "bad"} THEN settings ELSE [settings EXCEPT ![SettingItems[n]] = given]
              /\ Goes(u, then)
           \/ Breaks /\ UNCHANGED settings /\ Goes(u, [then EXCEPT !.clean = FALSE])

-----------------------------------------------------------------------------
(* kumaImport: the rows are looked up once; what the import makes of them  *)
(* it keeps up to date itself. What an Uptime Kuma does not know (the      *)
(* channels) is written as it was looked up.                               *)

StartKuma(u) ==
  /\ upload[u] = Unused
  /\ UNCHANGED <<stored, counting, minted, mishap>>
  /\ \E list \in KumaLists, overwrite, sync \in BOOLEAN :
       Goes(u, [Unused EXCEPT !.kind = "kuma", !.stage = "monitors",
                              !.file = [NoFile EXCEPT !.monitors = list],
                              !.overwrite = overwrite, !.sync = sync, !.before = stored,
                              !.known = [k \in {Key(monitors[i]) : i \in DOMAIN monitors} |->
                                 LET i == Oldest({j \in DOMAIN monitors : Key(monitors[j]) = k})
                                 IN [id |-> i, routes |-> monitors[i].routes, enabled |-> monitors[i].enabled]]])

Found(u) == Key(Entry(u)) \in DOMAIN upload[u].known
Old(u) == upload[u].known[Key(Entry(u))]
Knows(u, id, routes, enabled, outcome) ==
  Goes(u, [Recorded(u, outcome) EXCEPT
             !.known = With(@, Key(Entry(u)), [id |-> id, routes |-> routes, enabled |-> enabled])])
KumaToken(u) == IF Entry(u).type = "push" THEN minted + 1 ELSE 0
Differs(u) == upload[u].sync /\ Old(u).enabled # Entry(u).enabled

KumaPass(u) ==
  /\ NextEntry(u, "kuma")
  /\ UNCHANGED <<stored, counting, minted, mishap>>
  /\ \/ Entry(u).fit = "unsupported" /\ Records(u, "skipped")
     \/ Entry(u).fit # "unsupported" /\ Found(u) /\ ~upload[u].overwrite /\ ~Differs(u) /\ Records(u, "skipped")
     \/ Entry(u).fit = "invalid" /\ (~Found(u) \/ upload[u].overwrite) /\ Records(u, "failed")

KumaCreate(u) ==
  /\ NextEntry(u, "kuma") /\ Entry(u).fit = "ok" /\ ~Found(u)
  /\ UNCHANGED <<channels, settings, counting>>
  /\ minted' = IF Entry(u).type = "push" THEN KumaToken(u) ELSE minted
  /\ \/ /\ Works
        /\ monitors' = Append(monitors, Row(Entry(u), KumaToken(u), {}, Entry(u).enabled))
        /\ Knows(u, Len(monitors) + 1, {}, Entry(u).enabled, "create")
     \/ Breaks /\ UNCHANGED monitors /\ Spoilt(u, "failed")

\* The token validate generates is not written.
KumaRewrite(u) ==
  /\ NextEntry(u, "kuma") /\ Entry(u).fit = "ok" /\ Found(u) /\ upload[u].overwrite
  /\ UNCHANGED <<channels, settings, counting, minted>>
  /\ LET on == Old(u).enabled /\ Entry(u).enabled
     IN \/ /\ Works
           /\ monitors' = [monitors EXCEPT ![Old(u).id] = Row(Entry(u), @.token, Old(u).routes, on)]
           /\ Knows(u, Old(u).id, Old(u).routes, on, "update")
        \/ Breaks /\ UNCHANGED monitors /\ Spoilt(u, "failed")

KumaSync(u) ==
  /\ NextEntry(u, "kuma") /\ Entry(u).fit # "unsupported" /\ Found(u) /\ ~upload[u].overwrite /\ Differs(u)
  /\ UNCHANGED <<channels, settings, counting, minted>>
  /\ \/ /\ Works
        /\ monitors' = [monitors EXCEPT ![Old(u).id].enabled = Entry(u).enabled]
        /\ Records(u, "synced")
     \/ Breaks /\ UNCHANGED monitors /\ Spoilt(u, "failed")

-----------------------------------------------------------------------------
Init ==
  /\ \E home \in HomeStates :
       channels = home.channels /\ monitors = home.monitors /\ settings = home.settings
  /\ counting = DOMAIN monitors /\ minted = 10
  /\ upload = [u \in Uploads |-> Unused]
  /\ mishap = FALSE

ConfigImport(u) ==
  \/ StartImport(u)
  \/ PassChannel(u) \/ ReuseChannel(u) \/ InsertChannel(u) \/ EndChannels(u)
  \/ PassEntry(u) \/ RewriteMonitor(u) \/ InsertMonitor(u) \/ EndMonitors(u)
  \/ ApplySettings(u)

KumaImport(u) == StartKuma(u) \/ KumaPass(u) \/ KumaCreate(u) \/ KumaRewrite(u) \/ KumaSync(u)

Next == \E u \in Uploads : ConfigImport(u) \/ KumaImport(u)

Spec == Init /\ [][Next]_transferVars
-----------------------------------------------------------------------------
(* Properties.                                                             *)

Statuses == {"invalid", "duplicate", "skipped", "update", "create", "synced", "failed"}

\* The type of every variable; a channel or a row that is referred to exists.
TypeOK ==
  /\ \A i \in DOMAIN monitors :
       /\ monitors[i].routes \subseteq DOMAIN channels
       /\ monitors[i].token \in 0..minted /\ monitors[i].enabled \in BOOLEAN
  /\ \A u \in Uploads :
       /\ upload[u].stage \in {"new", "channels", "monitors", "settings", "done"}
       /\ Range(upload[u].outcomes) \subseteq Statuses
       /\ \A n \in DOMAIN upload[u].ids : upload[u].ids[n] \in DOMAIN channels /\ channels[upload[u].ids[n]].name = n
  /\ counting \subseteq DOMAIN monitors /\ mishap \in BOOLEAN

\* An import that is done, with nothing else having been written meanwhile.
Alone(u) == upload[u].stage = "done" /\ upload[u].before # <<>>
Fit(file) == {i \in DOMAIN file.monitors : file.monitors[i].fit = "ok"}

\* What was there keeps its place and its token, and is only changed by an entry
\* with its key, if the import may rewrite (or, of a Kuma's, switch) rows.
OldRowsAreKept(q) ==
  LET old == q.before[2]
  IN \A i \in DOMAIN old :
       /\ i \in DOMAIN monitors /\ monitors[i].token = old[i].token /\ Key(monitors[i]) = Key(old[i])
       /\ \/ monitors[i] = old[i]
          \/ /\ q.overwrite
             /\ \E e \in Fit(q.file) : Key(q.file.monitors[e]) = Key(old[i]) /\ q.file.monitors[e].text = monitors[i].text
          \/ q.sync /\ monitors[i] = [old[i] EXCEPT !.enabled = ~@]

\* A key of the file that was not there has one row now; nothing else is new.
NewRowsAreTheFiles(q) ==
  LET old == q.before[2]
      new == Len(old) + 1 .. Len(monitors)
      keys == {Key(q.file.monitors[e]) : e \in Fit(q.file)} \ {Key(old[i]) : i \in DOMAIN old}
  IN /\ {Key(monitors[i]) : i \in new} \subseteq keys
     /\ \A i, j \in new : i # j => Key(monitors[i]) # Key(monitors[j])
     /\ q.clean => \A k \in keys : \E i \in new : Key(monitors[i]) = k

\* A new row tells the channels its entry names and the file lists; a new channel
\* has a name of the file that was not there, once.
NewChannelsAreTheFiles(q) ==
  LET old == q.before[1]
      new == Len(old) + 1 .. Len(channels)
      names == FitChannels(q.file) \ {old[c].name : c \in DOMAIN old}
  IN /\ \A c \in DOMAIN old : channels[c] = old[c]
     /\ {channels[c].name : c \in new} \subseteq names
     /\ \A c, d \in new : c # d => channels[c].name # channels[d].name
     /\ q.clean /\ q.kind = "config" =>
          /\ {channels[c].name : c \in new} = names
          /\ \A i \in Len(q.before[2]) + 1 .. Len(monitors) :
               \E e \in Fit(q.file) :
                 /\ Key(q.file.monitors[e]) = Key(monitors[i])
                 /\ {channels[c].name : c \in monitors[i].routes} = q.file.monitors[e].names \cap FitChannels(q.file)

\* A push monitor brings its token along, unless a row or an earlier entry has it.
TokensAreBrought(q) ==
  \A e \in Fit(q.file) :
    LET entry == q.file.monitors[e]
        used == {q.before[2][i].token : i \in DOMAIN q.before[2]} \cup {q.file.monitors[j].token : j \in 1..(e - 1)}
    IN q.kind = "config" /\ q.outcomes[e] = "create" /\ entry.token \notin used \cup {0} =>
         \E i \in DOMAIN monitors : Key(monitors[i]) = Key(entry) /\ monitors[i].token = entry.token

\* A row that a configuration has paused counts anew when it is resumed ("same as the
\* pause of one row"), whatever else is imported meanwhile.
PausedCountAnew(q) ==
  q.kind = "config" /\ q.clean =>
    \A e \in DOMAIN q.outcomes :
      q.outcomes[e] = "update" /\ ~q.file.monitors[e].enabled => q.plan.monitors[e].existing \notin counting

\* An import that was not disturbed does what its preview says: it makes one row for
\* every key of the file that is not there yet, rewrites only what it may rewrite,
\* makes each missing channel once, brings the tokens along, and importing the same
\* again would make nothing. A statement that fails costs what it would have written.
\* Disturbed or not, it leaves no count of bad rounds to a row it has paused.
ImportsAreFaithful ==
  \A u \in Uploads :
    LET q == upload[u]
    IN /\ PausedCountAnew(q)
       /\ Alone(u) =>
            /\ OldRowsAreKept(q) /\ NewRowsAreTheFiles(q) /\ NewChannelsAreTheFiles(q) /\ TokensAreBrought(q)
            /\ q.clean =>
                 \A e \in DOMAIN q.file.monitors : MonitorStatus(q.file, FALSE, e) # "create"
=============================================================================
