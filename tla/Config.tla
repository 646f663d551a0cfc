------------------------------- MODULE Config -------------------------------
(***************************************************************************)
(* From what an operator writes to what runs: the Caddyfile                 *)
(* (UnmarshalCaddyfile), its detour through JSON, the environment, the      *)
(* defaults and the checks of Provision, and the mu-plugin files that        *)
(* provisioning leaves behind (manageMuPlugins), over starts, reloads,       *)
(* upgrades and an administrator's own edits of those files.                *)
(*                                                                         *)
(* Provision runs by itself, so a load is one step. A value is known by      *)
(* what becomes of it: "some" is one the file gives, "other" one the         *)
(* environment gives, "raw" one with blanks around it or in capitals, and    *)
(* "beyond" a number that is out of its range. Only the Caddyfile and the    *)
(* environment are tidied and checked on their way in; JSON is not.          *)
(*                                                                         *)
(* A definition whose name starts with Wrong is the one that follows it     *)
(* with a plausible bug in it; see Sidekick.tla.                            *)
(***************************************************************************)
EXTENDS Naturals, Sequences, SequencesExt

CONSTANTS
  Families,    \* sets of configurations, by name; a site chooses within one
  MaxLoads,    \* bound: how often a configuration of each family is loaded
  MaxRelease,  \* bound: how often Sidekick is upgraded
  MaxEdits,    \* bound: how often an administrator of each touches a plugin file
  Absent, Edited,  \* what a plugin file can be, besides a release's
  None

-----------------------------------------------------------------------------
(* What can be written. *)

Sizes == {"memory_item", "memory", "stream", "disk_item", "disk", "compress", "range_fill"}
Counts == {"memory_count", "disk_count", "ttl", "collapse_wait"}
Percents == {"memory_percent", "disk_percent"}
Numbers == Sizes \cup Counts \cup Percents
Texts == {"nocache_regex", "static_asset_regex", "purge_path", "purge_url", "metrics",
          "bypass_cache_control", "cache_dir", "purge_header", "purge_token"}
Lists == {"nocache", "nocache_query", "cache_ignore_queries", "cache_key_queries",
          "cache_key_headers", "cache_key_cookies", "cache_response_codes"}
Flags == {"nocache_home", "range_fill", "wp_mu_plugin_enabled"}
Dirs == {"default", "custom"}

\* Texts that are checked, those a Caddyfile may not leave empty, and those it trims.
Checked == Texts \ {"cache_dir", "purge_header", "purge_token"}
Required == {"purge_path", "purge_url", "metrics", "bypass_cache_control"}
Tidied == {"nocache_regex", "static_asset_regex", "bypass_cache_control",
           "purge_header", "purge_token"}

\* A list entry: plain, or an adjustment of the default. " x", " +x" and " " have
\* blanks before them, and so no sign to begin with; "xXX" is x as a class of status
\* codes is written.
Entry == [op : {""}, name : {"d", "e", "x", "", "xXX", " x", " +x", " "}]
         \cup [op : {"+", "-"}, name : {"d", "e", "x", "", "xXX"}]
Plain(n) == [op |-> "", name |-> n]
Blank == Plain("")
DefaultList == <<Plain("d"), Plain("e")>>

Unset == [given |-> FALSE, entries |-> <<>>]
Given(s) == [given |-> TRUE, entries |-> s]

Nothing ==
  [number |-> [o \in Numbers |-> "unset"], text |-> [o \in Texts |-> "unset"],
   list |-> [o \in Lists |-> Unset], flag |-> [o \in Flags |-> "unset"], dir |-> "unset"]

\* Options whose numbers are among values, or are not there.
Options(values) ==
  [number : {n \in [Numbers -> {"unset", "zero", "unlimited", "bad", "beyond"} \cup values] :
               \A o \in Numbers : n[o] = "beyond" => o \in Percents},
   text : {t \in [Texts -> {"unset", "empty", "bad", "raw"} \cup values] :
             \A o \in Texts : /\ t[o] = "bad" => o \in Checked
                             /\ t[o] = "raw" => o \in Tidied},
   list : [Lists -> [given : BOOLEAN, entries : Seq(Entry)]],
   flag : [Flags -> {"unset", "true", "false", "bad"}], dir : {"unset"} \cup Dirs]

\* How the options come to Caddy, and the environment of its process.
Configuration ==
  [how : {"caddyfile", "json"}, file : Options({"some"}), env : Options({"other"})]

\* A list in a Caddyfile is a text split at its commas, and so has an entry.
Listed(c) == c.how = "caddyfile" => \A o \in Lists : c.file.list[o] # Given(<<>>)

ASSUME ConfigAssumption ==
  /\ MaxLoads \in [DOMAIN Families -> Nat] /\ MaxEdits \in [DOMAIN Families -> Nat]
  /\ MaxRelease \in Nat
  /\ \A f \in DOMAIN Families :
       Families[f] \subseteq Configuration /\ \A c \in Families[f] : Listed(c)
  /\ Absent \notin Nat /\ Edited \notin Nat

VARIABLES
  family,   \* the name of those this site chooses from
  env,      \* the environment of the running process
  wrote,    \* what was loaded last: [how, file, env]
  refused,  \* whether that was refused
  running,  \* the options that serve, or None
  plugins,  \* plugins[d]: the plugin file in d: Absent, Edited, or a release's
  touched,  \* ghost: the directories whose file was edited after the last load
  release, loads, edits

counts == <<release, loads, edits>>
vars == <<family, env, wrote, refused, running, plugins, touched, counts>>

NotLoaded == [how |-> "json", file |-> Nothing, env |-> Nothing]

Init ==
  /\ family \in DOMAIN Families
  /\ env = Nothing /\ wrote = NotLoaded /\ refused = FALSE /\ running = None
  /\ plugins = [d \in Dirs |-> Absent]
  /\ touched = {}
  /\ release = 0 /\ loads = 0 /\ edits = 0

-----------------------------------------------------------------------------
(* The Caddyfile and its JSON. *)

\* The entries of s that are not in X, in their order.
Without(s, X) ==
  LET out[i \in 0..Len(s)] ==
        IF i = 0 THEN <<>>
        ELSE IF s[i] \in X THEN out[i - 1] ELSE Append(out[i - 1], s[i])
  IN out[Len(s)]

\* TrimSpace and, for a status code, normalizeResponseCode.
Tidy(o, e) ==
  CASE e.name = " x" -> Plain("x")
    [] e.name = " +x" -> [op |-> "+", name |-> "x"]
    [] e.name = " " -> Blank
    [] e.name = "xXX" /\ o = "cache_response_codes" -> [op |-> e.op, name |-> "x"]
    [] OTHER -> e

Spelled(o, s) == [i \in 1..Len(s) |-> Tidy(o, s[i])]

WrongTrimmed(o, s) ==
  IF o \in {"nocache", "cache_response_codes"} THEN s ELSE Without(Spelled(o, s), {Blank})

\* Only nocache and cache_response_codes keep the blanks of a list.
Trimmed(o, s) ==
  IF o \in {"nocache", "cache_response_codes"} THEN Spelled(o, s)
  ELSE Without(Spelled(o, s), {Blank})

\* parseSize, parsePercent, Atoi and ParseBool, or the decoder of JSON.
WellTyped(f) ==
  /\ \A o \in Numbers : f.number[o] # "bad"
  /\ \A o \in Flags : f.flag[o] # "bad"

\* A percentage below -1 or above 100, a negative wait.
OutOfRange(o, v) == v = "beyond" \/ (o = "collapse_wait" /\ v = "unlimited")

\* Anything wrong in a Caddyfile stops the adapter.
Parses(f) ==
  /\ WellTyped(f)
  /\ \A o \in Numbers : ~OutOfRange(o, f.number[o])
  /\ \A o \in Texts : f.text[o] # "bad"
  /\ \A o \in Required : f.text[o] # "empty"

\* UnmarshalCaddyfile fills in the plugin options before it reads anything, and tidies
\* the texts and the lists.
Unmarshal(f) ==
  [f EXCEPT !.text = [o \in Texts |-> IF @[o] = "raw" THEN "some" ELSE @[o]],
            !.list = [o \in Lists |-> [given |-> @[o].given,
                                       entries |-> Trimmed(o, @[o].entries)]],
            !.flag["wp_mu_plugin_enabled"] = IF @ = "unset" THEN "true" ELSE @,
            !.dir = IF @ = "unset" THEN "default" ELSE @]

\* What omitempty drops: zero, the empty text, false, and the empty list of all but
\* two options.
\* range_fill is a pointer, so that its false is written.
KeptEmpty == {"nocache_query", "cache_ignore_queries"}

WrongKeptFalse == {}
KeptFalse == {"range_fill"}

ToJSON(f) ==
  [f EXCEPT
     !.number = [o \in Numbers |-> IF @[o] = "zero" THEN "unset" ELSE @[o]],
     !.text = [o \in Texts |-> IF @[o] = "empty" THEN "unset" ELSE @[o]],
     !.flag = [o \in Flags |-> IF @[o] = "false" /\ o \notin KeptFalse THEN "unset" ELSE @[o]],
     !.list = [o \in Lists |->
                 IF @[o].entries = <<>> /\ o \notin KeptEmpty THEN Unset ELSE @[o]]]

\* The options as the module gets them.
Module(c) == IF c.how = "caddyfile" THEN ToJSON(Unmarshal(c.file)) ELSE c.file

-----------------------------------------------------------------------------
(* Provision. *)

Written(v) == v \notin {"unset", "zero", "empty"}

\* An environment variable counts if it parses, is in range, is not zero and, for
\* some, not negative.
Usable(o, e) ==
  e = "other" \/ (e = "unlimited" /\ o \notin {"ttl", "collapse_wait"})

Filled(o, v, e) == IF Written(v) THEN v ELSE IF Usable(o, e) THEN e ELSE "default"

\* Percents have no default; the disk's size has none beside a percentage in the file.
Number(m, e) ==
  [o \in Numbers |->
     LET v == Filled(o, m.number[o], e.number[o]) IN
     IF v = "default" /\ (o \in Percents \/ (o = "disk" /\ Written(m.number["disk_percent"])))
       THEN "unset"
     ELSE v]

\* What range_fill_max_size is without a value of its own.
RangeFillMax(n) == IF n["range_fill"] = "default" THEN n["disk_item"] ELSE n["range_fill"]

WrongExclusive(n) == ~(n["disk"] # "unset" /\ n["disk_percent"] # "unset")

Exclusive(n) ==
  /\ ~(n["memory"] # "unset" /\ n["memory_percent"] # "unset")
  /\ ~(n["disk"] # "unset" /\ n["disk_percent"] # "unset")

\* Of the variables, only that of bypass_cache_control is trimmed.
Text(m, e) ==
  [o \in Texts |->
     IF Written(m.text[o]) THEN m.text[o]
     ELSE IF ~Written(e.text[o]) THEN "default"
     ELSE IF o = "bypass_cache_control" /\ e.text[o] = "raw" THEN "other" ELSE e.text[o]]

\* Before the adjustments: the option, the variable, the default. Absent and empty
\* are one to a variable; one that holds only blanks empties the list.
ListBefore(m, e) ==
  [o \in Lists |->
     IF m.list[o].given THEN m.list[o].entries
     ELSE IF e.list[o].given THEN Trimmed(o, e.list[o].entries)
     ELSE DefaultList]

\* resolveListAdjustments: all or none of the entries are adjustments.
IsAdjustment(e) == e.op # ""
Adjustments(s) == {i \in 1..Len(s) : IsAdjustment(s[i])}
Resolves(s) ==
  /\ \A i \in Adjustments(s) : s[i].name # ""
  /\ Adjustments(s) \in {{}, 1..Len(s)}

\* The entries with name n.
Named(n) == {p \in Entry : p.name = n}

WrongAdjust(out, e) ==
  IF e.op = "+" THEN Append(out, Plain(e.name))
  ELSE Without(out, Named(e.name))

\* applyListAdjustments, one entry.
Adjust(out, e) ==
  IF e.op = "-" THEN Without(out, Named(e.name))
  ELSE IF Contains(out, Plain(e.name)) THEN out
  ELSE Append(out, Plain(e.name))

\* And all of them, one after the other.
Adjusted(s) ==
  LET out[i \in 0..Len(s)] ==
        IF i = 0 THEN DefaultList ELSE Adjust(out[i - 1], s[i])
  IN out[Len(s)]

Resolved(s) == IF Adjustments(s) = {} THEN s ELSE Adjusted(s)

Flag(m, e, o, default) ==
  IF m.flag[o] # "unset" THEN m.flag[o]
  ELSE IF e.flag[o] \in {"true", "false"} THEN e.flag[o] ELSE default

\* Only true is looked for in the variable of nocache_home.
NoCacheHome(m, e) ==
  IF "true" \in {m.flag["nocache_home"], e.flag["nocache_home"]} THEN "true" ELSE "false"

\* The variable beats the option, and a false that came without a directory is
\* taken for a missing one.
PluginEnabled(m, e) ==
  LET option == m.flag["wp_mu_plugin_enabled"]
      variable == e.flag["wp_mu_plugin_enabled"]
      missing == option # "true" /\ m.dir \in {"unset", "default"}
  IN IF variable \in {"true", "false"} THEN variable
     ELSE IF variable = "bad" \/ option = "true" \/ missing THEN "true" ELSE "false"

PluginDir(m, e) ==
  IF e.dir # "unset" THEN e.dir
  ELSE IF m.dir # "unset" THEN m.dir ELSE "default"

\* SetWithKey uses the memory tier if both its limits are positive.
MemoryTier(n) == {n["memory"], n["memory_item"]} \cap {"unset", "zero", "unlimited"} = {}

\* The options that run.
Provision(m, e) ==
  LET n == Number(m, e) IN
  [number |-> [n EXCEPT !["range_fill"] = RangeFillMax(n)],
   text |-> Text(m, e),
   list |-> [o \in Lists |-> Resolved(ListBefore(m, e)[o])],
   flag |-> [o \in Flags |->
               CASE o = "nocache_home" -> NoCacheHome(m, e)
                 [] o = "range_fill" -> Flag(m, e, o, "true")
                 [] OTHER -> PluginEnabled(m, e)],
   dir |-> PluginDir(m, e),
   memoryTier |-> MemoryTier(n)]

\* The path of the metrics is checked only if it comes from the environment; a way to
\* bypass is compared as it is.
TextsValid(m, e) ==
  /\ \A o \in Texts : Text(m, e)[o] = "bad" => o = "metrics" /\ m.text[o] = "bad"
  /\ Text(m, e)["bypass_cache_control"] # "raw"

\* Whether Provision accepts the module's options; the first check is made before
\* the environment is read, the second after.
Provisions(m, e) ==
  /\ Exclusive([o \in Numbers |-> IF Written(m.number[o]) THEN m.number[o] ELSE "unset"])
  /\ Exclusive(Number(m, e))
  /\ TextsValid(m, e)
  /\ \A o \in Lists : Resolves(ListBefore(m, e)[o])

Accepts(c) ==
  /\ IF c.how = "caddyfile" THEN Parses(c.file) ELSE WellTyped(c.file)
  /\ Provisions(Module(c), c.env)

-----------------------------------------------------------------------------
(* The mu-plugin files. *)

WrongInstalled(enabled, file) ==
  IF enabled = "true" THEN IF file = Absent THEN release ELSE file
  ELSE IF file = release THEN Absent ELSE file

\* manageMuPlugins: an enabled option installs this release's file over any other; a
\* disabled one removes it, and leaves a file of any other content alone. Reading or
\* writing a file may fail.
Managed(enabled, file) ==
  IF enabled = "true" THEN release
  ELSE IF file = release THEN Absent ELSE file

ManageMuPlugins(opts) ==
  \E fails \in BOOLEAN :
    /\ plugins' = IF fails THEN plugins
                  ELSE [plugins EXCEPT ![opts.dir] =
                          Managed(opts.flag["wp_mu_plugin_enabled"], @)]
    /\ touched' = IF fails THEN {opts.dir} ELSE {}

-----------------------------------------------------------------------------
(* Steps. *)

\* Caddy provisions the configuration c, and serves by it or refuses it.
Provisioned(c) ==
  /\ wrote' = c
  /\ env' = c.env
  /\ IF Accepts(c)
       THEN LET opts == Provision(Module(c), c.env) IN
            /\ refused' = FALSE
            /\ running' = opts
            /\ ManageMuPlugins(opts)
       ELSE /\ refused' = TRUE
            /\ UNCHANGED <<running, plugins, touched>>

\* At its start, or, in the same environment, for a reload.
Load ==
  /\ loads < MaxLoads[family]
  /\ loads' = loads + 1
  /\ \E c \in Families[family] : (running # None => c.env = env) /\ Provisioned(c)
  /\ UNCHANGED <<family, release, edits>>

\* The process ends, and perhaps the next one is of a newer release.
Stop ==
  /\ running # None
  /\ running' = None
  /\ release' \in {release, release + 1} /\ release' =< MaxRelease
  /\ UNCHANGED <<family, env, wrote, refused, plugins, touched, loads, edits>>

\* An administrator edits or deletes the plugin file in d.
EditPlugin(d) ==
  /\ edits < MaxEdits[family]
  /\ edits' = edits + 1
  /\ plugins' \in {[plugins EXCEPT ![d] = x] : x \in {Absent, Edited}}
  /\ touched' = touched \cup {d}
  /\ UNCHANGED <<family, env, wrote, refused, running, release, loads>>

Next ==
  \/ Load
  \/ Stop
  \/ \E d \in Dirs : EditPlugin(d)

Spec == Init /\ [][Next]_vars

-----------------------------------------------------------------------------
(* Properties. *)

\* The running options came from the configuration loaded last.
Runs == running # None /\ ~refused

\* What the file sets is what runs, through the JSON, past the environment and the
\* defaults (sidekick.go:80-84 tells of a false that was lost on the way), except: 0,
\* the value of an absent option, for which a variable or the default steps in; a
\* false of nocache_home, against a variable; and the plugin's options, which the
\* environment overrides, and whose false is taken back beside the default directory.
\* A text from JSON is not tidied.
SettingsKept ==
  LET f == wrote.file  e == wrote.env IN
  Runs =>
    /\ \A o \in Numbers : Written(f.number[o]) => running.number[o] = f.number[o]
    /\ \A o \in Texts : Written(f.text[o]) =>
         running.text[o] = IF wrote.how = "caddyfile" /\ f.text[o] = "raw" THEN "some" ELSE f.text[o]
    /\ f.flag["range_fill"] # "unset" => running.flag["range_fill"] = f.flag["range_fill"]
    /\ f.flag["nocache_home"] = "true" => running.flag["nocache_home"] = "true"
    /\ f.flag["wp_mu_plugin_enabled"] # "unset" =>
         \/ running.flag["wp_mu_plugin_enabled"] = f.flag["wp_mu_plugin_enabled"]
         \/ e.flag["wp_mu_plugin_enabled"] # "unset"
         \/ f.flag["wp_mu_plugin_enabled"] = "false" /\ f.dir # "custom"
    /\ f.dir # "unset" => running.dir \in {f.dir, e.dir}

Names(s) == {s[i].name : i \in 1..Len(s)} \ {""}

\* The names a list stands for: those it lists, or those of the default and of the
\* "+" entries that no later entry takes back (README.md:541-552).
StandsFor(s) ==
  IF Adjustments(s) = {} THEN Names(s)
  ELSE {n \in Names(DefaultList) \cup Names(s) :
          LET at == {i \in 1..Len(s) : s[i].name = n} IN
          IF at = {} THEN n \in Names(DefaultList)
          ELSE \E i \in at : s[i].op = "+" /\ \A j \in at : j =< i}

\* A list option runs as the list in the file, else the one in its variable, stands
\* for, adjusted entries once each: tidied, or to the letter if it comes in JSON. The
\* empty list of a cache_key option does not survive the JSON: the variable or the
\* default takes its place.
ListsAsWritten ==
  Runs =>
    \A o \in Lists :
      LET f == wrote.file.list[o]  e == wrote.env.list[o]
          given == IF f.given THEN IF wrote.how = "json" THEN f.entries ELSE Spelled(o, f.entries)
                   ELSE IF e.given THEN Spelled(o, e.entries) ELSE DefaultList
      IN \/ /\ Names(running.list[o]) = StandsFor(given)
            /\ Adjustments(given) # {} => IsInjective(running.list[o])
         \/ /\ o \in {"cache_key_queries", "cache_key_headers", "cache_key_cookies"}
            /\ wrote.how = "caddyfile" /\ f.given /\ Names(Spelled(o, f.entries)) = {}

\* The memory tier is in use whatever is configured: 0, "disabled", is the default
\* again (README.md:789). Only -1, "unlimited", turns it off, by a comparison.
MemoryTierUsed ==
  Runs /\ ~running.memoryTier =>
    \E o \in {"memory", "memory_item"} :
      "unlimited" \in {wrote.file.number[o], wrote.env.number[o]}

\* What the operator wrote is what runs (UnmarshalCaddyfile, Provision): the values,
\* the lists and the memory tier.
RunsAsWritten == SettingsKept /\ ListsAsWritten /\ MemoryTierUsed

Set(o) == Written(wrote.file.number[o]) \/ Usable(o, wrote.env.number[o])

\* A configuration is refused for a malformed value, a list that mixes adjustments
\* with entries, or a size beside a percentage, and whenever it is one of these; a
\* number out of range, an empty text and the path of the metrics are held against a
\* Caddyfile only, and a bypass_cache_control that is not tidy against JSON only. But
\* cache_memory_max_percent is refused alone, because the default size is filled in
\* before the two are compared, and so is a percentage of the disk that comes from
\* the environment, unless the file gives one, or 0 besides.
RefusedForCause ==
  LET f == wrote.file  e == wrote.env IN
  loads > 0 =>
    (refused <=>
      \/ ~WellTyped(f)
      \/ wrote.how = "caddyfile" /\ \E o \in Numbers : OutOfRange(o, f.number[o])
      \/ wrote.how = "caddyfile" /\ \E o \in Required : f.text[o] = "empty"
      \/ wrote.how = "json" /\ f.text["bypass_cache_control"] = "raw"
      \/ \E o \in Texts : ~Written(f.text[o]) /\ e.text[o] = "bad"
      \/ \E o \in Texts : f.text[o] = "bad" /\ (wrote.how = "json" => o # "metrics")
      \/ \E o \in Lists : ~Resolves(ListBefore(Module(wrote), e)[o])
      \/ Set("memory_percent")
      \/ Set("disk_percent") /\ (Set("disk") \/ ~Written(f.number["disk_percent"])))

\* What only a Caddyfile refuses, or mends: numbers out of range, texts that are empty,
\* metrics at a malformed path, and a bypass_cache_control or a list that is not tidy.
\* The empty list of a cache_key option is another matter: it is lost.
FormMatters(f) ==
  \/ \E o \in Numbers : OutOfRange(o, f.number[o])
  \/ \E o \in Required : f.text[o] = "empty"
  \/ f.text["metrics"] = "bad" \/ f.text["bypass_cache_control"] = "raw"
  \/ \E o \in Lists : \/ Trimmed(o, f.list[o].entries) # f.list[o].entries
                      \/ f.list[o].given /\ Names(f.list[o].entries) = {}

\* The same options are accepted, and run, whether they come in a Caddyfile or in JSON,
\* except as FormMatters says and, when both are accepted, for a text or a list that is
\* not tidy, an empty list of a cache_key option, and the plugin: a Caddyfile that does
\* not mention it enables it, in any directory, and one that disables it cannot say so.
SameEitherWay ==
  LET f == wrote.file
      c == [wrote EXCEPT !.how = IF @ = "json" THEN "caddyfile" ELSE "json"]
      other == Provision(Module(c), c.env)
  IN
  /\ loads > 0 /\ ~FormMatters(f) => (Accepts(c) <=> ~refused)
  /\ Runs /\ Accepts(c) =>
       /\ other.number = running.number /\ other.dir = running.dir
       /\ \A o \in Texts : other.text[o] = running.text[o] \/ f.text[o] = "raw"
       /\ \A o \in Lists :
            \/ Names(other.list[o]) = Names(running.list[o])
            \/ Spelled(o, f.list[o].entries) # f.list[o].entries
            \/ f.list[o].given /\ Names(f.list[o].entries) = {}
       /\ \A o \in Flags :
            \/ other.flag[o] = running.flag[o]
            \/ /\ o = "wp_mu_plugin_enabled" /\ f.dir = "custom"
               /\ f.flag[o] = "unset"

\* An enabled plugin is this release's, a disabled one is not there (README.md:448-451),
\* since the last load, if nobody touched the file. A file an older release installed
\* outlives the option: it is not the embedded one any more.
PluginFollows ==
  Runs /\ running.dir \notin touched =>
    (plugins[running.dir] = release <=> running.flag["wp_mu_plugin_enabled"] = "true")

=============================================================================
