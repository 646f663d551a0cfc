---------------------------- MODULE ConfigProofs -----------------------------
(***************************************************************************)
(* The properties of Config.tla, proved for every set of configurations, and*)
(* any number of loads, upgrades and edits: what the operator wrote is what *)
(* runs, values and lists; a Caddyfile and JSON differ only as FormMatters  *)
(* and SameEitherWay say; exactly the wrong configurations are refused; and *)
(* the plugin's file follows its option.                                    *)
(*                                                                          *)
(* A load is a function of the configuration, so all but the last are facts *)
(* about Module and Provision, carried from the load to the states after it.*)
(* Lists may be of any length.                                              *)
(***************************************************************************)
EXTENDS Config, WellFoundedInduction, TLAPS

FileOptions == Options({"some"})
EnvOptions == Options({"other"})
PluginOption == "wp_mu_plugin_enabled"

-----------------------------------------------------------------------------
(* What the module gets. *)

\* A Caddyfile's way through JSON, option by option.
LEMMA ModuleOfCaddyfile ==
  ASSUME NEW c \in Configuration, c.how = "caddyfile"
  PROVE  /\ \A o \in Texts : Module(c).text[o] =
              IF c.file.text[o] = "raw" THEN "some"
              ELSE IF c.file.text[o] = "empty" THEN "unset" ELSE c.file.text[o]
         /\ \A o \in Numbers : Module(c).number[o] =
              IF c.file.number[o] = "zero" THEN "unset" ELSE c.file.number[o]
         /\ \A o \in Flags \ {PluginOption} : Module(c).flag[o] =
              IF c.file.flag[o] = "false" /\ o # "range_fill" THEN "unset"
              ELSE c.file.flag[o]
         /\ Module(c).flag[PluginOption] =
              IF c.file.flag[PluginOption] = "unset" THEN "true"
              ELSE IF c.file.flag[PluginOption] = "false" THEN "unset" ELSE c.file.flag[PluginOption]
         /\ Module(c).dir = IF c.file.dir = "unset" THEN "default" ELSE c.file.dir
<1> PICK f \in FileOptions : f = c.file
  BY DEF Configuration, FileOptions
<1> DEFINE u == Unmarshal(f)
           j == ToJSON(u)
<1>1. /\ u.text = [o \in Texts |-> IF f.text[o] = "raw" THEN "some" ELSE f.text[o]]
      /\ u.number = f.number
      /\ u.dir = IF f.dir = "unset" THEN "default" ELSE f.dir
      /\ u.flag = [f.flag EXCEPT ![PluginOption] =
                     IF f.flag[PluginOption] = "unset" THEN "true" ELSE f.flag[PluginOption]]
  BY DEF Unmarshal, FileOptions, Options, PluginOption
<1>2. /\ j.text = [o \in Texts |-> IF u.text[o] = "empty" THEN "unset" ELSE u.text[o]]
      /\ j.dir = u.dir
      /\ j.number = [o \in Numbers |-> IF u.number[o] = "zero" THEN "unset" ELSE u.number[o]]
      /\ j.flag = [o \in Flags |->
                     IF u.flag[o] = "false" /\ o \notin KeptFalse THEN "unset" ELSE u.flag[o]]
  BY DEF ToJSON, Unmarshal, FileOptions, Options
<1>3. QED
  BY <1>1, <1>2 DEF Module, KeptFalse, FileOptions, Options, Flags, PluginOption

LEMMA ModuleOfJSON ==
  ASSUME NEW c \in Configuration, c.how # "caddyfile"
  PROVE  Module(c) = c.file
  BY DEF Module

\* Whatever the way, a value that is written stays, and 0 is as good as none.
LEMMA ModuleNumbers ==
  ASSUME NEW c \in Configuration, NEW o \in Numbers
  PROVE  /\ Written(Module(c).number[o]) <=> Written(c.file.number[o])
         /\ Written(c.file.number[o]) => Module(c).number[o] = c.file.number[o]
         /\ Module(c).number[o] # "default"
<1>1. c.file.number[o] \in {"unset", "zero", "unlimited", "bad", "beyond", "some"}
  BY DEF Configuration, Options
<1>2. CASE c.how = "caddyfile"
  BY <1>1, <1>2, ModuleOfCaddyfile DEF Written
<1>3. CASE c.how # "caddyfile"
  BY <1>1, <1>3, ModuleOfJSON DEF Written
<1>4. QED
  BY <1>2, <1>3

\* A text that is written stays, but is tidied in a Caddyfile.
LEMMA ModuleTexts ==
  ASSUME NEW c \in Configuration, NEW o \in Texts
  PROVE  /\ Written(Module(c).text[o]) <=> Written(c.file.text[o])
         /\ Written(c.file.text[o]) =>
              Module(c).text[o] = IF c.how = "caddyfile" /\ c.file.text[o] = "raw" THEN "some"
                                  ELSE c.file.text[o]
<1>1. c.file.text[o] \in {"unset", "empty", "bad", "raw", "some"}
  BY DEF Configuration, Options
<1>2. CASE c.how = "caddyfile"
  BY <1>1, <1>2, ModuleOfCaddyfile DEF Written
<1>3. CASE c.how # "caddyfile"
  BY <1>1, <1>3, ModuleOfJSON DEF Written
<1>4. QED
  BY <1>2, <1>3

LEMMA ModuleDir ==
  ASSUME NEW c \in Configuration
  PROVE  /\ Module(c).dir \in {"unset", "default", "custom"}
         /\ c.file.dir # "unset" => Module(c).dir = c.file.dir
<1>1. c.file.dir \in {"unset", "default", "custom"}
  BY DEF Configuration, Options, Dirs
<1>2. QED
  BY <1>1, ModuleOfCaddyfile, ModuleOfJSON

-----------------------------------------------------------------------------
(* What Provision makes of it.                                             *)

Running(c) == Provision(Module(c), c.env)

\* Each number: the file's, else the variable's, else the default or none.
LEMMA NumberOf ==
  ASSUME NEW c \in Configuration, NEW o \in Numbers
  PROVE  LET n == Number(Module(c), c.env)[o]
             f == c.file.number[o]
             e == c.env.number[o]
         IN  /\ Written(f) => n = f
             /\ ~Written(f) /\ Usable(o, e) => n = e
             /\ ~Written(f) /\ ~Usable(o, e) =>
                  n = IF \/ o \in Percents
                         \/ o = "disk" /\ Written(c.file.number["disk_percent"])
                      THEN "unset" ELSE "default"
<1> DEFINE v == Filled(o, Module(c).number[o], c.env.number[o])
<1>1. /\ Number(Module(c), c.env)[o] =
           IF /\ v = "default"
              /\ \/ o \in Percents
                 \/ o = "disk" /\ Written(c.file.number["disk_percent"])
           THEN "unset" ELSE v
  <2>1. "disk_percent" \in Numbers
    BY DEF Numbers, Percents
  <2>2. QED
    BY <2>1, ModuleNumbers DEF Number
<1>2. Usable(o, c.env.number[o]) => c.env.number[o] # "default"
  BY DEF Usable
<1>3. QED
  BY <1>1, <1>2, ModuleNumbers DEF Filled

\* A number that is set is there: the default fills in for any other but a percentage.
LEMMA NumberThere ==
  ASSUME NEW c \in Configuration, NEW o \in Numbers
  PROVE  Number(Module(c), c.env)[o] # "unset" <=>
           \/ Written(c.file.number[o]) \/ Usable(o, c.env.number[o])
           \/ /\ o \notin Percents
              /\ ~(o = "disk" /\ Written(c.file.number["disk_percent"]))
  BY NumberOf DEF Written, Usable

\* What the file sets is what runs, as SettingsKept has it.
LEMMA Kept ==
  ASSUME NEW c \in Configuration, Accepts(c)
  PROVE  LET f == c.file  e == c.env  r == Running(c) IN
         /\ \A o \in Numbers : Written(f.number[o]) => r.number[o] = f.number[o]
         /\ \A o \in Texts : Written(f.text[o]) =>
              r.text[o] = IF c.how = "caddyfile" /\ f.text[o] = "raw" THEN "some" ELSE f.text[o]
         /\ f.flag["range_fill"] # "unset" => r.flag["range_fill"] = f.flag["range_fill"]
         /\ f.flag["nocache_home"] = "true" => r.flag["nocache_home"] = "true"
         /\ f.flag[PluginOption] # "unset" =>
              \/ r.flag[PluginOption] = f.flag[PluginOption]
              \/ e.flag[PluginOption] # "unset"
              \/ f.flag[PluginOption] = "false" /\ f.dir # "custom"
         /\ f.dir # "unset" => r.dir \in {f.dir, e.dir}
<1> DEFINE m == Module(c)
           n == Number(m, c.env)
           r == Running(c)
<1>1. ASSUME NEW o \in Numbers, Written(c.file.number[o])
      PROVE  r.number[o] = c.file.number[o]
  <2>1. n[o] = c.file.number[o] /\ n[o] # "default"
    <3>1. c.file.number[o] \in {"unset", "zero", "unlimited", "bad", "beyond", "some"}
      BY DEF Configuration, Options
    <3>2. QED
      BY <1>1, <3>1, NumberOf
  <2>2. r.number = [n EXCEPT !["range_fill"] = RangeFillMax(n)] /\ n = [p \in Numbers |-> n[p]]
    BY DEF Running, Provision, Number
  <2>3. o = "range_fill" => RangeFillMax(n) = n[o]
    BY <2>1 DEF RangeFillMax
  <2>4. QED
    BY <2>1, <2>2, <2>3
<1>2. ASSUME NEW o \in Texts, Written(c.file.text[o])
      PROVE  r.text[o] = IF c.how = "caddyfile" /\ c.file.text[o] = "raw" THEN "some"
                         ELSE c.file.text[o]
  BY <1>2, ModuleTexts DEF Running, Provision, Text
<1>3. /\ r.flag["nocache_home"] = NoCacheHome(m, c.env)
      /\ r.flag["range_fill"] = Flag(m, c.env, "range_fill", "true")
      /\ r.flag[PluginOption] = PluginEnabled(m, c.env)
      /\ r.dir = PluginDir(m, c.env)
  BY DEF Running, Provision, Flags, PluginOption
<1>4. c.file.flag["range_fill"] # "unset" => r.flag["range_fill"] = c.file.flag["range_fill"]
  <2>1. m.flag["range_fill"] = c.file.flag["range_fill"]
    BY ModuleOfCaddyfile, ModuleOfJSON DEF Flags, PluginOption
  <2>2. QED
    BY <1>3, <2>1 DEF Flag
<1>5. c.file.flag["nocache_home"] = "true" => r.flag["nocache_home"] = "true"
  <2>1. c.file.flag["nocache_home"] = "true" => m.flag["nocache_home"] = "true"
    BY ModuleOfCaddyfile, ModuleOfJSON DEF Flags, PluginOption
  <2>2. QED
    BY <1>3, <2>1 DEF NoCacheHome
<1>6. ASSUME c.file.flag[PluginOption] # "unset", c.env.flag[PluginOption] = "unset",
             ~(c.file.flag[PluginOption] = "false" /\ c.file.dir # "custom")
      PROVE  r.flag[PluginOption] = c.file.flag[PluginOption]
  <2>1. WellTyped(c.file)
    BY DEF Accepts, Parses
  <2>2. c.file.flag[PluginOption] \in {"true", "false"}
    BY <1>6, <2>1 DEF WellTyped, Configuration, Options, Flags, PluginOption
  <2>3. CASE c.file.flag[PluginOption] = "true"
    <3>1. m.flag[PluginOption] = "true"
      BY <2>3, ModuleOfCaddyfile, ModuleOfJSON
    <3>2. QED
      BY <1>3, <1>6, <2>3, <3>1 DEF PluginEnabled, PluginOption
  <2>4. CASE c.file.flag[PluginOption] = "false"
    <3>1. m.flag[PluginOption] # "true" /\ m.dir = "custom"
      BY <1>6, <2>4, ModuleOfCaddyfile, ModuleOfJSON
    <3>2. QED
      BY <1>3, <1>6, <2>4, <3>1 DEF PluginEnabled, PluginOption
  <2>5. QED
    BY <2>2, <2>3, <2>4
<1>7. c.file.dir # "unset" => r.dir \in {c.file.dir, c.env.dir}
  BY <1>3, ModuleDir DEF PluginDir
<1>8. QED
  BY <1>1, <1>2, <1>4, <1>5, <1>6, <1>7

LEMMA TierOf ==
  ASSUME NEW c \in Configuration, ~Running(c).memoryTier
  PROVE  \E o \in {"memory", "memory_item"} :
           "unlimited" \in {c.file.number[o], c.env.number[o]}
<1> DEFINE n == Number(Module(c), c.env)
<1>1. ~MemoryTier(n)
  BY DEF Running, Provision
<1>2. PICK o \in {"memory", "memory_item"} : n[o] \in {"unset", "zero", "unlimited"}
  BY <1>1 DEF MemoryTier
<1>3. o \in Numbers /\ o \notin Percents /\ o # "disk"
  BY DEF Numbers, Sizes, Percents
<1>4. n[o] = "unlimited"
  BY <1>2, <1>3, NumberOf DEF Written, Usable
<1>5. QED
  BY <1>3, <1>4, NumberOf

-----------------------------------------------------------------------------
(* What is refused.                                                        *)

SetIn(c, o) == Written(c.file.number[o]) \/ Usable(o, c.env.number[o])

\* The reasons to refuse a configuration, as RefusedForCause has them.
Cause(c) ==
  LET f == c.file  e == c.env IN
  \/ ~WellTyped(f)
  \/ c.how = "caddyfile" /\ \E o \in Numbers : OutOfRange(o, f.number[o])
  \/ c.how = "caddyfile" /\ \E o \in Required : f.text[o] = "empty"
  \/ c.how = "json" /\ f.text["bypass_cache_control"] = "raw"
  \/ \E o \in Texts : ~Written(f.text[o]) /\ e.text[o] = "bad"
  \/ \E o \in Texts : f.text[o] = "bad" /\ (c.how = "json" => o # "metrics")
  \/ \E o \in Lists : ~Resolves(ListBefore(Module(c), e)[o])
  \/ SetIn(c, "memory_percent")
  \/ SetIn(c, "disk_percent") /\ (SetIn(c, "disk") \/ ~Written(f.number["disk_percent"]))

\* The second comparison of a size with its percentage decides: what the first one
\* refuses, it refuses too.
LEMMA ExclusiveMeans ==
  ASSUME NEW c \in Configuration
  PROVE  LET m == Module(c)
             first == [o \in Numbers |-> IF Written(m.number[o]) THEN m.number[o] ELSE "unset"]
         IN  Exclusive(first) /\ Exclusive(Number(m, c.env)) <=>
               /\ ~SetIn(c, "memory_percent")
               /\ ~(/\ SetIn(c, "disk_percent")
                    /\ SetIn(c, "disk") \/ ~Written(c.file.number["disk_percent"]))
<1> DEFINE m == Module(c)
           n == Number(m, c.env)
           first == [o \in Numbers |-> IF Written(m.number[o]) THEN m.number[o] ELSE "unset"]
<1>1. /\ {"memory", "memory_percent", "disk", "disk_percent"} \subseteq Numbers
      /\ Percents = {"memory_percent", "disk_percent"}
  BY DEF Numbers, Sizes, Percents
<1>2. \A o \in Numbers : first[o] # "unset" <=> Written(c.file.number[o])
  BY ModuleNumbers DEF Written
<1>3. n["memory"] # "unset"
  BY <1>1, NumberThere
<1>4. /\ n["memory_percent"] # "unset" <=> SetIn(c, "memory_percent")
      /\ n["disk_percent"] # "unset" <=> SetIn(c, "disk_percent")
  BY <1>1, NumberThere DEF SetIn
<1>5. n["disk"] # "unset" <=>
        SetIn(c, "disk") \/ ~Written(c.file.number["disk_percent"])
  BY <1>1, NumberThere DEF SetIn
<1>6. Exclusive(n) <=>
        /\ ~SetIn(c, "memory_percent")
        /\ ~(/\ SetIn(c, "disk_percent")
             /\ SetIn(c, "disk") \/ ~Written(c.file.number["disk_percent"]))
  BY <1>3, <1>4, <1>5 DEF Exclusive
<1>7. Exclusive(n) => Exclusive(first)
  BY <1>1, <1>2, <1>6 DEF Exclusive, SetIn
<1>8. QED
  BY <1>6, <1>7

\* A malformed text is refused, but for the path of the metrics that comes in JSON; and
\* a bypass_cache_control that comes in JSON is to be tidy.
LEMMA TextsMean ==
  ASSUME NEW c \in Configuration,
         c.how = "caddyfile" => \A o \in Texts : c.file.text[o] # "bad"
  PROVE  TextsValid(Module(c), c.env) <=>
         /\ ~(c.how = "json" /\ c.file.text["bypass_cache_control"] = "raw")
         /\ ~\E o \in Texts : ~Written(c.file.text[o]) /\ c.env.text[o] = "bad"
         /\ ~\E o \in Texts : c.file.text[o] = "bad" /\ (c.how = "json" => o # "metrics")
<1> DEFINE m == Module(c)
           bypass == "bypass_cache_control"
<1>1. c.how \in {"caddyfile", "json"}
  BY DEF Configuration
<1>2. ASSUME NEW o \in Texts
      PROVE  /\ c.file.text[o] \in {"unset", "empty", "bad", "raw", "some"}
             /\ c.env.text[o] \in {"unset", "empty", "bad", "raw", "other"}
  BY DEF Configuration, Options
<1>3. ASSUME NEW o \in Texts
      PROVE  /\ Text(m, c.env)[o] = "bad" <=>
                  IF Written(c.file.text[o]) THEN c.file.text[o] = "bad" ELSE c.env.text[o] = "bad"
             /\ m.text[o] = "bad" <=> c.file.text[o] = "bad"
  <2>1. Text(m, c.env)[o] =
          IF Written(m.text[o]) THEN m.text[o]
          ELSE IF ~Written(c.env.text[o]) THEN "default"
          ELSE IF o = bypass /\ c.env.text[o] = "raw" THEN "other" ELSE c.env.text[o]
    BY DEF Text
  <2>2. CASE Written(c.file.text[o])
    BY <1>2, <2>1, <2>2, ModuleTexts
  <2>3. CASE ~Written(c.file.text[o])
    BY <1>2, <2>1, <2>3, ModuleTexts DEF Written
  <2>4. QED
    BY <2>2, <2>3
<1>4. bypass \in Texts
  BY DEF Texts
<1>5. Text(m, c.env)[bypass] = "raw" <=> c.how = "json" /\ c.file.text[bypass] = "raw"
  <2>1. Text(m, c.env)[bypass] =
          IF Written(m.text[bypass]) THEN m.text[bypass]
          ELSE IF ~Written(c.env.text[bypass]) THEN "default"
          ELSE IF c.env.text[bypass] = "raw" THEN "other" ELSE c.env.text[bypass]
    BY <1>4 DEF Text
  <2>2. CASE Written(c.file.text[bypass])
    BY <1>1, <1>4, <2>1, <2>2, ModuleTexts
  <2>3. CASE ~Written(c.file.text[bypass])
    BY <1>4, <2>1, <2>3, ModuleTexts DEF Written
  <2>4. QED
    BY <2>2, <2>3
<1>6. Written("bad")
  BY DEF Written
<1>7. (\A o \in Texts : Text(m, c.env)[o] = "bad" => o = "metrics" /\ m.text[o] = "bad") <=>
        \A o \in Texts :
          /\ ~(~Written(c.file.text[o]) /\ c.env.text[o] = "bad")
          /\ ~(c.file.text[o] = "bad" /\ o # "metrics")
  BY <1>3, <1>6
<1>8. TextsValid(m, c.env) <=>
        /\ ~(c.how = "json" /\ c.file.text[bypass] = "raw")
        /\ \A o \in Texts :
             /\ ~(~Written(c.file.text[o]) /\ c.env.text[o] = "bad")
             /\ ~(c.file.text[o] = "bad" /\ o # "metrics")
  BY <1>5, <1>7 DEF TextsValid
<1>9. QED
  BY <1>1, <1>8

LEMMA RefusalMeans ==
  ASSUME NEW c \in Configuration
  PROVE  ~Accepts(c) <=> Cause(c)
<1> DEFINE m == Module(c)
           first == [o \in Numbers |-> IF Written(m.number[o]) THEN m.number[o] ELSE "unset"]
<1>1. Accepts(c) <=>
        /\ WellTyped(c.file)
        /\ c.how = "caddyfile" =>
             /\ \A o \in Numbers : ~OutOfRange(o, c.file.number[o])
             /\ \A o \in Texts : c.file.text[o] # "bad"
             /\ \A o \in Required : c.file.text[o] # "empty"
        /\ Exclusive(first) /\ Exclusive(Number(m, c.env))
        /\ TextsValid(m, c.env)
        /\ \A o \in Lists : Resolves(ListBefore(m, c.env)[o])
  BY DEF Accepts, Parses, Provisions
<1>2. c.how \in {"caddyfile", "json"}
  BY DEF Configuration
<1>3. CASE c.how = "caddyfile" /\ \E o \in Texts : c.file.text[o] = "bad"
  BY <1>1, <1>3 DEF Cause
<1>4. CASE c.how = "caddyfile" => \A o \in Texts : c.file.text[o] # "bad"
  BY <1>1, <1>2, <1>4, ExclusiveMeans, TextsMean DEF Cause
<1>5. QED
  BY <1>3, <1>4

-----------------------------------------------------------------------------
(* Loops over a list.                                                      *)

\* Induction up to n: a set that misses a number misses a least one.
LEMMA CountUp ==
  ASSUME NEW n \in Nat, NEW T, 0 \in T,
         \A i \in 1..n : i - 1 \in T => i \in T
  PROVE  \A i \in 0..n : i \in T
<1> DEFINE M == (0..n) \ T
<1>1. SUFFICES ASSUME M # {} PROVE FALSE
  OBVIOUS
<1>2. PICK x \in M : \A y \in M : ~(<<y, x>> \in OpToRel(<, Nat))
  <2> HIDE DEF M
  <2>1. M \subseteq Nat
    BY DEF M
  <2>2. QED
    BY <1>1, <2>1, NatLessThanWellFounded, WFMin
<1>3. \A y \in M : ~(y < x)
  <2>1. x \in Nat /\ \A y \in M : y \in Nat
    OBVIOUS
  <2>2. QED
    BY <1>2, <2>1 DEF OpToRel
<1>4. x \in 1..n /\ x - 1 \in 0..n /\ x - 1 < x
  OBVIOUS
<1>5. x - 1 \in T
  BY <1>3, <1>4
<1>6. QED
  BY <1>4, <1>5

\* F goes from v by the steps.
Goes(F, n, v, step) == F[0] = v /\ \A i \in 1..n : F[i] = step[i][F[i - 1]]

\* There is such a function.
LEMMA LoopExists ==
  ASSUME NEW n \in Nat, NEW V, NEW v \in V, NEW step \in [1..n -> [V -> V]]
  PROVE  \E F \in [0..n -> V] : Goes(F, n, v, step)
<1> DEFINE T == {m \in 0..n : \E F \in [0..m -> V] : Goes(F, m, v, step)}
<1>1. 0 \in T
  <2> DEFINE F == [i \in 0..0 |-> v]
  <2>1. F \in [0..0 -> V] /\ Goes(F, 0, v, step)
    BY DEF Goes
  <2>2. QED
    BY <2>1
<1>2. ASSUME NEW x \in 1..n, x - 1 \in T
      PROVE  x \in T
  <2>1. x - 1 \in 0..n /\ x \in 0..n
    OBVIOUS
  <2>2. PICK F \in [0..(x - 1) -> V] : Goes(F, x - 1, v, step)
    BY <1>2
  <2> DEFINE G == [i \in 0..x |-> IF i = x THEN step[x][F[x - 1]] ELSE F[i]]
  <2>3. F[x - 1] \in V /\ step[x] \in [V -> V]
    BY <2>1
  <2>4. G \in [0..x -> V]
    BY <2>1, <2>3
  <2>5. Goes(G, x, v, step)
    <3>1. G[0] = v
      BY <2>1, <2>2 DEF Goes
    <3>2. ASSUME NEW i \in 1..x
          PROVE  G[i] = step[i][G[i - 1]]
      BY <2>1, <2>2 DEF Goes
    <3>3. QED
      BY <3>1, <3>2 DEF Goes
  <2>6. QED
    BY <2>1, <2>4, <2>5
<1>3. \A i \in 0..n : i \in T
  <2> HIDE DEF T
  <2>1. QED
    BY <1>1, <1>2, CountUp
<1>4. QED
  BY <1>3

\* F goes by the steps wherever it has come to a value in V.
Follows(F, n, V, v, step) ==
  /\ F = [i \in 0..n |-> F[i]] /\ F[0] = v
  /\ \A i \in 1..n : F[i - 1] \in V => F[i] = step[i][F[i - 1]]

\* It stays in V.
LEMMA LoopTyped ==
  ASSUME NEW n \in Nat, NEW V, NEW v \in V, NEW step \in [1..n -> [V -> V]],
         NEW F, Follows(F, n, V, v, step)
  PROVE  F \in [0..n -> V]
<1> DEFINE T == {i \in 0..n : F[i] \in V}
<1>1. 0 \in T
  BY DEF Follows
<1>2. ASSUME NEW x \in 1..n, x - 1 \in T
      PROVE  x \in T
  <2>1. F[x] = step[x][F[x - 1]]
    BY <1>2 DEF Follows
  <2>2. step[x] \in [V -> V]
    OBVIOUS
  <2>3. F[x] \in V
    BY <1>2, <2>1, <2>2
  <2>4. QED
    BY <2>3
<1>3. \A i \in 0..n : i \in T
  <2> HIDE DEF T
  <2>1. QED
    BY <1>1, <1>2, CountUp
<1>4. F = [i \in 0..n |-> F[i]]
  BY DEF Follows
<1>5. QED
  BY <1>3, <1>4

-----------------------------------------------------------------------------
(* Lists of entries.                                                       *)

Entries == Seq(Entry)
Elements(s) == {s[i] : i \in 1..Len(s)}
Once(s) == \A i, j \in 1..Len(s) : s[i] = s[j] => i = j

LEMMA ListType ==
  ASSUME NEW s \in Entries
  PROVE  /\ s \in Seq(Entry) /\ Len(s) \in Nat /\ DOMAIN s = 1..Len(s)
         /\ Elements(s) \subseteq Entry /\ \A i \in 1..Len(s) : s[i] \in Entry
         /\ Names(s) = {e.name : e \in Elements(s)} \ {""}
<1>1. s \in Seq(Entry) /\ Len(s) \in Nat /\ DOMAIN s = 1..Len(s)
      /\ \A i \in 1..Len(s) : s[i] \in Entry
  BY DEF Entries
<1>2. QED
  BY <1>1 DEF Elements, Names

LEMMA AppendedList ==
  ASSUME NEW s \in Entries, NEW e \in Entry
  PROVE  /\ Append(s, e) \in Entries /\ Len(Append(s, e)) = Len(s) + 1
         /\ Elements(Append(s, e)) = Elements(s) \cup {e}
         /\ Append(s, e)[Len(s) + 1] = e /\ \A i \in 1..Len(s) : Append(s, e)[i] = s[i]
         /\ Once(s) /\ e \notin Elements(s) => Once(Append(s, e))
<1> DEFINE t == Append(s, e)
<1>1. s \in Seq(Entry) /\ Len(s) \in Nat
  BY ListType
<1>2. /\ t \in Seq(Entry) /\ Len(t) = Len(s) + 1
      /\ t[Len(s) + 1] = e /\ \A i \in 1..Len(s) : t[i] = s[i]
  BY <1>1
<1> HIDE DEF t
<1>3. \A i \in 1..(Len(s) + 1) : i \in 1..Len(s) \/ i = Len(s) + 1
  BY <1>1
<1>4. 1..Len(s) \subseteq 1..(Len(s) + 1) /\ Len(s) + 1 \in 1..(Len(s) + 1)
  BY <1>1
<1>5. Elements(t) = Elements(s) \cup {e}
  <2>1. Elements(t) = {t[i] : i \in 1..(Len(s) + 1)}
    BY <1>2 DEF Elements
  <2>2. \A i \in 1..(Len(s) + 1) : t[i] \in Elements(s) \cup {e}
    BY <1>2, <1>3 DEF Elements
  <2>3. \A i \in 1..Len(s) : s[i] \in Elements(t)
    BY <1>2, <1>4, <2>1
  <2>4. e \in Elements(t)
    BY <1>2, <1>4, <2>1
  <2>5. QED
    BY <2>1, <2>2, <2>3, <2>4 DEF Elements
<1>6. Once(s) /\ e \notin Elements(s) => Once(t)
  BY <1>1, <1>2, <1>3 DEF Once, Elements
<1>7. QED
  BY <1>2, <1>5, <1>6 DEF t, Entries


\* Without, entry by entry.
WithoutBy(F, s, X) ==
  /\ F[0] = <<>>
  /\ \A i \in 1..Len(s) :
       F[i] = IF s[i] \in X THEN F[i - 1] ELSE Append(F[i - 1], s[i])

LEMMA WithoutLoop ==
  ASSUME NEW s \in Entries, NEW X
  PROVE  \E F \in [0..Len(s) -> Entries] :
           Without(s, X) = F[Len(s)] /\ WithoutBy(F, s, X)
<1> DEFINE n == Len(s)
           step == [i \in 1..n |-> [t \in Entries |->
                      IF s[i] \in X THEN t ELSE Append(t, s[i])]]
           Eq(F) == F = [i \in 0..n |->
                      IF i = 0 THEN <<>>
                      ELSE IF s[i] \in X THEN F[i - 1] ELSE Append(F[i - 1], s[i])]
           out == CHOOSE F : Eq(F)
<1>1. n \in Nat /\ \A i \in 1..n : s[i] \in Entry
  BY ListType
<1>2. <<>> \in Entries
  BY DEF Entries
<1>3. step \in [1..n -> [Entries -> Entries]]
  BY <1>1, AppendedList
<1>4. Without(s, X) = out[n]
  BY DEF Without
<1> HIDE DEF n
<1>5. \E F : Eq(F)
  <2>1. PICK F \in [0..n -> Entries] : Goes(F, n, <<>>, step)
    <3> HIDE DEF step
    <3>1. QED
      BY <1>1, <1>2, <1>3, LoopExists
  <2>2. \A i \in 1..n : i - 1 \in 0..n
    BY <1>1
  <2>3. ASSUME NEW i \in 0..n, i # 0
        PROVE  F[i] = IF s[i] \in X THEN F[i - 1] ELSE Append(F[i - 1], s[i])
    <3>1. i \in 1..n
      BY <1>1, <2>3
    <3>2. F[i - 1] \in Entries
      BY <2>1, <2>2, <3>1
    <3>3. F[i] = step[i][F[i - 1]]
      BY <2>1, <3>1 DEF Goes
    <3>4. QED
      BY <3>1, <3>2, <3>3
  <2>4. F[0] = <<>>
    BY <2>1 DEF Goes
  <2>5. F = [i \in 0..n |-> F[i]]
    BY <2>1
  <2>6. \A i \in 0..n : F[i] =
          IF i = 0 THEN <<>>
          ELSE IF s[i] \in X THEN F[i - 1] ELSE Append(F[i - 1], s[i])
    <3> HIDE DEF step
    <3>1. QED
      BY <2>3, <2>4
  <2>7. Eq(F)
    <3> HIDE DEF step
    <3>1. QED
      BY <2>5, <2>6
  <2>8. QED
    BY <2>7
<1>6. Eq(out)
  <2> HIDE DEF Eq
  <2>1. QED
    BY <1>5
<1> HIDE DEF out
<1>7. out = [i \in 0..n |-> out[i]] /\ out[0] = <<>>
  BY <1>1, <1>6
<1>8. \A i \in 1..n :
        out[i] = IF s[i] \in X THEN out[i - 1] ELSE Append(out[i - 1], s[i])
  <2> HIDE DEF step
  <2>1. \A i \in 1..n : i \in 0..n /\ i # 0
    BY <1>1
  <2>2. \A i \in 0..n : out[i] =
          IF i = 0 THEN <<>>
          ELSE IF s[i] \in X THEN out[i - 1] ELSE Append(out[i - 1], s[i])
    BY <1>6
  <2>3. QED
    BY <2>1, <2>2
<1>9. \A i \in 1..n : out[i - 1] \in Entries => out[i] = step[i][out[i - 1]]
  BY <1>8
<1>10. out \in [0..n -> Entries]
  <2> HIDE DEF step
  <2>1. Follows(out, n, Entries, <<>>, step)
    BY <1>7, <1>9 DEF Follows
  <2>2. QED
    BY <1>1, <1>2, <1>3, <2>1, LoopTyped
<1>11. QED
  BY <1>4, <1>7, <1>8, <1>10 DEF n, WithoutBy

\* What Without leaves.
LEMMA WithoutList ==
  ASSUME NEW s \in Entries, NEW X
  PROVE  /\ Without(s, X) \in Entries
         /\ Elements(Without(s, X)) = Elements(s) \ X
         /\ Once(s) => Once(Without(s, X))
<1>1. PICK F \in [0..Len(s) -> Entries] :
        Without(s, X) = F[Len(s)] /\ WithoutBy(F, s, X)
  BY WithoutLoop
<1> PICK n \in Nat : n = Len(s)
  BY ListType
<1>2. \A i \in 1..n : s[i] \in Entry
  BY ListType
<1>3. /\ F \in [0..n -> Entries] /\ F[0] = <<>> /\ Without(s, X) = F[n]
      /\ \A i \in 1..n :
           F[i] = IF s[i] \in X THEN F[i - 1] ELSE Append(F[i - 1], s[i])
  BY <1>1 DEF WithoutBy
<1> DEFINE upTo(i) == {s[j] : j \in 1..i}
           P(i) == /\ Elements(F[i]) = upTo(i) \ X
                   /\ Once(s) => Once(F[i])
           T == {i \in 0..n : P(i)}
<1>4. 0 \in T
  <2>1. Elements(<<>>) = {} /\ Once(<<>>)
    BY DEF Elements, Once
  <2>2. upTo(0) = {}
    OBVIOUS
  <2>3. QED
    BY <1>3, <2>1, <2>2
<1>5. ASSUME NEW i \in 1..n, i - 1 \in T
      PROVE  i \in T
  <2>1. F[i - 1] \in Entries /\ s[i] \in Entry
    BY <1>2, <1>3
  <2>2. upTo(i) = upTo(i - 1) \cup {s[i]}
    <3>1. 1..i = 1..(i - 1) \cup {i}
      OBVIOUS
    <3>2. QED
      BY <3>1
  <2>3. Once(s) => s[i] \notin upTo(i - 1)
    <3>1. \A j \in 1..(i - 1) : j \in 1..Len(s) /\ i \in 1..Len(s) /\ j # i
      OBVIOUS
    <3>2. QED
      BY <3>1 DEF Once
  <2>4. i \in 0..n /\ P(i - 1)
    BY <1>5
  <2> HIDE DEF upTo
  <2>5. CASE s[i] \in X
    <3>1. F[i] = F[i - 1]
      BY <1>3, <2>5
    <3>2. QED
      BY <2>2, <2>4, <2>5, <3>1
  <2>6. CASE s[i] \notin X
    <3>1. F[i] = Append(F[i - 1], s[i])
      BY <1>3, <2>6
    <3>2. Elements(F[i]) = Elements(F[i - 1]) \cup {s[i]}
      BY <2>1, <3>1, AppendedList
    <3>3. Once(s) => Once(F[i])
      BY <2>1, <2>3, <2>4, <3>1, AppendedList
    <3>4. QED
      BY <2>2, <2>4, <2>6, <3>2, <3>3
  <2>7. QED
    BY <2>5, <2>6
<1>6. n \in T
  <2> HIDE DEF T
  <2>1. n \in 0..n
    OBVIOUS
  <2>2. QED
    BY <1>4, <1>5, <2>1, CountUp
<1>7. QED
  BY <1>3, <1>6 DEF Elements

\* One adjustment: it takes the name away, or sees to it that the list has it.
LEMMA AdjustList ==
  ASSUME NEW s \in Entries, NEW e \in Entry
  PROVE  /\ Adjust(s, e) \in Entries
         /\ Names(Adjust(s, e)) =
              IF e.op = "-" THEN Names(s) \ {e.name} ELSE Names(s) \cup ({e.name} \ {""})
         /\ Once(s) => Once(Adjust(s, e))
<1> DEFINE p == Plain(e.name)
<1>1. p \in Entry /\ p.name = e.name
  BY DEF Entry, Plain
<1>2. Elements(s) \subseteq Entry /\ Names(s) = {x.name : x \in Elements(s)} \ {""}
  BY ListType
<1>3. CASE e.op = "-"
  <2>1. Adjust(s, e) = Without(s, Named(e.name))
    BY <1>3 DEF Adjust
  <2>2. /\ Adjust(s, e) \in Entries /\ (Once(s) => Once(Adjust(s, e)))
        /\ Elements(Adjust(s, e)) = Elements(s) \ Named(e.name)
    BY <2>1, WithoutList
  <2>3. Names(Adjust(s, e)) = {x.name : x \in Elements(s) \ Named(e.name)} \ {""}
    BY <2>2, ListType
  <2>4. {x.name : x \in Elements(s) \ Named(e.name)} = {x.name : x \in Elements(s)} \ {e.name}
    BY <1>2 DEF Named
  <2>5. QED
    BY <1>2, <1>3, <2>2, <2>3, <2>4
<1>4. CASE e.op # "-" /\ p \in Elements(s)
  <2>1. Contains(s, p)
    BY <1>4, ListType DEF Contains, Elements
  <2>2. Adjust(s, e) = s
    BY <1>4, <2>1 DEF Adjust
  <2>3. {e.name} \ {""} \subseteq Names(s)
    BY <1>1, <1>2, <1>4
  <2>4. QED
    BY <1>4, <2>2, <2>3
<1>5. CASE e.op # "-" /\ p \notin Elements(s)
  <2>1. ~Contains(s, p)
    BY <1>5, ListType DEF Contains, Elements
  <2>2. Adjust(s, e) = Append(s, p)
    BY <1>5, <2>1 DEF Adjust
  <2>3. /\ Adjust(s, e) \in Entries /\ (Once(s) => Once(Adjust(s, e)))
        /\ Elements(Adjust(s, e)) = Elements(s) \cup {p}
    BY <1>1, <1>5, <2>2, AppendedList
  <2>4. Names(Adjust(s, e)) = {x.name : x \in Elements(s) \cup {p}} \ {""}
    BY <2>3, ListType
  <2>5. QED
    BY <1>1, <1>2, <1>5, <2>3, <2>4
<1>6. QED
  BY <1>3, <1>4, <1>5

\* Adjusted, entry by entry.
AdjustedBy(F, s) ==
  F[0] = DefaultList /\ \A i \in 1..Len(s) : F[i] = Adjust(F[i - 1], s[i])

LEMMA DefaultType ==
  /\ DefaultList \in Entries /\ Once(DefaultList) /\ Adjustments(DefaultList) = {}
  /\ Names(DefaultList) = {"d", "e"}
<1>1. Plain("d") \in Entry /\ Plain("e") \in Entry /\ Plain("d") # Plain("e")
  BY DEF Plain, Entry
<1>2. /\ DefaultList \in Seq(Entry) /\ Len(DefaultList) = 2
      /\ DefaultList[1] = Plain("d") /\ DefaultList[2] = Plain("e")
  BY <1>1 DEF DefaultList
<1>3. 1..2 = {1, 2}
  OBVIOUS
<1>4. Elements(DefaultList) = {Plain("d"), Plain("e")}
  BY <1>2, <1>3 DEF Elements
<1>5. Names(DefaultList) = {"d", "e"}
  <2>1. /\ Plain("d").name = "d" /\ Plain("e").name = "e"
        /\ Plain("d").op = "" /\ Plain("e").op = ""
    BY DEF Plain
  <2>2. {e.name : e \in {Plain("d"), Plain("e")}} = {"d", "e"}
    BY <2>1
  <2>3. Names(DefaultList) = {e.name : e \in Elements(DefaultList)} \ {""}
    BY <1>2, ListType DEF Entries
  <2>4. QED
    BY <1>4, <2>2, <2>3
<1>6. Once(DefaultList) /\ Adjustments(DefaultList) = {}
  <2>1. Once(DefaultList)
    BY <1>1, <1>2, <1>3 DEF Once
  <2>2. \A i \in 1..2 : DefaultList[i].op = ""
    <3>1. Plain("d").op = "" /\ Plain("e").op = ""
      BY DEF Plain
    <3>2. QED
      BY <1>2, <1>3, <3>1
  <2>3. QED
    BY <1>2, <2>1, <2>2 DEF Adjustments, IsAdjustment
<1>7. DefaultList \in Entries
  BY <1>2 DEF Entries
<1>8. QED
  BY <1>5, <1>6, <1>7, ListType

LEMMA AdjustedLoop ==
  ASSUME NEW s \in Entries
  PROVE  \E F \in [0..Len(s) -> Entries] :
           Adjusted(s) = F[Len(s)] /\ AdjustedBy(F, s)
<1> DEFINE n == Len(s)
           step == [i \in 1..n |-> [t \in Entries |-> Adjust(t, s[i])]]
           Eq(F) == F = [i \in 0..n |-> IF i = 0 THEN DefaultList ELSE Adjust(F[i - 1], s[i])]
           out == CHOOSE F : Eq(F)
<1>1. n \in Nat /\ \A i \in 1..n : s[i] \in Entry
  BY ListType
<1>2. DefaultList \in Entries
  BY DefaultType
<1>3. step \in [1..n -> [Entries -> Entries]]
  BY <1>1, AdjustList
<1>4. Adjusted(s) = out[n]
  BY DEF Adjusted
<1> HIDE DEF n
<1>5. \E F : Eq(F)
  <2>1. PICK F \in [0..n -> Entries] : Goes(F, n, DefaultList, step)
    <3> HIDE DEF step
    <3>1. QED
      BY <1>1, <1>2, <1>3, LoopExists
  <2>2. \A i \in 1..n : i - 1 \in 0..n
    BY <1>1
  <2>3. ASSUME NEW i \in 0..n, i # 0
        PROVE  F[i] = Adjust(F[i - 1], s[i])
    <3>1. i \in 1..n
      BY <1>1, <2>3
    <3>2. F[i - 1] \in Entries
      BY <2>1, <2>2, <3>1
    <3>3. F[i] = step[i][F[i - 1]]
      BY <2>1, <3>1 DEF Goes
    <3>4. QED
      BY <3>1, <3>2, <3>3
  <2>4. F[0] = DefaultList
    BY <2>1 DEF Goes
  <2>5. F = [i \in 0..n |-> F[i]]
    BY <2>1
  <2>6. \A i \in 0..n : F[i] = IF i = 0 THEN DefaultList ELSE Adjust(F[i - 1], s[i])
    <3> HIDE DEF step
    <3>1. QED
      BY <2>3, <2>4
  <2>7. Eq(F)
    <3> HIDE DEF step
    <3>1. QED
      BY <2>5, <2>6
  <2>8. QED
    BY <2>7
<1>6. Eq(out)
  <2> HIDE DEF Eq
  <2>1. QED
    BY <1>5
<1> HIDE DEF out
<1>7. out = [i \in 0..n |-> out[i]] /\ out[0] = DefaultList
  BY <1>1, <1>6
<1>8. \A i \in 1..n : out[i] = Adjust(out[i - 1], s[i])
  <2> HIDE DEF step
  <2>1. \A i \in 1..n : i \in 0..n /\ i # 0
    BY <1>1
  <2>2. \A i \in 0..n : out[i] = IF i = 0 THEN DefaultList ELSE Adjust(out[i - 1], s[i])
    BY <1>6
  <2>3. QED
    BY <2>1, <2>2
<1>9. \A i \in 1..n : out[i - 1] \in Entries => out[i] = step[i][out[i - 1]]
  BY <1>8
<1>10. out \in [0..n -> Entries]
  <2> HIDE DEF step
  <2>1. Follows(out, n, Entries, DefaultList, step)
    BY <1>7, <1>9 DEF Follows
  <2>2. QED
    BY <1>1, <1>2, <1>3, <2>1, LoopTyped
<1>11. QED
  BY <1>4, <1>7, <1>8, <1>10 DEF n, AdjustedBy

\* No name comes twice out of the adjustments.
LEMMA AdjustedOnce ==
  ASSUME NEW s \in Entries
  PROVE  Adjusted(s) \in Entries /\ Once(Adjusted(s))
<1>1. PICK F \in [0..Len(s) -> Entries] :
        Adjusted(s) = F[Len(s)] /\ AdjustedBy(F, s)
  BY AdjustedLoop
<1> PICK n \in Nat : n = Len(s)
  BY ListType
<1>2. /\ F \in [0..n -> Entries] /\ Adjusted(s) = F[n] /\ n \in 0..n
      /\ \A i \in 1..n : F[i] = Adjust(F[i - 1], s[i])
      /\ \A i \in 1..n : s[i] \in Entry /\ i - 1 \in 0..n /\ i \in 0..n
  <2>1. \A i \in 1..n : s[i] \in Entry
    BY ListType
  <2>2. QED
    BY <1>1, <2>1 DEF AdjustedBy
<1> DEFINE T == {i \in 0..n : Once(F[i])}
<1>3. 0 \in T
  BY <1>1, DefaultType DEF AdjustedBy
<1>4. ASSUME NEW i \in 1..n, i - 1 \in T
      PROVE  i \in T
  <2>1. F[i - 1] \in Entries /\ s[i] \in Entry
    BY <1>2
  <2>2. Once(F[i - 1]) /\ F[i] = Adjust(F[i - 1], s[i])
    BY <1>2, <1>4
  <2>3. Once(F[i])
    BY <2>1, <2>2, AdjustList
  <2>4. QED
    BY <1>2, <2>3
<1>5. n \in T
  <2> HIDE DEF T
  <2>1. QED
    BY <1>2, <1>3, <1>4, CountUp
<1>6. QED
  BY <1>2, <1>5

\* The last entry is adjusted last.
LEMMA AdjustedAppend ==
  ASSUME NEW s \in Entries, NEW e \in Entry
  PROVE  Adjusted(Append(s, e)) = Adjust(Adjusted(s), e)
<1> PICK t \in Entries : t = Append(s, e)
  BY AppendedList
<1>1. PICK F \in [0..Len(s) -> Entries] :
        Adjusted(s) = F[Len(s)] /\ AdjustedBy(F, s)
  BY AdjustedLoop
<1>2. PICK G \in [0..Len(t) -> Entries] :
        Adjusted(t) = G[Len(t)] /\ AdjustedBy(G, t)
  BY AdjustedLoop
<1> PICK n \in Nat : n = Len(s)
  BY ListType
<1>3. Len(t) = n + 1 /\ t[n + 1] = e /\ \A i \in 1..n : t[i] = s[i]
  BY AppendedList
<1> DEFINE T == {i \in 0..n : F[i] = G[i]}
<1>4. 0 \in T
  BY <1>1, <1>2 DEF AdjustedBy
<1>5. ASSUME NEW i \in 1..n, i - 1 \in T
      PROVE  i \in T
  <2>1. i \in 1..Len(t)
    BY <1>3
  <2>2. F[i] = Adjust(F[i - 1], s[i]) /\ G[i] = Adjust(G[i - 1], t[i])
    BY <1>1, <1>2, <2>1 DEF AdjustedBy
  <2>3. QED
    BY <1>3, <1>5, <2>2
<1>6. n \in T
  <2> HIDE DEF T
  <2>1. n \in 0..n
    OBVIOUS
  <2>2. QED
    BY <1>4, <1>5, <2>1, CountUp
<1>7. G[n + 1] = Adjust(G[n], t[n + 1])
  <2>1. n + 1 \in 1..Len(t) /\ (n + 1) - 1 = n
    BY <1>3
  <2>2. G[n + 1] = Adjust(G[(n + 1) - 1], t[n + 1])
    BY <1>2, <2>1 DEF AdjustedBy
  <2>3. QED
    BY <2>1, <2>2
<1>8. QED
  BY <1>1, <1>2, <1>3, <1>6, <1>7

-----------------------------------------------------------------------------
(* What a list stands for, by its last word on each name.                  *)

\* Whether the first i entries leave the name n in the list.
Mentions(s, i, n) == {j \in 1..i : s[j].name = n}
Stands(s, i, n) ==
  IF Mentions(s, i, n) = {} THEN n \in Names(DefaultList)
  ELSE \E k \in Mentions(s, i, n) : s[k].op = "+" /\ \A j \in Mentions(s, i, n) : j =< k

\* A list that can be resolved by adjusting the default, with blanks to be dropped.
Regular(s) == \A e \in Elements(s) : e = Blank \/ (IsAdjustment(e) /\ e.name # "")

LEMMA StandsMeans ==
  ASSUME NEW s \in Entries, Adjustments(s) # {}
  PROVE  \A n : n \in StandsFor(s) <=> n # "" /\ Stands(s, Len(s), n)
<1> TAKE n
<1> DEFINE at == {i \in 1..Len(s) : s[i].name = n}
<1>1. at = Mentions(s, Len(s), n)
  BY DEF Mentions
<1>2. "" \notin Names(DefaultList)
  BY DefaultType
<1>3. n # "" => (n \in Names(s) <=> at # {})
  BY DEF Names
<1>4. "" \notin Names(s)
  BY DEF Names
<1>5. n \in StandsFor(s) <=>
        /\ n \in Names(DefaultList) \cup Names(s)
        /\ IF at = {} THEN n \in Names(DefaultList)
           ELSE \E i \in at : s[i].op = "+" /\ \A j \in at : j =< i
  BY DEF StandsFor
<1>6. QED
  BY <1>1, <1>2, <1>3, <1>4, <1>5 DEF Stands

\* Arithmetic of positions, apart from the lists.
LEMMA UpTo ==
  ASSUME NEW m \in Nat, NEW i \in 1..m
  PROVE  i \in Nat /\ 1..i = 1..(i - 1) \cup {i} /\ \A j \in 1..i : j \in Nat /\ j =< i
  OBVIOUS

LEMMA Antisymmetric ==
  ASSUME NEW a \in Nat, NEW b \in Nat, a =< b, b =< a
  PROVE  a = b
  OBVIOUS

\* One more entry has the last word on its own name and none on the others.
LEMMA StandsNext ==
  ASSUME NEW s \in Entries, Regular(s), NEW m \in Nat, m = Len(s), NEW i \in 1..m,
         NEW n, n # ""
  PROVE  Stands(s, i, n) <=>
           IF s[i].name = n THEN s[i].op = "+" ELSE Stands(s, i - 1, n)
<1>1. s[i] \in Entry /\ s[i] \in Elements(s)
  BY ListType DEF Elements
<1>2. i \in Nat /\ 1..i = 1..(i - 1) \cup {i} /\ \A j \in 1..i : j \in Nat /\ j =< i
  BY UpTo
<1>3. CASE s[i].name = n
  <2>1. i \in Mentions(s, i, n) /\ \A j \in Mentions(s, i, n) : j =< i
    BY <1>2, <1>3 DEF Mentions
  <2>2. ASSUME NEW k \in Mentions(s, i, n), \A j \in Mentions(s, i, n) : j =< k
        PROVE  k = i
    <3>1. k \in 1..i
      BY DEF Mentions
    <3>2. k \in Nat /\ k =< i /\ i =< k
      BY <1>2, <2>1, <2>2, <3>1
    <3>3. QED
      BY <1>2, <3>2, Antisymmetric
  <2>3. QED
    BY <1>3, <2>1, <2>2 DEF Stands
<1>4. CASE s[i].name # n
  <2>1. Mentions(s, i, n) = Mentions(s, i - 1, n)
    BY <1>2, <1>4 DEF Mentions
  <2>2. QED
    BY <1>4, <2>1 DEF Stands
<1>5. QED
  BY <1>3, <1>4

\* The adjustments, with or without the blanks between them, come to what they stand for.
LEMMA AdjustedStands ==
  ASSUME NEW s \in Entries, Regular(s), NEW X \in SUBSET {Blank}
  PROVE  \A n : n \in Names(Adjusted(Without(s, X))) <=> n # "" /\ Stands(s, Len(s), n)
<1>1. PICK F \in [0..Len(s) -> Entries] :
        Without(s, X) = F[Len(s)] /\ WithoutBy(F, s, X)
  BY WithoutLoop
<1> PICK m \in Nat : m = Len(s)
  BY ListType
<1>2. \A i \in 1..m : s[i] \in Entry /\ s[i] \in Elements(s) /\ i - 1 \in 0..m /\ i \in 0..m
  <2>1. \A i \in 1..m : i - 1 \in 0..m /\ i \in 0..m
    OBVIOUS
  <2>2. \A i \in 1..m : s[i] \in Entry /\ s[i] \in Elements(s)
    BY ListType DEF Elements
  <2>3. QED
    BY <2>1, <2>2
<1>3. /\ F \in [0..m -> Entries] /\ F[0] = <<>> /\ Without(s, X) = F[m] /\ m \in 0..m
      /\ \A i \in 1..m :
           F[i] = IF s[i] \in X THEN F[i - 1] ELSE Append(F[i - 1], s[i])
  BY <1>1 DEF WithoutBy
<1> DEFINE T == {i \in 0..m : \A n : n \in Names(Adjusted(F[i])) <=> n # "" /\ Stands(s, i, n)}
<1>4. 0 \in T
  <2>1. <<>> \in Entries /\ Len(<<>>) = 0
    BY DEF Entries
  <2>2. Adjusted(<<>>) = DefaultList
    <3>1. PICK G \in [0..Len(<<>>) -> Entries] :
            Adjusted(<<>>) = G[Len(<<>>)] /\ AdjustedBy(G, <<>>)
      BY <2>1, AdjustedLoop
    <3>2. QED
      BY <2>1, <3>1 DEF AdjustedBy
  <2>3. \A n : Mentions(s, 0, n) = {}
    BY DEF Mentions
  <2>4. \A n : Stands(s, 0, n) <=> n \in Names(DefaultList)
    BY <2>3 DEF Stands
  <2>5. "" \notin Names(DefaultList)
    BY DefaultType
  <2>6. \A n : n \in Names(Adjusted(F[0])) <=> n # "" /\ Stands(s, 0, n)
    BY <1>3, <2>2, <2>4, <2>5
  <2>7. 0 \in 0..m
    OBVIOUS
  <2>8. QED
    BY <2>6, <2>7
<1>5. ASSUME NEW i \in 1..m, i - 1 \in T
      PROVE  i \in T
  <2>1. /\ s[i] \in Entry /\ F[i - 1] \in Entries /\ i \in 0..m
        /\ s[i] = Blank \/ (IsAdjustment(s[i]) /\ s[i].name # "")
    BY <1>2, <1>3 DEF Regular
  <2>2. \A n : n \in Names(Adjusted(F[i - 1])) <=> n # "" /\ Stands(s, i - 1, n)
    BY <1>5
  <2>3. \A n : n # "" =>
          (Stands(s, i, n) <=>
             IF s[i].name = n THEN s[i].op = "+" ELSE Stands(s, i - 1, n))
    BY <2>1, StandsNext
  <2>4. \A n : n \in Names(Adjusted(F[i])) <=> n # "" /\ Stands(s, i, n)
    <3>1. Blank.name = "" /\ Blank.op = ""
      BY DEF Blank, Plain
    <3>2. CASE s[i] \in X
      <4>1. F[i] = F[i - 1] /\ s[i].name = ""
        BY <1>3, <3>1, <3>2
      <4>2. QED
        BY <2>2, <2>3, <4>1
    <3>3. CASE s[i] \notin X
      <4>1. F[i] = Append(F[i - 1], s[i])
        BY <1>3, <3>3
      <4>2. Adjusted(F[i]) = Adjust(Adjusted(F[i - 1]), s[i])
        BY <2>1, <4>1, AdjustedAppend
      <4>3. Names(Adjusted(F[i])) =
              IF s[i].op = "-" THEN Names(Adjusted(F[i - 1])) \ {s[i].name}
              ELSE Names(Adjusted(F[i - 1])) \cup ({s[i].name} \ {""})
        BY <2>1, <4>2, AdjustedOnce, AdjustList
      <4>4. s[i] # Blank => s[i].op \in {"+", "-"} /\ s[i].name # ""
        BY <2>1 DEF IsAdjustment, Entry
      <4>5. QED
        BY <2>2, <2>3, <3>1, <4>3, <4>4
    <3>4. QED
      BY <3>2, <3>3
  <2>5. QED
    BY <2>1, <2>4
<1>6. m \in T
  <2> HIDE DEF T
  <2>1. QED
    BY <1>3, <1>4, <1>5, CountUp
<1>7. QED
  BY <1>3, <1>6

\* Nothing taken away leaves the list.
LEMMA WithoutNone ==
  ASSUME NEW s \in Entries
  PROVE  Without(s, {}) = s
<1>1. PICK F \in [0..Len(s) -> Entries] :
        Without(s, {}) = F[Len(s)] /\ WithoutBy(F, s, {})
  BY WithoutLoop
<1> PICK m \in Nat : m = Len(s)
  BY ListType
<1>2. \A i \in 1..m : s[i] \in Entry /\ i - 1 \in 0..m /\ i \in 0..m
  <2>1. \A i \in 1..m : i - 1 \in 0..m /\ i \in 0..m
    OBVIOUS
  <2>2. \A i \in 1..m : s[i] \in Entry
    BY ListType
  <2>3. QED
    BY <2>1, <2>2
<1>3. /\ F \in [0..m -> Entries] /\ F[0] = <<>> /\ Without(s, {}) = F[m] /\ m \in 0..m
      /\ \A i \in 1..m : F[i] = Append(F[i - 1], s[i])
  BY <1>1 DEF WithoutBy
<1> DEFINE P(i) == Len(F[i]) = i /\ \A j \in 1..i : F[i][j] = s[j]
           T == {i \in 0..m : P(i)}
<1>4. 0 \in T
  BY <1>3
<1>5. ASSUME NEW i \in 1..m, i - 1 \in T
      PROVE  i \in T
  <2>1. F[i - 1] \in Entries /\ s[i] \in Entry /\ P(i - 1) /\ i \in 0..m
    BY <1>2, <1>3, <1>5
  <2>2. F[i] = Append(F[i - 1], s[i])
    BY <1>3
  <2>3. /\ Len(F[i]) = (i - 1) + 1 /\ F[i][(i - 1) + 1] = s[i]
        /\ \A j \in 1..(i - 1) : F[i][j] = F[i - 1][j]
    BY <2>1, <2>2, AppendedList
  <2>4. \A j \in 1..i : j \in 1..(i - 1) \/ j = i
    OBVIOUS
  <2>5. P(i)
    BY <2>1, <2>3, <2>4
  <2>6. QED
    BY <2>1, <2>5
<1>6. m \in T
  <2> HIDE DEF T
  <2>1. QED
    BY <1>3, <1>4, <1>5, CountUp
<1>7. PICK t \in Entries : t = F[m]
  BY <1>3
<1>8. /\ t \in Seq(Entry) /\ s \in Seq(Entry) /\ Len(t) = Len(s)
      /\ \A j \in 1..Len(s) : t[j] = s[j]
  BY <1>6, <1>7 DEF Entries
<1>9. t = s
  BY <1>8
<1>10. QED
  BY <1>3, <1>7, <1>9

\* A list and the list without its blanks.
LEMMA BlanksAside ==
  ASSUME NEW s \in Entries, NEW X \in SUBSET {Blank}
  PROVE  LET t == Without(s, X) IN
         /\ t \in Entries /\ Names(t) = Names(s)
         /\ Adjustments(t) = {} <=> Adjustments(s) = {}
         /\ Resolves(t) /\ Adjustments(s) # {} => Regular(s)
<1> PICK t \in Entries : t = Without(s, X)
  BY WithoutList
<1>1. Elements(t) = Elements(s) \ X
  BY WithoutList
<1>2. Blank.name = "" /\ ~IsAdjustment(Blank)
  BY DEF Blank, Plain, IsAdjustment
<1>3. ASSUME NEW u \in Entries
      PROVE  /\ Names(u) = {e.name : e \in Elements(u)} \ {""}
             /\ Adjustments(u) = {} <=> \A e \in Elements(u) : ~IsAdjustment(e)
  BY ListType DEF Adjustments, Elements
<1>4. Names(t) = Names(s)
  <2>1. Names(t) = {e.name : e \in Elements(s) \ X} \ {""}
    BY <1>1, <1>3
  <2>2. Names(s) = {e.name : e \in Elements(s)} \ {""}
    BY <1>3
  <2>3. \A e \in X : e.name = ""
    BY <1>2
  <2>4. QED
    BY <2>1, <2>2, <2>3
<1>5. Adjustments(t) = {} <=> Adjustments(s) = {}
  BY <1>1, <1>2, <1>3
<1>6. ASSUME Resolves(t), Adjustments(s) # {}
      PROVE  Regular(s)
  <2>1. Adjustments(t) = 1..Len(t) /\ \A i \in Adjustments(t) : t[i].name # ""
    BY <1>5, <1>6 DEF Resolves
  <2>2. \A e \in Elements(t) : IsAdjustment(e) /\ e.name # ""
    BY <2>1 DEF Adjustments, Elements
  <2>3. QED
    BY <1>1, <2>2 DEF Regular
<1>7. QED
  BY <1>4, <1>5, <1>6

\* What runs of a list: the names it stands for, once each if it is adjusted.
LEMMA ResolvedStands ==
  ASSUME NEW s \in Entries, NEW X \in SUBSET {Blank}, Adjustments(s) # {} => Regular(s)
  PROVE  LET t == Without(s, X) IN
         /\ Names(Resolved(t)) = StandsFor(s)
         /\ Adjustments(s) # {} => Resolved(t) \in Entries /\ Once(Resolved(t))
<1> PICK t \in Entries : t = Without(s, X)
  BY WithoutList
<1>1. CASE Adjustments(s) = {}
  <2>1. Resolved(t) = t /\ Names(t) = Names(s)
    BY <1>1, BlanksAside DEF Resolved
  <2>2. QED
    BY <1>1, <2>1 DEF StandsFor
<1>2. CASE Adjustments(s) # {}
  <2>1. Resolved(t) = Adjusted(t)
    BY <1>2, BlanksAside DEF Resolved
  <2>2. Adjusted(t) \in Entries /\ Once(Adjusted(t))
    BY AdjustedOnce
  <2>3. \A n : n \in Names(Adjusted(t)) <=> n \in StandsFor(s)
    <3>1. \A n : n \in Names(Adjusted(t)) <=> n # "" /\ Stands(s, Len(s), n)
      BY <1>2, AdjustedStands
    <3>2. \A n : n \in StandsFor(s) <=> n # "" /\ Stands(s, Len(s), n)
      BY <1>2, StandsMeans
    <3>3. QED
      BY <3>1, <3>2
  <2>4. Names(Adjusted(t)) = StandsFor(s)
    BY <2>3
  <2>5. QED
    BY <2>1, <2>2, <2>4
<1>3. QED
  BY <1>1, <1>2

-----------------------------------------------------------------------------
(* The lists of a configuration.                                           *)

\* The list an option is to run as, as ListsAsWritten has it.
Meant(c, o) ==
  LET f == c.file.list[o]  e == c.env.list[o] IN
  IF f.given THEN IF c.how = "json" THEN f.entries ELSE Spelled(o, f.entries)
  ELSE IF e.given THEN Spelled(o, e.entries) ELSE DefaultList

\* An empty list, lost in the JSON.
Lost(c, o) ==
  /\ c.how = "caddyfile" /\ c.file.list[o].given
  /\ Trimmed(o, c.file.list[o].entries) = <<>> /\ o \notin KeptEmpty

ListOption == [given : BOOLEAN, entries : Entries]

LEMMA ListOptionTyped ==
  ASSUME NEW c \in Configuration, NEW o \in Lists
  PROVE  c.file.list[o] \in ListOption /\ c.env.list[o] \in ListOption
  BY DEF Configuration, Options, ListOption, Entries

\* A tidy entry is an entry.
LEMMA SpelledType ==
  ASSUME NEW o \in Lists, NEW s \in Entries
  PROVE  Spelled(o, s) \in Entries /\ Len(Spelled(o, s)) = Len(s)
<1>1. s \in Seq(Entry) /\ Len(s) \in Nat /\ \A i \in 1..Len(s) : s[i] \in Entry
  BY ListType
<1>2. \A e \in Entry : Tidy(o, e) \in Entry
  BY DEF Tidy, Entry, Plain, Blank
<1>3. Spelled(o, s) \in [1..Len(s) -> Entry]
  BY <1>1, <1>2 DEF Spelled
<1>4. QED
  BY <1>1, <1>3 DEF Entries

LEMMA ModuleList ==
  ASSUME NEW c \in Configuration, NEW o \in Lists
  PROVE  LET f == c.file.list[o] IN
         /\ c.how # "caddyfile" => Module(c).list[o] = f
         /\ c.how = "caddyfile" =>
              Module(c).list[o] =
                IF Trimmed(o, f.entries) = <<>> /\ o \notin KeptEmpty THEN Unset
                ELSE [given |-> f.given, entries |-> Trimmed(o, f.entries)]
<1> PICK g \in FileOptions : g = c.file
  BY DEF Configuration, FileOptions
<1> DEFINE u == Unmarshal(g)
           j == ToJSON(u)
<1>1. u.list = [p \in Lists |-> [given |-> g.list[p].given,
                                  entries |-> Trimmed(p, g.list[p].entries)]]
  BY DEF Unmarshal, FileOptions, Options
<1>2. j.list = [p \in Lists |->
                  IF u.list[p].entries = <<>> /\ p \notin KeptEmpty THEN Unset ELSE u.list[p]]
  BY DEF ToJSON, Unmarshal, FileOptions, Options
<1>3. PICK f \in ListOption : f = g.list[o]
  BY ListOptionTyped
<1>4. u.list[o] = [given |-> f.given, entries |-> Trimmed(o, f.entries)]
  BY <1>1, <1>3 DEF ListOption
<1>5. j.list[o] = IF Trimmed(o, f.entries) = <<>> /\ o \notin KeptEmpty THEN Unset
                  ELSE [given |-> f.given, entries |-> Trimmed(o, f.entries)]
  BY <1>2, <1>4
<1>6. QED
  BY <1>3, <1>5 DEF Module

LEMMA TrimmedBlanks ==
  ASSUME NEW o \in Lists, NEW s \in Entries
  PROVE  \E X \in SUBSET {Blank} : Trimmed(o, s) = Without(Spelled(o, s), X)
<1> PICK t \in Entries : t = Spelled(o, s)
  BY SpelledType
<1>1. Without(t, {}) = t
  BY WithoutNone
<1>2. Trimmed(o, s) \in {t, Without(t, {Blank})}
  BY DEF Trimmed
<1>3. {} \in SUBSET {Blank} /\ {Blank} \in SUBSET {Blank}
  OBVIOUS
<1>4. CASE Trimmed(o, s) = t
  BY <1>1, <1>3, <1>4
<1>5. CASE Trimmed(o, s) = Without(t, {Blank})
  BY <1>3, <1>5
<1>6. QED
  BY <1>2, <1>4, <1>5

\* What is adjusted is the list that is meant, but for blanks, if it is not lost.
LEMMA BeforeOf ==
  ASSUME NEW c \in Configuration, NEW o \in Lists, ~Lost(c, o)
  PROVE  /\ Meant(c, o) \in Entries
         /\ \E X \in SUBSET {Blank} :
              ListBefore(Module(c), c.env)[o] = Without(Meant(c, o), X)
<1> DEFINE m == Module(c).list[o]
<1>1. PICK f \in ListOption : f = c.file.list[o]
  BY ListOptionTyped
<1>2. PICK e \in ListOption : e = c.env.list[o]
  BY ListOptionTyped
<1>3. /\ f.given \in BOOLEAN /\ f.entries \in Entries /\ e.entries \in Entries
      /\ c.how \in {"caddyfile", "json"}
  BY DEF ListOption, Configuration
<1>4. ListBefore(Module(c), c.env)[o] =
        IF m.given THEN m.entries
        ELSE IF e.given THEN Trimmed(o, e.entries) ELSE DefaultList
  BY <1>2 DEF ListBefore
<1>5. /\ m.given = f.given
      /\ f.given => m.entries = IF c.how = "json" THEN f.entries ELSE Trimmed(o, f.entries)
  <2>1. CASE c.how # "caddyfile"
    BY <1>1, <1>3, <2>1, ModuleList
  <2>2. CASE c.how = "caddyfile"
    <3>1. CASE Trimmed(o, f.entries) = <<>> /\ o \notin KeptEmpty
      <4>1. m = Unset /\ ~f.given
        BY <1>1, <2>2, <3>1, ModuleList DEF Lost
      <4>2. f.given = FALSE
        BY <1>3, <4>1
      <4>3. m.given = FALSE
        BY <4>1 DEF Unset
      <4>4. QED
        BY <4>2, <4>3
    <3>2. CASE ~(Trimmed(o, f.entries) = <<>> /\ o \notin KeptEmpty)
      <4>1. m = [given |-> f.given, entries |-> Trimmed(o, f.entries)]
        BY <1>1, <2>2, <3>2, ModuleList
      <4>2. QED
        BY <2>2, <4>1
    <3>3. QED
      BY <3>1, <3>2
  <2>3. QED
    BY <2>1, <2>2
<1>6. CASE f.given
  <2>1. ListBefore(Module(c), c.env)[o] = m.entries
    BY <1>4, <1>5, <1>6
  <2>2. CASE c.how = "json"
    <3>1. {} \in SUBSET {Blank} /\ Without(f.entries, {}) = f.entries
      BY <1>3, WithoutNone
    <3>2. Meant(c, o) = f.entries
      BY <1>1, <1>6, <2>2 DEF Meant
    <3>3. QED
      BY <1>3, <1>5, <1>6, <2>1, <2>2, <3>1, <3>2
  <2>3. CASE c.how # "json"
    <3>1. Meant(c, o) = Spelled(o, f.entries)
      BY <1>1, <1>6, <2>3 DEF Meant
    <3>2. QED
      BY <1>3, <1>5, <1>6, <2>1, <2>3, <3>1, SpelledType, TrimmedBlanks
  <2>4. QED
    BY <2>2, <2>3
<1>7. CASE ~f.given /\ e.given
  <2>1. Meant(c, o) = Spelled(o, e.entries)
    BY <1>1, <1>2, <1>7 DEF Meant
  <2>2. ListBefore(Module(c), c.env)[o] = Trimmed(o, e.entries)
    BY <1>4, <1>5, <1>7
  <2>3. QED
    BY <1>3, <2>1, <2>2, SpelledType, TrimmedBlanks
<1>8. CASE ~f.given /\ ~e.given
  <2>1. Meant(c, o) = DefaultList /\ ListBefore(Module(c), c.env)[o] = DefaultList
    BY <1>1, <1>2, <1>4, <1>5, <1>8 DEF Meant
  <2>2. {} \in SUBSET {Blank} /\ Without(DefaultList, {}) = DefaultList
    BY DefaultType, WithoutNone
  <2>3. QED
    BY <2>1, <2>2, DefaultType
<1>9. QED
  BY <1>6, <1>7, <1>8

\* What is lost had no names.
LEMMA LostMeans ==
  ASSUME NEW c \in Configuration, NEW o \in Lists, Lost(c, o)
  PROVE  /\ Names(Spelled(o, c.file.list[o].entries)) = {}
         /\ Listed(c) =>
              o \in {"cache_key_queries", "cache_key_headers", "cache_key_cookies"}
<1>1. PICK f \in ListOption : f = c.file.list[o]
  BY ListOptionTyped
<1>2. f.entries \in Entries
  BY DEF ListOption
<1> PICK t \in Entries : t = Spelled(o, f.entries)
  BY <1>2, SpelledType
<1>3. Trimmed(o, f.entries) = <<>>
  BY <1>1 DEF Lost
<1>4. Names(t) = {}
  <2>1. PICK X \in SUBSET {Blank} : Without(t, X) = <<>>
    BY <1>2, <1>3, TrimmedBlanks
  <2>2. Names(<<>>) = {}
    BY DEF Names
  <2>3. QED
    BY <2>1, <2>2, BlanksAside
<1>5. ASSUME Listed(c), o \in {"nocache", "cache_response_codes"}
      PROVE  FALSE
  <2>1. t = <<>>
    BY <1>3, <1>5 DEF Trimmed
  <2>2. Len(f.entries) = 0
    BY <1>2, <2>1, SpelledType
  <2>3. f.entries = <<>>
    BY <1>2, <2>2 DEF Entries
  <2>4. f = [given |-> TRUE, entries |-> <<>>]
    BY <1>1, <2>3 DEF Lost, ListOption
  <2>5. QED
    BY <1>1, <1>5, <2>4 DEF Lost, Listed, Given
<1>6. o \notin {"nocache_query", "cache_ignore_queries"}
  BY DEF Lost, KeptEmpty
<1>7. QED
  BY <1>1, <1>4, <1>5, <1>6 DEF Lists

\* A list that is accepted, if it is not lost, runs as what is meant stands for; and a
\* list that means the same runs as the same.
LEMMA ListRuns ==
  ASSUME NEW c \in Configuration, Accepts(c), NEW o \in Lists, ~Lost(c, o)
  PROVE  LET s == Meant(c, o)  r == Running(c).list[o] IN
         /\ Names(r) = StandsFor(s)
         /\ Adjustments(s) # {} => IsInjective(r)
<1> PICK s \in Entries : s = Meant(c, o)
  BY BeforeOf
<1>1. PICK X \in SUBSET {Blank} : ListBefore(Module(c), c.env)[o] = Without(s, X)
  BY BeforeOf
<1>2. Resolves(Without(s, X))
  BY <1>1 DEF Accepts, Provisions
<1>3. Adjustments(s) # {} => Regular(s)
  BY <1>2, BlanksAside
<1>4. Running(c).list[o] = Resolved(Without(s, X))
  BY <1>1 DEF Running, Provision
<1>5. Names(Running(c).list[o]) = StandsFor(s)
  BY <1>3, <1>4, ResolvedStands
<1>6. ASSUME Adjustments(s) # {} PROVE IsInjective(Running(c).list[o])
  <2>1. PICK r \in Entries : r = Running(c).list[o] /\ Once(r)
    BY <1>3, <1>4, <1>6, ResolvedStands
  <2>2. QED
    BY <2>1, ListType DEF IsInjective, Once
<1>7. QED
  BY <1>5, <1>6

-----------------------------------------------------------------------------
(* The same options in the other form.                                     *)

OtherWay(c) == [c EXCEPT !.how = IF c.how = "json" THEN "caddyfile" ELSE "json"]

LEMMA OtherType ==
  ASSUME NEW c \in Configuration
  PROVE  /\ OtherWay(c) \in Configuration
         /\ OtherWay(c).file = c.file /\ OtherWay(c).env = c.env
         /\ c.how \in {"caddyfile", "json"}
         /\ c.how = "json" <=> OtherWay(c).how = "caddyfile"
  BY DEF Configuration, OtherWay

LEMMA OtherLists ==
  ASSUME NEW c \in Configuration, Accepts(c), Accepts(OtherWay(c)), NEW o \in Lists
  PROVE  \/ Names(Running(OtherWay(c)).list[o]) = Names(Running(c).list[o])
         \/ Spelled(o, c.file.list[o].entries) # c.file.list[o].entries
         \/ c.file.list[o].given /\ Names(c.file.list[o].entries) = {}
<1> SUFFICES ASSUME Spelled(o, c.file.list[o].entries) = c.file.list[o].entries
             PROVE  \/ Names(Running(OtherWay(c)).list[o]) = Names(Running(c).list[o])
                    \/ c.file.list[o].given /\ Names(c.file.list[o].entries) = {}
  OBVIOUS
<1> PICK d \in Configuration : d = OtherWay(c)
  BY OtherType
<1>1. d.file = c.file /\ d.env = c.env
  BY OtherType
<1>2. CASE Lost(c, o)
  BY <1>2, LostMeans DEF Lost
<1>3. CASE Lost(d, o)
  BY <1>1, <1>3, LostMeans DEF Lost
<1>4. CASE ~Lost(c, o) /\ ~Lost(d, o)
  <2>1. Meant(d, o) = Meant(c, o)
    BY <1>1 DEF Meant
  <2>2. Names(Running(c).list[o]) = StandsFor(Meant(c, o))
    BY <1>4, ListRuns
  <2>3. Names(Running(d).list[o]) = StandsFor(Meant(d, o))
    BY <1>4, ListRuns
  <2>4. QED
    BY <2>1, <2>2, <2>3
<1>5. QED
  BY <1>2, <1>3, <1>4

LEMMA OtherNumbers ==
  ASSUME NEW c \in Configuration
  PROVE  Number(Module(OtherWay(c)), c.env) = Number(Module(c), c.env)
<1> PICK d \in Configuration : d = OtherWay(c)
  BY OtherType
<1>1. d.file = c.file /\ d.env = c.env
  BY OtherType
<1>2. \A o \in Numbers : Number(Module(d), d.env)[o] = Number(Module(c), c.env)[o]
  BY <1>1, NumberOf
<1>3. /\ Number(Module(c), c.env) = [o \in Numbers |-> Number(Module(c), c.env)[o]]
      /\ Number(Module(d), d.env) = [o \in Numbers |-> Number(Module(d), d.env)[o]]
  BY DEF Number
<1>4. QED
  BY <1>1, <1>2, <1>3

LEMMA OtherTexts ==
  ASSUME NEW c \in Configuration, NEW o \in Texts, c.file.text[o] # "raw"
  PROVE  Running(OtherWay(c)).text[o] = Running(c).text[o]
<1> PICK d \in Configuration : d = OtherWay(c)
  BY OtherType
<1>1. d.file = c.file /\ d.env = c.env
  BY OtherType
<1>2. \A b \in {c, d} : Running(b).text[o] =
        IF Written(Module(b).text[o]) THEN Module(b).text[o]
        ELSE IF ~Written(c.env.text[o]) THEN "default"
        ELSE IF o = "bypass_cache_control" /\ c.env.text[o] = "raw" THEN "other" ELSE c.env.text[o]
  BY <1>1 DEF Running, Provision, Text
<1>3. \A b \in {c, d} :
        /\ Written(Module(b).text[o]) <=> Written(c.file.text[o])
        /\ Written(c.file.text[o]) => Module(b).text[o] = c.file.text[o]
  BY <1>1, ModuleTexts
<1>4. QED
  BY <1>2, <1>3

LEMMA OtherValues ==
  ASSUME NEW c \in Configuration
  PROVE  LET r == Running(c)  q == Running(OtherWay(c)) IN
         q.number = r.number /\ q.dir = r.dir
<1> PICK d \in Configuration : d = OtherWay(c)
  BY OtherType
<1>1. d.file = c.file /\ d.env = c.env
  BY OtherType
<1>2. Running(d).number = Running(c).number
  BY <1>1, OtherNumbers DEF Running, Provision
<1>3. PluginDir(Module(d), d.env) = PluginDir(Module(c), c.env)
  <2>1. \A b \in {c, d} :
          PluginDir(Module(b), b.env) =
            IF b.env.dir # "unset" THEN b.env.dir
            ELSE IF b.file.dir # "unset" THEN b.file.dir ELSE "default"
    <3> TAKE b \in {c, d}
    <3>1. /\ b \in Configuration
          /\ b.file.dir # "unset" => Module(b).dir = b.file.dir
          /\ b.file.dir = "unset" => Module(b).dir \in {"unset", "default"}
      BY ModuleDir, ModuleOfCaddyfile, ModuleOfJSON
    <3>2. QED
      BY <3>1 DEF PluginDir
  <2>2. QED
    BY <1>1, <2>1
<1>4. Running(d).dir = Running(c).dir
  BY <1>3 DEF Running, Provision
<1>5. QED
  BY <1>2, <1>4

LEMMA NoNames == Names(<<>>) = {}
  BY DEF Names

\* A tidy list comes to Provision as it is, or is an empty one that is lost.
LEMMA TidyBefore ==
  ASSUME NEW c \in Configuration, NEW o \in Lists,
         Trimmed(o, c.file.list[o].entries) = c.file.list[o].entries,
         ~(c.file.list[o].given /\ Names(c.file.list[o].entries) = {})
  PROVE  ListBefore(Module(c), c.env)[o] =
           IF c.file.list[o].given THEN c.file.list[o].entries
           ELSE IF c.env.list[o].given THEN Trimmed(o, c.env.list[o].entries)
           ELSE DefaultList
<1> DEFINE m == Module(c).list[o]
<1>1. PICK f \in ListOption : f = c.file.list[o]
  BY ListOptionTyped
<1>2. Names(<<>>) = {}
  BY NoNames
<1>3. ListBefore(Module(c), c.env)[o] =
        IF m.given THEN m.entries
        ELSE IF c.env.list[o].given THEN Trimmed(o, c.env.list[o].entries) ELSE DefaultList
  BY DEF ListBefore
<1>4. m.given = f.given /\ (f.given => m.entries = f.entries)
  <2>1. CASE c.how # "caddyfile"
    BY <1>1, <2>1, ModuleList
  <2>2. CASE c.how = "caddyfile" /\ f.entries = <<>> /\ o \notin KeptEmpty
    <3>1. ~f.given
      BY <1>1, <1>2, <2>2
    <3>2. f.given = FALSE
      <4>1. f.given \in BOOLEAN
        BY DEF ListOption
      <4>2. QED
        BY <3>1, <4>1
    <3>3. m = Unset
      BY <1>1, <2>2, ModuleList
    <3>4. m.given = FALSE
      BY <3>3 DEF Unset
    <3>5. QED
      BY <3>2, <3>4
  <2>3. CASE c.how = "caddyfile" /\ ~(f.entries = <<>> /\ o \notin KeptEmpty)
    <3>1. m = [given |-> f.given, entries |-> f.entries]
      BY <1>1, <2>3, ModuleList
    <3>2. QED
      BY <3>1
  <2>4. QED
    BY <2>1, <2>2, <2>3
<1>5. QED
  BY <1>1, <1>3, <1>4

\* What has no cause in either form, or the same in both, fares the same in both.
LEMMA OtherAccepted ==
  ASSUME NEW c \in Configuration, ~FormMatters(c.file)
  PROVE  Accepts(OtherWay(c)) <=> Accepts(c)
<1> PICK d \in Configuration : d = OtherWay(c)
  BY OtherType
<1>1. d.file = c.file /\ d.env = c.env
  BY OtherType
<1>2. \A o \in Lists : ListBefore(Module(d), c.env)[o] = ListBefore(Module(c), c.env)[o]
  BY <1>1, TidyBefore DEF FormMatters
<1>3. \A o \in Texts : c.file.text[o] = "bad" => o # "metrics"
  BY DEF FormMatters
<1>4. ASSUME NEW b \in {c, d}
      PROVE  Cause(b) <=>
               \/ ~WellTyped(c.file)
               \/ \E o \in Texts : ~Written(c.file.text[o]) /\ c.env.text[o] = "bad"
               \/ \E o \in Texts : c.file.text[o] = "bad"
               \/ \E o \in Lists : ~Resolves(ListBefore(Module(c), c.env)[o])
               \/ SetIn(c, "memory_percent")
               \/ /\ SetIn(c, "disk_percent")
                  /\ SetIn(c, "disk") \/ ~Written(c.file.number["disk_percent"])
  <2>1. b.file = c.file /\ b.env = c.env
    BY <1>1
  <2>2. \A o : SetIn(b, o) <=> SetIn(c, o)
    BY <2>1 DEF SetIn
  <2>3. (\E o \in Lists : ~Resolves(ListBefore(Module(b), b.env)[o])) <=>
          \E o \in Lists : ~Resolves(ListBefore(Module(c), c.env)[o])
    BY <1>1, <1>2
  <2>4. /\ ~\E o \in Numbers : OutOfRange(o, c.file.number[o])
        /\ ~\E o \in Required : c.file.text[o] = "empty"
        /\ c.file.text["bypass_cache_control"] # "raw"
    BY DEF FormMatters
  <2>5. QED
    BY <1>3, <2>1, <2>2, <2>3, <2>4 DEF Cause
<1>5. Cause(d) <=> Cause(c)
  BY <1>4
<1>6. QED
  BY <1>5, RefusalMeans

LEMMA OtherFlags ==
  ASSUME NEW c \in Configuration, Accepts(c), NEW o \in Flags
  PROVE  \/ Running(OtherWay(c)).flag[o] = Running(c).flag[o]
         \/ /\ o = PluginOption /\ c.file.dir = "custom"
            /\ c.file.flag[o] = "unset"
<1> PICK d \in Configuration : d = OtherWay(c)
  BY OtherType
<1>1. /\ d.file = c.file /\ d.env = c.env
      /\ c.how \in {"caddyfile", "json"} /\ (c.how = "json" <=> d.how = "caddyfile")
  BY OtherType
<1>2. \A b \in {c, d} :
        /\ Running(b).flag["nocache_home"] = NoCacheHome(Module(b), c.env)
        /\ Running(b).flag["range_fill"] = Flag(Module(b), c.env, "range_fill", "true")
        /\ Running(b).flag[PluginOption] = PluginEnabled(Module(b), c.env)
  BY <1>1 DEF Running, Provision, Flags, PluginOption
<1>3. CASE o = "range_fill"
  <2>1. \A b \in {c, d} : Module(b).flag["range_fill"] = c.file.flag["range_fill"]
    BY <1>1, ModuleOfCaddyfile, ModuleOfJSON DEF Flags, PluginOption
  <2>2. QED
    BY <1>2, <1>3, <2>1 DEF Flag
<1>4. CASE o = "nocache_home"
  <2>1. \A b \in {c, d} : Module(b).flag["nocache_home"] = "true"
                            <=> c.file.flag["nocache_home"] = "true"
    BY <1>1, ModuleOfCaddyfile, ModuleOfJSON DEF Flags, PluginOption
  <2>2. QED
    BY <1>2, <1>4, <2>1 DEF NoCacheHome
<1>5. CASE o = PluginOption /\ ~(c.file.dir = "custom" /\ c.file.flag[o] = "unset")
  <2> DEFINE on(b) == Module(b).flag[PluginOption] = "true"
             missing(b) == ~on(b) /\ Module(b).dir \in {"unset", "default"}
  <2>1. c.file.flag[PluginOption] \in {"unset", "true", "false"}
    <3>1. WellTyped(c.file)
      BY DEF Accepts, Parses
    <3>2. QED
      BY <3>1 DEF WellTyped, Configuration, Options, Flags, PluginOption
  <2>2. c.file.dir \in {"unset", "default", "custom"}
    BY DEF Configuration, Options, Dirs
  <2>3. \A b \in {c, d} :
          /\ b.how = "caddyfile" => (on(b) <=> c.file.flag[PluginOption] # "false")
          /\ b.how # "caddyfile" => (on(b) <=> c.file.flag[PluginOption] = "true")
          /\ Module(b).dir \in {"unset", "default"} <=> c.file.dir # "custom"
    BY <1>1, <2>1, <2>2, ModuleOfCaddyfile, ModuleOfJSON
  <2>4. \A b \in {c, d} : (on(b) \/ missing(b)) <=>
          c.file.flag[PluginOption] = "true" \/ c.file.dir # "custom"
    BY <1>1, <1>5, <2>1, <2>3
  <2>5. \A b \in {c, d} : PluginEnabled(Module(b), c.env) =
          IF c.env.flag[PluginOption] \in {"true", "false"} THEN c.env.flag[PluginOption]
          ELSE IF c.env.flag[PluginOption] = "bad" \/ (on(b) \/ missing(b)) THEN "true"
          ELSE "false"
    BY DEF PluginEnabled, PluginOption
  <2>6. QED
    BY <1>2, <1>5, <2>4, <2>5
<1>6. QED
  BY <1>3, <1>4, <1>5 DEF Flags, PluginOption

-----------------------------------------------------------------------------
(* The invariant.                                                          *)

Contents == Nat \cup {Absent, Edited}

\* What was loaded last was refused for a cause, or else is what runs.
Loaded ==
  /\ family \in DOMAIN Families /\ wrote \in Configuration /\ Listed(wrote)
  /\ loads \in Nat /\ release \in Nat
  /\ loads > 0 => (refused <=> ~Accepts(wrote))
  /\ Runs => loads > 0 /\ running = Running(wrote)

ConfigInv ==
  /\ Loaded
  /\ plugins \in [Dirs -> Contents] /\ touched \subseteq Dirs
  /\ PluginFollows

\* The directory that Provision settles on is one of the two.
LEMMA DirTyped ==
  ASSUME NEW c \in Configuration
  PROVE  Running(c).dir \in Dirs
<1>1. c.env.dir \in {"unset", "default", "custom"}
  BY DEF Configuration, Options, Dirs
<1>2. Running(c).dir = PluginDir(Module(c), c.env)
  BY DEF Running, Provision
<1>3. QED
  BY <1>1, <1>2, ModuleDir DEF PluginDir, Dirs

\* After manageMuPlugins the file is this release's if and only if the option is on.
LEMMA ManagedFollows ==
  ASSUME release \in Nat, NEW file \in Contents, NEW enabled
  PROVE  /\ Managed(enabled, file) \in Contents
         /\ Managed(enabled, file) = release <=> enabled = "true"
<1>1. release # Absent
  BY ConfigAssumption
<1>2. CASE enabled = "true"
  <2>1. Managed(enabled, file) = release
    BY <1>2 DEF Managed
  <2>2. release \in Contents
    BY DEF Contents
  <2>3. QED
    BY <1>2, <2>1, <2>2
<1>3. CASE enabled # "true" /\ file = release
  <2>1. Managed(enabled, file) = Absent
    BY <1>3 DEF Managed
  <2>2. QED
    BY <1>1, <1>3, <2>1 DEF Contents
<1>4. CASE enabled # "true" /\ file # release
  BY <1>4 DEF Managed
<1>5. QED
  BY <1>2, <1>3, <1>4

\* An accepted configuration's options, and the plugin's file under them.
LEMMA ManageKeeps ==
  ASSUME release \in Nat, plugins \in [Dirs -> Contents], NEW c \in Configuration,
         ManageMuPlugins(Running(c))
  PROVE  LET opts == Running(c) IN
         /\ plugins' \in [Dirs -> Contents] /\ touched' \subseteq Dirs
         /\ opts.dir \notin touched' =>
              (plugins'[opts.dir] = release <=> opts.flag["wp_mu_plugin_enabled"] = "true")
<1> DEFINE opts == Running(c)
           enabled == opts.flag["wp_mu_plugin_enabled"]
<1>1. PICK d \in Dirs : d = opts.dir
  BY DirTyped
<1>2. PICK fails \in BOOLEAN :
        /\ plugins' = IF fails THEN plugins
                      ELSE [plugins EXCEPT ![d] = Managed(enabled, plugins[d])]
        /\ touched' = IF fails THEN {d} ELSE {}
  BY <1>1 DEF ManageMuPlugins
<1>3. /\ Managed(enabled, plugins[d]) \in Contents
      /\ Managed(enabled, plugins[d]) = release <=> enabled = "true"
  BY ManagedFollows
<1>4. QED
  BY <1>1, <1>2, <1>3

LEMMA LoadKeeps ==
  ASSUME ConfigInv, Load
  PROVE  ConfigInv'
<1>1. PICK c \in Configuration : Provisioned(c) /\ Listed(c)
  BY ConfigAssumption DEF Load, ConfigInv, Loaded
<1>2. /\ wrote' = c /\ loads' = loads + 1 /\ release' = release /\ family' = family
      /\ loads' > 0 /\ loads' \in Nat
  BY <1>1 DEF Load, Provisioned, ConfigInv, Loaded
<1>3. CASE Accepts(c)
  <2>1. refused' = FALSE /\ running' = Running(c) /\ ManageMuPlugins(Running(c))
    BY <1>1, <1>3 DEF Provisioned, Running
  <2>2. Loaded'
    BY <1>1, <1>2, <1>3, <2>1 DEF Loaded, ConfigInv, Runs
  <2>3. /\ plugins' \in [Dirs -> Contents] /\ touched' \subseteq Dirs
        /\ Running(c).dir \notin touched' =>
             (plugins'[Running(c).dir] = release
                <=> Running(c).flag["wp_mu_plugin_enabled"] = "true")
    BY <2>1, ManageKeeps DEF ConfigInv, Loaded
  <2>4. PluginFollows'
    BY <1>2, <2>1, <2>3 DEF PluginFollows
  <2>5. QED
    BY <2>2, <2>3, <2>4 DEF ConfigInv
<1>4. CASE ~Accepts(c)
  <2>1. refused' = TRUE /\ UNCHANGED <<running, plugins, touched>>
    BY <1>1, <1>4 DEF Provisioned
  <2>2. Loaded'
    BY <1>1, <1>2, <1>4, <2>1 DEF Loaded, ConfigInv, Runs
  <2>3. PluginFollows'
    BY <2>1 DEF PluginFollows, Runs
  <2>4. QED
    BY <2>1, <2>2, <2>3 DEF ConfigInv
<1>5. QED
  BY <1>3, <1>4

LEMMA StopKeeps ==
  ASSUME ConfigInv, Stop
  PROVE  ConfigInv'
<1>1. /\ running' = None /\ release' \in Nat
      /\ UNCHANGED <<family, wrote, refused, plugins, touched, loads>>
  BY DEF Stop, ConfigInv, Loaded
<1>2. ~Runs'
  BY <1>1 DEF Runs
<1>3. Loaded'
  BY <1>1, <1>2 DEF ConfigInv, Loaded
<1>4. QED
  BY <1>1, <1>2, <1>3 DEF ConfigInv, PluginFollows

LEMMA EditKeeps ==
  ASSUME ConfigInv, NEW d \in Dirs, EditPlugin(d)
  PROVE  ConfigInv'
<1>1. /\ UNCHANGED <<family, wrote, refused, running, release, loads>>
      /\ touched' = touched \cup {d}
  BY DEF EditPlugin
<1>2. PICK x \in Contents : plugins' = [plugins EXCEPT ![d] = x]
  BY DEF EditPlugin, Contents
<1>3. Loaded' /\ (Runs' => Runs)
  BY <1>1 DEF ConfigInv, Loaded, Runs
<1>4. plugins' \in [Dirs -> Contents] /\ touched' \subseteq Dirs
  BY <1>1, <1>2 DEF ConfigInv
<1>5. PluginFollows'
  <2>1. SUFFICES ASSUME Runs, running.dir \notin touched'
                 PROVE  plugins'[running.dir] = plugins[running.dir]
    BY <1>1, <1>3 DEF PluginFollows, ConfigInv
  <2>2. running.dir # d
    BY <1>1, <2>1
  <2>3. running.dir \in Dirs
    BY <2>1, DirTyped DEF ConfigInv, Loaded
  <2>4. QED
    BY <1>2, <2>2, <2>3 DEF ConfigInv
<1>6. QED
  BY <1>3, <1>4, <1>5 DEF ConfigInv

\* The inductive invariant: what runs is what Provision makes of what was loaded.
THEOREM ConfigInvariant == Spec => []ConfigInv
<1>1. Init => ConfigInv
  <2> SUFFICES ASSUME Init PROVE ConfigInv
    OBVIOUS
  <2>1. Unset \in [given : BOOLEAN, entries : Seq(Entry)]
    BY DEF Unset
  <2>2. Nothing \in FileOptions /\ Nothing \in EnvOptions
    BY <2>1 DEF Nothing, FileOptions, EnvOptions, Options
  <2>3. NotLoaded \in Configuration
    BY <2>2 DEF NotLoaded, Configuration, FileOptions, EnvOptions
  <2>4. ~Runs /\ Listed(NotLoaded)
    BY DEF Init, Runs, Listed, NotLoaded
  <2>5. Loaded
    BY <2>3, <2>4 DEF Init, Loaded
  <2>6. plugins \in [Dirs -> Contents] /\ touched \subseteq Dirs
    BY DEF Init, Contents
  <2>7. QED
    BY <2>4, <2>5, <2>6 DEF ConfigInv, PluginFollows
<1>2. ConfigInv /\ [Next]_vars => ConfigInv'
  <2> SUFFICES ASSUME ConfigInv, [Next]_vars
               PROVE  ConfigInv'
    OBVIOUS
  <2>1. CASE Load
    BY <2>1, LoadKeeps
  <2>2. CASE Stop
    BY <2>2, StopKeeps
  <2>3. CASE \E d \in Dirs : EditPlugin(d)
    BY <2>3, EditKeeps
  <2>4. CASE UNCHANGED vars
    <3>1. Loaded' /\ PluginFollows'
      BY <2>4 DEF vars, counts, ConfigInv, Loaded, Runs, PluginFollows
    <3>2. QED
      BY <2>4, <3>1 DEF vars, ConfigInv
  <2>5. QED
    BY <2>1, <2>2, <2>3, <2>4 DEF Next
<1>3. QED
  BY <1>1, <1>2, PTL DEF Spec

\* What the file sets is what runs (UnmarshalCaddyfile, Provision): the part of
\* RunsAsWritten about values and flags.
THEOREM SettingsSurvive == Spec => []SettingsKept
<1>1. ASSUME ConfigInv PROVE SettingsKept
  <2> SUFFICES ASSUME Runs PROVE SettingsKept
    BY DEF SettingsKept
  <2>1. PICK c \in Configuration : c = wrote
    BY <1>1 DEF ConfigInv, Loaded
  <2>2. running = Running(c) /\ Accepts(c)
    BY <1>1, <2>1 DEF ConfigInv, Loaded, Runs
  <2>3. QED
    BY <2>1, <2>2, Kept DEF SettingsKept, PluginOption
<1>2. QED
  BY <1>1, ConfigInvariant, PTL

\* Only -1 turns the memory tier off (SetWithKey): its part of RunsAsWritten.
THEOREM TierUsed == Spec => []MemoryTierUsed
<1>1. ASSUME ConfigInv PROVE MemoryTierUsed
  <2> SUFFICES ASSUME Runs, ~running.memoryTier PROVE MemoryTierUsed
    BY DEF MemoryTierUsed
  <2>1. PICK c \in Configuration : c = wrote
    BY <1>1 DEF ConfigInv, Loaded
  <2>2. running = Running(c)
    BY <1>1, <2>1 DEF ConfigInv, Loaded
  <2>3. QED
    BY <2>1, <2>2, TierOf DEF MemoryTierUsed
<1>2. QED
  BY <1>1, ConfigInvariant, PTL

\* Exactly the configurations with a cause are refused (Provision, UnmarshalCaddyfile).
THEOREM RefusalsCaused == Spec => []RefusedForCause
<1>1. ASSUME ConfigInv PROVE RefusedForCause
  <2> SUFFICES ASSUME loads > 0 PROVE RefusedForCause
    BY DEF RefusedForCause
  <2>1. PICK c \in Configuration : c = wrote
    BY <1>1 DEF ConfigInv, Loaded
  <2>2. refused <=> Cause(c)
    BY <1>1, <2>1, RefusalMeans DEF ConfigInv, Loaded
  <2>3. \A o : SetIn(c, o) <=> Set(o)
    BY <2>1 DEF SetIn, Set
  <2>4. QED
    BY <2>1, <2>2, <2>3 DEF Cause, RefusedForCause
<1>2. QED
  BY <1>1, ConfigInvariant, PTL

\* The plugin's file is what the option says (manageMuPlugins).
THEOREM PluginKept == Spec => []PluginFollows
<1>1. ConfigInv => PluginFollows
  BY DEF ConfigInv
<1>2. QED
  BY <1>1, ConfigInvariant, PTL

\* What the operator lists is what runs (UnmarshalCaddyfile, resolveListAdjustments).
THEOREM ListsKept == Spec => []ListsAsWritten
<1>1. ASSUME ConfigInv PROVE ListsAsWritten
  <2> SUFFICES ASSUME Runs, NEW o \in Lists
               PROVE  \/ /\ Names(running.list[o]) = StandsFor(Meant(wrote, o))
                         /\ Adjustments(Meant(wrote, o)) # {} => IsInjective(running.list[o])
                      \/ /\ o \in {"cache_key_queries", "cache_key_headers", "cache_key_cookies"}
                         /\ wrote.how = "caddyfile" /\ wrote.file.list[o].given
                         /\ Names(Spelled(o, wrote.file.list[o].entries)) = {}
    BY DEF ListsAsWritten, Meant
  <2>1. PICK c \in Configuration : c = wrote
    BY <1>1 DEF ConfigInv, Loaded
  <2>2. running = Running(c) /\ Accepts(c) /\ Listed(c)
    BY <1>1, <2>1 DEF ConfigInv, Loaded, Runs
  <2>3. CASE Lost(c, o)
    BY <2>1, <2>2, <2>3, LostMeans DEF Lost
  <2>4. CASE ~Lost(c, o)
    BY <2>1, <2>2, <2>4, ListRuns
  <2>5. QED
    BY <2>3, <2>4
<1>2. QED
  BY <1>1, ConfigInvariant, PTL

\* All of it: the values, the lists and the memory tier (UnmarshalCaddyfile, Provision).
THEOREM WrittenRuns == Spec => []RunsAsWritten
<1>1. SettingsKept /\ ListsAsWritten /\ MemoryTierUsed => RunsAsWritten
  BY DEF RunsAsWritten
<1>2. QED
  BY <1>1, SettingsSurvive, ListsKept, TierUsed, PTL

\* A Caddyfile and the JSON of the same options are accepted alike and run the same
\* (UnmarshalCaddyfile, Provision), with the exceptions SameEitherWay names.
THEOREM EitherWay == Spec => []SameEitherWay
<1>1. ASSUME ConfigInv PROVE SameEitherWay
  <2>1. PICK c \in Configuration : c = wrote
    BY <1>1 DEF ConfigInv, Loaded
  <2> PICK d \in Configuration : d = OtherWay(c)
    BY OtherType
  <2> DEFINE f == wrote.file
             other == Provision(Module(d), d.env)
  <2>2. d = [wrote EXCEPT !.how = IF @ = "json" THEN "caddyfile" ELSE "json"]
    BY <2>1 DEF OtherWay
  <2>3. loads > 0 /\ ~FormMatters(f) => (Accepts(d) <=> ~refused)
    <3>1. SUFFICES ASSUME loads > 0, ~FormMatters(c.file)
                   PROVE  Accepts(d) <=> ~refused
      BY <2>1
    <3>2. refused <=> ~Accepts(c)
      BY <1>1, <2>1, <3>1 DEF ConfigInv, Loaded
    <3>3. QED
      BY <3>1, <3>2, OtherAccepted
  <2>4. ASSUME Runs, Accepts(d)
        PROVE  /\ other.number = running.number /\ other.dir = running.dir
               /\ \A o \in Texts : other.text[o] = running.text[o] \/ f.text[o] = "raw"
               /\ \A o \in Lists :
                    \/ Names(other.list[o]) = Names(running.list[o])
                    \/ Spelled(o, f.list[o].entries) # f.list[o].entries
                    \/ f.list[o].given /\ Names(f.list[o].entries) = {}
               /\ \A o \in Flags :
                    \/ other.flag[o] = running.flag[o]
                    \/ /\ o = "wp_mu_plugin_enabled" /\ f.dir = "custom"
                       /\ f.flag[o] = "unset"
    <3>1. running = Running(c) /\ Accepts(c) /\ other = Running(d)
      BY <1>1, <2>1, <2>4 DEF ConfigInv, Loaded, Runs, Running
    <3> HIDE DEF other
    <3>2. other.number = running.number /\ other.dir = running.dir
      BY <3>1, OtherValues
    <3>3. \A o \in Texts : other.text[o] = running.text[o] \/ f.text[o] = "raw"
      BY <2>1, <3>1, OtherTexts
    <3>4. \A o \in Lists :
            \/ Names(other.list[o]) = Names(running.list[o])
            \/ Spelled(o, f.list[o].entries) # f.list[o].entries
            \/ f.list[o].given /\ Names(f.list[o].entries) = {}
      BY <2>1, <2>4, <3>1, OtherLists
    <3>5. \A o \in Flags :
            \/ other.flag[o] = running.flag[o]
            \/ /\ o = "wp_mu_plugin_enabled" /\ f.dir = "custom"
               /\ f.flag[o] = "unset"
      BY <2>1, <3>1, OtherFlags DEF PluginOption
    <3>6. QED
      BY <3>2, <3>3, <3>4, <3>5
  <2> HIDE DEF other
  <2>5. QED
    BY <2>2, <2>3, <2>4 DEF SameEitherWay, other
<1>2. QED
  BY <1>1, ConfigInvariant, PTL
=============================================================================
