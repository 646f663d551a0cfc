------------------------------ MODULE MCConfig -------------------------------
(* Instances of Config.tla small enough for TLC; see the cfg files.         *)
EXTENDS Config, TLC

Ways == {"caddyfile", "json"}
InFile == {"unset", "zero", "unlimited", "some", "bad"}
InEnv == {"unset", "zero", "unlimited", "other", "bad"}

Cases(files, envs) ==
  {[how |-> h, file |-> f, env |-> e] : h \in Ways, f \in files, e \in envs}

\* One number, or a size and the other number it depends on.
Beyond(o) == IF o \in Percents THEN {"beyond"} ELSE {}
OneNumber(o) ==
  Cases({[Nothing EXCEPT !.number[o] = v] : v \in InFile},
        {[Nothing EXCEPT !.number[o] = v] : v \in InEnv})
TwoNumbers(o, p) ==
  Cases({[Nothing EXCEPT !.number[o] = v, !.number[p] = w] :
           v \in InFile \ {"bad"}, w \in (InFile \ {"bad"}) \cup Beyond(p)},
        {[Nothing EXCEPT !.number[o] = v, !.number[p] = w] :
           v \in InEnv \ {"bad"}, w \in (InEnv \ {"bad"}) \cup Beyond(p)})

TextValues(o, value) ==
  {"unset", "empty", value} \cup (IF o \in Checked THEN {"bad"} ELSE {})
                            \cup (IF o \in Tidied THEN {"raw"} ELSE {})
OneText(o) ==
  Cases({[Nothing EXCEPT !.text[o] = v] : v \in TextValues(o, "some")},
        {[Nothing EXCEPT !.text[o] = v] : v \in TextValues(o, "other")})

\* Lists of up to two entries and, in the file, of three adjustments.
Entries == {e \in Entry : e.name # "e"}
Nameless == {e \in Entry : IsAdjustment(e) /\ e.name = ""}
SomeLists == {Given(<<>>)} \cup {Given(<<a>>) : a \in Entries}
             \cup {Given(<<a, b>>) : a \in {e \in Entries : e.name \notin {" ", "xXX"}},
                                     b \in {e \in Entries : e.name # " " /\ e \notin Nameless}}
ThreeAdjustments ==
  {Given(<<a, b, c>>) : a, b, c \in {e \in Entry : IsAdjustment(e) /\ e.name \in {"d", "x"}}}
OneList(o) ==
  {c \in Cases({[Nothing EXCEPT !.list[o] = s] : s \in {Unset} \cup SomeLists \cup ThreeAdjustments},
               {[Nothing EXCEPT !.list[o] = s] :
                  s \in {Unset, Given(<<Blank>>), Given(<<Plain("x")>>), Given(<<Plain("xXX")>>),
                         Given(<<[op |-> "+", name |-> "x"], Plain(" +x")>>)}}) : Listed(c)}

OneFlag(o) ==
  Cases({[Nothing EXCEPT !.flag[o] = v] : v \in {"unset", "true", "false"}},
        {[Nothing EXCEPT !.flag[o] = v] : v \in {"unset", "true", "false", "bad"}})

Plugin ==
  Cases({[Nothing EXCEPT !.flag["wp_mu_plugin_enabled"] = v, !.dir = d] :
           v \in {"unset", "true", "false"}, d \in {"unset"} \cup Dirs},
        {[Nothing EXCEPT !.flag["wp_mu_plugin_enabled"] = v, !.dir = d] :
           v \in {"unset", "false"}, d \in {"unset", "custom"}})

AllFamilies ==
  [o \in Numbers \cup Texts \cup Lists |->
     CASE o = "memory_percent" -> TwoNumbers("memory", o)
       [] o = "disk_percent" -> TwoNumbers("disk", o)
       [] o = "range_fill" -> TwoNumbers(o, "disk_item")
       [] o \in Texts -> OneText(o)
       [] o \in Lists -> OneList(o)
       [] OTHER -> OneNumber(o)]
  @@ [o \in {"range_fill flag", "nocache_home", "wp_mu_plugin_enabled", "plugin"} |->
        CASE o = "plugin" -> Plugin
          [] o = "range_fill flag" -> OneFlag("range_fill")
          [] OTHER -> OneFlag(o)]

\* What a load leaves for the next is the plugin's files, and they are what is edited.
Loads == [f \in DOMAIN AllFamilies |-> IF f = "plugin" THEN 2 ELSE 1]
Edits == [f \in DOMAIN AllFamilies |-> IF f \in {"plugin", "wp_mu_plugin_enabled"} THEN 1 ELSE 0]
=============================================================================
