--------------------------------- MODULE Config ---------------------------------
(***************************************************************************)
(* How src/main.c arrives at its run_config_t: it looks for a configuration *)
(* file, scans the arguments for another one, parses the file line by line, *)
(* then parses the arguments with getopt, and decides what to do.           *)
(*                                                                          *)
(* Keys stands for the settings that hold one value (tier, threads, mode,   *)
(* limits, ...), which file and arguments treat alike: assign, last one     *)
(* wins.  benchmark is the setting that collects.                           *)
(***************************************************************************)
EXTENDS Integers, Sequences, FiniteSets, FiniteSetsExt

CONSTANTS
  Values,        (* what a setting may be                                   *)
  Names,         (* names of benchmarks                                     *)
  MaxFilter,     (* MAX_BENCH_FILTER                                        *)
  Cpus,          (* SSB_NUM_CPUS()                                          *)
  Contents,      (* the lines of each file, if it exists                    *)
  ArgLists       (* argument lists                                          *)

Keys == {"tier", "threads"}
Paths == {"xdgdir", "xdgfile", "homefile", "etc", "cwd", "other"}

Line == [key : Keys, value : Values] \cup [key : {"benchmark"}, value : Names]
Flag == [key : {"dry-run", "validate", "help"}, value : {"none"}]
ConfigArg == [key : {"config", "attached-config"}, value : Paths]
Arg == Line \cup Flag \cup ConfigArg

ConfigAssumption ==
  /\ Values \subseteq Int /\ 0 \in Values /\ 1 \in Values
  /\ MaxFilter \in Nat /\ Cpus \in Nat \ {0}
  /\ Contents \in [Paths -> Seq(Line)]
  /\ ArgLists \subseteq Seq(Arg)

VARIABLES
  args,       (* argv                                                       *)
  env,        (* which of XDG_CONFIG_HOME and HOME are set                  *)
  fs,         (* the paths that exist                                       *)
  pc,
  path,       (* config_path                                                *)
  parsed,     (* the path parse_config was called with                      *)
  next,       (* the line or argument that is next                          *)
  settings,   (* the settings of run_config_t                               *)
  filter,     (* bench_filter                                               *)
  flags       (* dry_run, validate_only                                     *)

inputs == << args, env, fs >>
vars == << inputs, pc, path, parsed, next, settings, filter, flags >>

Labels == {"search", "prescan", "file", "options", "decide",
           "run", "list", "validate", "exit"}

TypeOK ==
  /\ args \in ArgLists
  /\ env \subseteq {"XDG_CONFIG_HOME", "HOME"}
  /\ fs \subseteq Paths
  /\ pc \in Labels
  /\ path \in Paths
  /\ parsed \in Paths \cup {"none"}
  /\ next \in Nat
  /\ settings \in [Keys -> Values \cup {Cpus}]
  /\ filter \in Seq(Names) /\ Len(filter) <= MaxFilter
  /\ flags \subseteq {"dry-run", "validate"}

Default == [k \in Keys |-> IF k = "tier" THEN 1 ELSE 0]

Init ==
  /\ args \in ArgLists
  /\ env \in SUBSET {"XDG_CONFIG_HOME", "HOME"}
  /\ fs \in {s \in SUBSET Paths : "xdgfile" \in s => "xdgdir" \in s}
  /\ pc = "search" /\ path = "cwd" /\ parsed = "none" /\ next = 1
  /\ settings = Default /\ filter = << >> /\ flags = {}

-----------------------------------------------------------------------------
(* The places looked at: the value of XDG_CONFIG_HOME itself, or a file     *)
(* below HOME if it is not set, /etc, the working directory.                *)
Places ==
  (IF "XDG_CONFIG_HOME" \in env THEN << "xdgdir" >>
   ELSE IF "HOME" \in env THEN << "homefile" >> ELSE << >>)
  \o << "etc", "cwd" >>

Search ==
  /\ pc = "search"
  /\ LET found == {j \in DOMAIN Places : Places[j] \in fs}
     IN  path' = IF found = {} THEN "cwd" ELSE Places[Min(found)]
  /\ pc' = "prescan"
  /\ UNCHANGED << inputs, parsed, next, settings, filter, flags >>

(* The first --config of argv, unless its value is attached to the option   *)
(* letter (-Cfile), which only getopt understands.                          *)
Prescan ==
  /\ pc = "prescan"
  /\ LET named == {j \in DOMAIN args : args[j].key = "config"}
         p == IF named = {} THEN path ELSE args[Min(named)].value
     IN  path' = p /\ parsed' = p
  /\ pc' = "file"
  /\ UNCHANGED << inputs, next, settings, filter, flags >>

(* The lines fgets returns: none if the path is missing or a directory.     *)
Lines(p) == IF p \in fs \ {"xdgdir"} THEN Contents[p] ELSE << >>

Collect_Unbounded(name) == filter' = Append(filter, name)

Collect(name) ==
  filter' = IF Len(filter) < MaxFilter THEN Append(filter, name) ELSE filter

Assign_First(a) ==
  IF a.key = "benchmark"
  THEN Collect(a.value) /\ UNCHANGED settings
  ELSE /\ settings' = IF settings[a.key] = Default[a.key]
                      THEN [settings EXCEPT ![a.key] = a.value] ELSE settings
       /\ UNCHANGED filter

(* What a line and an option of the same name both do.                      *)
Assign(a) ==
  IF a.key = "benchmark"
  THEN Collect(a.value) /\ UNCHANGED settings
  ELSE settings' = [settings EXCEPT ![a.key] = a.value] /\ UNCHANGED filter

ParseLine ==
  /\ pc = "file" /\ next <= Len(Lines(path))
  /\ Assign(Lines(path)[next])
  /\ next' = next + 1
  /\ UNCHANGED << inputs, pc, path, parsed, flags >>

EndOfFile ==
  /\ pc = "file" /\ next > Len(Lines(path))
  /\ pc' = "options" /\ next' = 1
  /\ UNCHANGED << inputs, path, parsed, settings, filter, flags >>

-----------------------------------------------------------------------------
(* The loop of getopt_long.                                                 *)

SettingOption ==
  /\ pc = "options" /\ next <= Len(args) /\ args[next] \in Line
  /\ Assign(args[next])
  /\ next' = next + 1
  /\ UNCHANGED << inputs, pc, path, parsed, flags >>

ConfigOption ==
  /\ pc = "options" /\ next <= Len(args) /\ args[next] \in ConfigArg
  /\ path' = args[next].value
  /\ next' = next + 1
  /\ UNCHANGED << inputs, pc, parsed, settings, filter, flags >>

(* The options that print something and return at once; a wrong option too. *)
FlagOption ==
  /\ pc = "options" /\ next <= Len(args) /\ args[next] \in Flag
  /\ IF args[next].key = "help"
     THEN pc' = "exit" /\ UNCHANGED << next, flags >>
     ELSE next' = next + 1 /\ flags' = flags \cup {args[next].key} /\ UNCHANGED pc
  /\ UNCHANGED << inputs, path, parsed, settings, filter >>

EndOfOptions ==
  /\ pc = "options" /\ next > Len(args)
  /\ settings' = [settings EXCEPT !["threads"] = IF @ <= 0 THEN Cpus ELSE @]
  /\ pc' = "decide"
  /\ UNCHANGED << inputs, path, parsed, next, filter, flags >>

Decide ==
  /\ pc = "decide"
  /\ pc' = IF "validate" \in flags THEN "validate"
           ELSE IF "dry-run" \in flags THEN "list" ELSE "run"
  /\ UNCHANGED << inputs, path, parsed, next, settings, filter, flags >>

Parse == Search \/ Prescan \/ ParseLine \/ EndOfFile
Options == SettingOption \/ ConfigOption \/ FlagOption \/ EndOfOptions \/ Decide

Finished == pc \in {"run", "list", "validate", "exit"} /\ UNCHANGED vars

Next == Parse \/ Options \/ Finished

Spec == Init /\ [][Next]_vars

-----------------------------------------------------------------------------
(* Where a setting is named among the first of the lines or arguments, and  *)
(* what it is after them.                                                   *)
Named(s, m, k) == {j \in 1..m : s[j].key = k}

LastOf(s, m, k, d) == IF Named(s, m, k) = {} THEN d ELSE s[Max(Named(s, m, k))].value

Decided == pc \in {"run", "list", "validate"}

(* CLI arguments override config file settings (default.cfg:5), the file    *)
(* overrides the defaults, the last of several wins, and no value at all or *)
(* a value that is not positive means one instance per CPU.                 *)
Precedence ==
  Decided => \A k \in Keys :
    LET file == LastOf(Lines(parsed), Len(Lines(parsed)), k, Default[k])
        v    == LastOf(args, Len(args), k, file)
    IN  settings[k] = IF k = "threads" /\ v <= 0 THEN Cpus ELSE v

(* The filter is never longer than its array and holds the first names of   *)
(* the file and then of the arguments, whichever file they end up in.       *)
FilterInOrder ==
  Decided =>
    LET all   == Lines(parsed) \o args
        at(m) == Cardinality(Named(all, m, "benchmark"))
    IN  /\ Len(filter) = IF at(Len(all)) < MaxFilter THEN at(Len(all)) ELSE MaxFilter
        /\ \A m \in Named(all, Len(all), "benchmark") :
             at(m) <= MaxFilter => filter[at(m)] = all[m].value
=============================================================================
