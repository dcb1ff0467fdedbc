-------------------------------- MODULE MCStartup --------------------------------
(***************************************************************************)
(* Startup for TLC: three files with lines that disagree and every list of  *)
(* at most two arguments out of twelve; machines of four CPUs with siblings *)
(* side by side, interleaved, none, and three on one core, with sibling     *)
(* lists that cannot be read and a node without CPUs; machines for the      *)
(* probe with sibling lists of every form, and two governors on two CPUs.   *)
(***************************************************************************)
EXTENDS Startup

Set(k, v) == [key |-> k, value |-> v]

MCValues == 0..2
MCNames == {"a", "b"}

MCPaths == {"xdgdir", "xdgfile", "homefile", "etc", "cwd", "other"}

MCContents ==
  [p \in MCPaths |->
     CASE p = "etc" -> << Set("tier", 2), Set("benchmark", "a"), Set("threads", 2) >>
       [] p = "cwd" -> << Set("benchmark", "b"), Set("tier", 2), Set("benchmark", "b"),
                          Set("tier", 1) >>
       [] p = "other" -> << Set("threads", 0), Set("benchmark", "a"),
                            Set("benchmark", "b"), Set("benchmark", "a") >>
       [] p = "xdgfile" -> << Set("threads", 1) >>
       [] OTHER -> << >>]

MCArgs ==
  {Set("tier", 1), Set("tier", 2), Set("threads", 0), Set("threads", 1),
   Set("benchmark", "a"), Set("benchmark", "b"),
   Set("config", "other"), Set("config", "etc"), Set("attached-config", "etc"),
   Set("dry-run", "none"), Set("validate", "none"), Set("help", "none")}

MCArgLists == UNION {[1..n -> MCArgs] : n \in 0..2}

-----------------------------------------------------------------------------
OnCores(s) == [c \in 0..3 |-> s[c + 1]]

MCMachines ==
  [core       : {OnCores(<< 0, 0, 1, 1 >>), OnCores(<< 0, 1, 0, 1 >>),
                 OnCores(<< 0, 1, 2, 3 >>), OnCores(<< 0, 0, 0, 1 >>)},
   unreadable : {{}, {0}, {2}},
   nodes      : {<< {0, 1, 2, 3} >>, << {0, 1}, {}, {2, 3} >>}]

MCPinSpecs ==
  {[mode |-> mode, parts |-> << >>] : mode \in {"auto", "auto-all", "auto-numa"}}
  \cup {[mode |-> "list", parts |-> p] :
          p \in {<< << 2 >>, << 0 >> >>, << << 9 >> >>, << << 3, 8 >>, << 1 >> >>,
                 << << 0, 3 >> >>}}

MCTopoSpecs ==
  {[mode |-> "none", n |-> 0, parts |-> << >>],
   [mode |-> "split", n |-> 2, parts |-> << >>],
   [mode |-> "list", n |-> 0,
    parts |-> << [cpus |-> << 0, 2 >>, node |-> 2], [cpus |-> << 1 >>, node |-> 0] >>]}

MCMembinds == {-1, -2, 1}

-----------------------------------------------------------------------------
(* Nodes without a gap, with one, without node 0, and more than are looked  *)
(* at; sibling lists of every form the kernel writes.                       *)
NodesOf(s) == [n \in s |-> n + 2]

MCBoxes ==
  [online     : {6},
   configured : {6, 8},
   siblings   : {<< << 0 >> >>, << << 0, 1 >> >>, << << 0 >>, << 2 >> >>,
                 << << 0, 1 >>, << 4, 5 >> >>, << << 0 >>, << 2, 3 >> >>},
   nodes      : {NodesOf(s) : s \in {{}, {0}, {0, 1, 2}, {0, 2}, {1}, {0, 1, 2, 3}}},
   levels     : {{}, {0, 1}, {1}}]

MCGovernors == {"performance", "powersave"}
=============================================================================
