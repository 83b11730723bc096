------------------------------ MODULE Config ------------------------------
(***************************************************************************)
(* The node's configuration, src/util/config.cpp, as main.cpp builds it:   *)
(* Config::loadFromArgs over argv, then Config::load of the file in the    *)
(* data directory, both writing the one values_ map.                       *)
(*                                                                         *)
(* A key is a sequence of name tokens, "." among them, so that a section   *)
(* prefix and the "addnode" substring test are what the code makes of      *)
(* them.  A file line is what the loop tells apart once the comment is     *)
(* cut and the trailing blanks and \r trimmed:                             *)
(*   [kind |-> "skip"]                  nothing is left (line 18)          *)
(*   [kind |-> "header", name |-> k]    "[k]"                              *)
(*   [kind |-> "open"]                  "[" with no "]"                    *)
(*   [kind |-> "noeq"]                  no "="                             *)
(*   [kind |-> "pair", key |-> k, val |-> v]   "k = v", blanks trimmed     *)
(* An argv element is a record with its text, its kind (the branch of      *)
(* loadFromArgs it takes) and, for "--k[=v]", its key and value.           *)
(***************************************************************************)
EXTENDS Naturals, Sequences, SequencesExt

\* Config's state: values_, addNodes_ and testnet_.
EmptyConfig == [values |-> <<>>, addNodes |-> <<>>, testnet |-> FALSE]

\* values_[key] = val: the map extended or overwritten at one key.
Put(f, k, v) == [x \in DOMAIN f \cup {k} |-> IF x = k THEN v ELSE f[x]]

\* key.find("addnode") != npos.
ContainsAddnode(k) == \E i \in DOMAIN k : k[i] = "addnode"

\* key = section + "." + key when a section is open.
EffectiveKey(section, k) == IF section = <<>> THEN k ELSE section \o <<".">> \o k

-----------------------------------------------------------------------------
(* Config::load *)

\* A "[" line with no "]" leaves the section that was open.
LoadLineKeepSection(acc, l) ==
    IF l.kind = "open" THEN acc
    ELSE CASE l.kind = "header" -> [acc EXCEPT !.section = l.name]
           [] l.kind = "pair"   ->
                 LET k == EffectiveKey(acc.section, l.key) IN
                 [acc EXCEPT !.values   = Put(@, k, l.val),
                             !.addNodes = IF ContainsAddnode(k) THEN Append(@, l.val) ELSE @]
           [] OTHER             -> acc

\* One iteration of load's loop, on the config and the open section.
LoadLine(acc, l) ==
    CASE l.kind = "header" -> [acc EXCEPT !.section = l.name]
      [] l.kind = "open"   -> [acc EXCEPT !.section = <<>>]
      [] l.kind = "pair"   ->
            LET k == EffectiveKey(acc.section, l.key) IN
            [acc EXCEPT !.values   = Put(@, k, l.val),
                        !.addNodes = IF ContainsAddnode(k) THEN Append(@, l.val) ELSE @]
      [] OTHER             -> acc

\* load: the section starts empty, every line is folded in order, and the
\* section is forgotten at the end.
Load(cfg, lines) ==
    LET r == FoldLeft(LoadLine, [values |-> cfg.values, addNodes |-> cfg.addNodes,
                                 section |-> <<>>], lines)
    IN  [cfg EXCEPT !.values = r.values, !.addNodes = r.addNodes]

-----------------------------------------------------------------------------
(* Config::loadFromArgs *)

\* The loop from argv[i] on; "--datadir" with a successor takes it as its
\* value and skips it, "--k=v" and "--k" (value "") write values_[k].
RECURSIVE ArgsFrom(_, _, _)
ArgsFrom(cfg, argv, i) ==
    IF i > Len(argv) THEN cfg
    ELSE LET a == argv[i] IN
         CASE a.kind = "testnet" -> ArgsFrom([cfg EXCEPT !.testnet = TRUE], argv, i + 1)
           [] a.kind = "mine" ->
                ArgsFrom([cfg EXCEPT !.values = Put(@, <<"mine">>, "1")], argv, i + 1)
           [] a.kind = "datadir" /\ i < Len(argv) ->
                ArgsFrom([cfg EXCEPT !.values = Put(@, <<"datadir">>, argv[i + 1].text)],
                         argv, i + 2)
           [] a.kind \in {"datadir", "opt"} ->
                ArgsFrom([cfg EXCEPT !.values = Put(@, a.key, a.val)], argv, i + 1)
           [] OTHER -> ArgsFrom(cfg, argv, i + 1)

LoadFromArgs(cfg, argv) == ArgsFrom(cfg, argv, 1)

\* getDataDir: the datadir value unless it is empty, else $HOME/.shawncoin
\* (HOME is taken to be set).
HomeDataDir == "~/.shawncoin"

GetDataDir(cfg) ==
    IF <<"datadir">> \in DOMAIN cfg.values /\ cfg.values[<<"datadir">>] # ""
    THEN cfg.values[<<"datadir">>] ELSE HomeDataDir

\* main: the arguments first, then shawncoin.conf of the data directory they
\* name, files[dir] being the lines of dir/shawncoin.conf (<<>> when there is
\* none: load returns false and main goes on).
Startup(argv, files) ==
    LET cfg == LoadFromArgs(EmptyConfig, argv) IN Load(cfg, files[GetDataDir(cfg)])

====
