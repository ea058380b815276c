---------------------------- MODULE MCRuleEngine ----------------------------
(* Model-checking instance of RuleEngine: conditions of up to three         *)
(* comparisons in every arrangement of the connectives, alone, and pairs of *)
(* rules; two file events and an exec.                                      *)
EXTENDS RuleEngine

Anc == "process.ancestors[].comm"
MCFields == {"event_type", "file.path", "file.new_uid", "process.comm", Anc}
MCCategoryOf ==
  [w \in {"file.read", "file.write", "file.gone", "process.exec", "network.dns"} |->
     CASE w = "process.exec" -> "process" [] w = "network.dns" -> "dns" [] OTHER -> "file"]
(* Every word starts with, and contains, itself and the empty word.         *)
Words == {"/etc/passwd", "/etc", "passwd", "/tmp/x", "x", "sh", "sshd", "init", ""}
Self == {<<w, w>> : w \in Words} \cup {<<w, "">> : w \in Words}
MCStartPairs == Self \cup {<<"/etc/passwd", "/etc">>}
MCPartPairs == Self \cup {<<"/etc/passwd", "/etc">>, <<"/etc/passwd", "passwd">>,
                          <<"/tmp/x", "x">>, <<"sshd", "sh">>}

Event(type, path, uid, comm, anc) ==
  [type |-> type,
   has |-> [f \in MCFields |->
              CASE f = "event_type" -> {type} [] f = "file.path" -> {path}
                [] f = "file.new_uid" -> uid [] f = "process.comm" -> {comm}
                [] OTHER -> anc]]
MCEvents == {Event("file.read", "/etc/passwd", {"0"}, "sshd", {"init", "sshd"}),
             Event("file.write", "/tmp/x", {"7"}, "x", {"init"}),
             Event("process.exec", "", {}, "sh", {})}

Core == {<<"event_type", "=", "file.read">>,
         <<"event_type", "in", "(", "file.write", ",", "process.exec", ")">>,
         <<"file.new_uid", "!=", "7">>,
         <<Anc, "=", "sshd">>}
More == {<<"event_type", "!=", "file.read">>,
         <<"event_type", "in", "(", "file.read", ",", "file.gone", ")">>,
         <<"event_type", "=", "network.dns">>,
         <<"event_type", "=", "7">>,
         <<"file.path", "startswith", "/etc">>,
         <<"file.path", "contains", "passwd">>,
         <<"file.path", "in", "(", "/tmp/x", ",", "", ")">>,
         <<"process.comm", "=", "file.path">>,
         <<Anc, "!=", "init">>,
         <<"0", "=", "file.new_uid">>,
         <<"file.path", "contains", "process.comm">>,
         <<"/etc/passwd", "startswith", "file.path">>,
         <<"passwd", "contains", "passwd">>,
         <<"sh", "in", "(", "sh", ")">>,
         <<"process.comm", "!=", Anc>>,
         <<"7", "!=", "process.comm">>,
         <<"0", "!=", "7">>}
Bad == {<<>>, <<"not">>, <<"file.new_uid", "contains", "7">>, <<"event_type", "=">>,
        <<"file.path", "in", "(", ")">>, <<"file.path", "in", "(", "sh", ",", ")">>,
        <<"file.path", "in", "sh">>, <<"file.path", "=", "(", "sh", ")">>,
        <<"file.path", "in", "(", "process.comm", ")">>,
        <<"process.typo", "=", "0">>, <<"file.path", "=", "and">>}
Unbalanced(a, b) == {<<"(">> \o a, a \o <<")">>, a \o b, a \o <<"and">>,
                     a \o <<"or">> \o <<"and">> \o b, <<"(">> \o a \o <<")", "(">> \o b \o <<")">>}

Two(a, b) == {a \o <<c>> \o b : c \in {"and", "or"}}
             \cup {<<"not">> \o a \o <<c>> \o b : c \in {"and", "or"}}
             \cup {a \o <<c, "not">> \o b : c \in {"and", "or"}}
             \cup {<<"not", "(">> \o a \o <<c>> \o b \o <<")">> : c \in {"and", "or"}}
Three(a, b, c) ==
  UNION {{a \o <<x>> \o b \o <<y>> \o c,
          <<"(">> \o a \o <<x>> \o b \o <<")", y>> \o c,
          a \o <<x, "(">> \o b \o <<y>> \o c \o <<")">>} : x, y \in {"and", "or"}}

Atoms == Core \cup More
Texts == Atoms \cup Bad \cup {<<"not">> \o a : a \in Atoms}
         \cup {<<"event_type", "=", "file.read", "and", "event_type", "=", "process.exec">>}
         \cup (UNION {Two(a, b) : a \in Core, b \in Atoms})
         \cup (UNION {Three(a, b, c) : a, b, c \in Core})
         \cup (UNION {Unbalanced(a, b) : a, b \in Core})

Rule(name, words) == [name |-> name, words |-> words]
PairTexts == Core \cup {<<"file.path", "=">>, <<Anc, "!=", "init">>,
                        <<"event_type", "=", "file.read", "and", "file.new_uid", "!=", "7">>}
Pairs == {<<Rule("r1", a), Rule(n, b)>> : a, b \in PairTexts, n \in {"r1", "r2"}}
MCDirs == {<<Rule("r1", t)>> : t \in Texts} \cup Pairs
MCEditedDirs == {<<Rule("r1", <<"file.path">>)>>,
                 <<Rule("r1", <<Anc, "=", "init">>),
                   Rule("r2", <<"event_type", "=", "file.read">>)>>}
=============================================================================
