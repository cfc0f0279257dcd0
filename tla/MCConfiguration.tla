--------------------------- MODULE MCConfiguration ---------------------------
(* One number, a few match texts and the lists of four plugins.             *)
EXTENDS Configuration

Plain1(sign, not, word) == Term(sign, not, word, <<>>)
Grouped(sign, not, group) == Term(sign, not, "", group)
Simple == {<<Plain1("|", n, "title")>> : n \in BOOLEAN}
Pairs == {<<Plain1("|", m, "title"), Plain1(s, n, "role")>> : m, n \in BOOLEAN, s \in {"&", "|"}}
Triples == {<<Plain1("|", m, "title"), Plain1(s, n, "role"), Plain1(t, FALSE, "class")>> :
              m, n \in BOOLEAN, s, t \in {"&", "|"}}
Nested == {<<Plain1("|", m, "class"), Grouped(s, n, p)>> : m, n \in BOOLEAN, s \in {"&", "|"}, p \in Pairs}
             \cup {<<Grouped("|", n, p), Plain1(s, FALSE, "class")>> : n \in BOOLEAN, s \in {"&", "|"}, p \in Pairs}
MCTexts == Simple \cup Pairs \cup Triples \cup Nested

MCNumbers == {-1, 1, 3, 7}
MCRange == 0 .. 6
MCSample == {<<Plain1("|", FALSE, "title"), Plain1("&", TRUE, "role")>>,
            <<Grouped("|", TRUE, <<Plain1("|", FALSE, "title"), Plain1("|", FALSE, "class")>>)>>}
MCLists == {<<"ini", "inotify", "ext">>, <<"dbus", "inotify", "ini", "ext">>,
            <<"ini", "ext", "bad", "dbus">>, <<"regex", "ext", "inotify">>, <<"regex">>}

MCScenes ==
    {[initial |-> <<>>, active |-> <<"ini", "inotify", "ext">>, who |-> {"editor", "plugin"}],
     [initial |-> <<"ini", "inotify">>, active |-> <<"dbus", "ext">>, who |-> {"editor", "bus"}],
     [initial |-> <<"dbus">>, active |-> <<"ext", "ini">>, who |-> {"bus", "plugin"}],
     [initial |-> <<>>, active |-> <<"ext", "regex">>, who |-> {"client", "plugin"}]}
=============================================================================
