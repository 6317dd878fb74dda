--------------------------- MODULE MCUpdateScript ---------------------------
(***************************************************************************)
(* Files for UpdateScript.  Scripts of every kind, put together from       *)
(* sections (a keyword, with or without a comment around it, and its       *)
(* blocks), behind one header; and headers and documentation of every kind *)
(* for one script.                                                         *)
(***************************************************************************)
EXTENDS UpdateScript

Plainly(kinds) == [i \in DOMAIN kinds |-> [kind |-> kinds[i], indented |-> FALSE]]
Indented(kind) == [kind |-> kind, indented |-> TRUE]

TextLines(n) == [i \in 1..n |-> "text"]

\* A keyword with two blocks, and with one and blank and comment lines where the
\* format allows them.
Sections(m) ==
    LET n == DocumentedLines(m)
    IN  {<<m>> \o TextLines(2 * n),
         <<"comment", m, "blank", "comment">> \o <<"text", "blank">> \o TextLines(n - 1)}

AllModes == Mode \ UnusedMode
MainModes == {"CREDITS", "FLAGS", "FIXLOAD", "TITLE", "MOVE", "DELETE"}
SectionsOf(modes) == UNION {Sections(m) : m \in modes}

Whole ==
    {a \o b : a \in SectionsOf(AllModes), b \in SectionsOf(MainModes)}
      \cup {a \o b \o c : a, b, c \in {<<m>> \o TextLines(DocumentedLines(m)) : m \in MainModes}}

\* Scripts that end early, without a keyword, or with a keyword as a credit.
Broken ==
    {SubSeq(s, 1, n) : s \in {<<m>> \o TextLines(5) : m \in MainModes}, n \in 2..6}
      \cup {<<"text", "DELETE", "text">>, <<"CREDITS", "text", "text", "MOVE", "text", "text">>}

\* Scripts that the loop and the format read differently.
Irregular ==
    {<<m, "text", "comment">> \o TextLines(5) : m \in {"CREDITS", "FLAGS", "MOVE"}}
      \cup {<<"COPYRIGHT", "text", "text", "DELETE", "text">>,
            <<"DELETE", "text", "NO_MODE", "text">>}

\* Two blocks of a keyword and a third command, with a line that is indented
\* in place of the i-th or in front of it: a parameter, which is nothing special,
\* or a comment or keyword where one can be, which the loop does not know.
TwoBlocks(m) == Plainly(<<m>> \o TextLines(2 * DocumentedLines(m)) \o <<"DELETE", "text">>)
AnyIndented ==
    LET indented == {Indented(k) : k \in {"comment", "blank", "MOVE"}}
        at(s, l) == {[s EXCEPT ![i] = l] : i \in 1..Len(s)}
                      \cup {InsertAt(s, i, l) : i \in 1..Len(s)}
    IN  UNION {at(TwoBlocks(m), l) : m \in {"CREDITS", "MOVE", "MKDIR"}, l \in indented}

MCScript == {Plainly(s) : s \in Whole \cup Broken \cup Irregular} \cup AnyIndented

Other == [key |-> "none", text |-> [major |-> 0, minor |-> 0]]
Tells(key, major, minor) == [key |-> key, text |-> [major |-> major, minor |-> minor]]
Release(major, minor) == Tells("release", major, minor)
Previous(major, minor) == Tells("#PreviousVersion:", major, minor)
Resulting(major, minor) == Tells("#ResultingVersion:", major, minor)

\* Behind n other lines.
After(n, lines) == [i \in 1..n |-> Other] \o lines

\* A release line at the limit and below it, without a number, with one of more
\* digits than fit, and twice.
MCDoc ==
    {<<>>} \cup {After(n, <<r>>) : n \in {0, 9, 10}, r \in {Release(4, 5), Release(4, 6)}}
      \cup {<<Release(0, 0), Release(4, 5)>>, <<Release(4, 5), Release(4, 6)>>,
            <<Release(45, 0)>>, <<Release(3, 9)>>, <<Release(3, 10)>>, <<Release(3, 0)>>,
            <<Release(70000, 1)>>, <<Release(6599, 1)>>}

MCHeader ==
    {After(n, <<Resulting(4, 6), Previous(4, 5)>>) : n \in {0, 8, 9, 10}}
      \cup {After(n, <<Previous(4, 5), Resulting(4, 6)>>) : n \in {0, 8, 9, 10}}
      \cup {<<Previous(4, 5)>>, <<Resulting(4, 6)>>, <<>>,
            <<Previous(4, 5), Previous(0, 0), Resulting(4, 6)>>,
            <<Previous(4, 6), Previous(4, 5), Resulting(4, 6)>>,
            <<Previous(4, 5), Resulting(4, 6), Previous(0, 0)>>,
            <<Previous(3, 9), Resulting(45, 0)>>, <<Previous(3, 0), Resulting(3, 1)>>,
            <<Previous(45, 0), Resulting(46, 0)>>, <<Previous(32768, 0), Resulting(4, 6)>>}

MCTexts == [docs : MCDoc \X MCDoc, script : MCHeader]

Plain ==
    [docs |-> <<<<Release(4, 5)>>, <<>>>>,
     script |-> <<Resulting(4, 6), Previous(4, 5)>>]

Short == Plainly([i \in 1..12 |-> "comment"] \o <<"DELETE", "text">>)

\* An indented header is one for header mode only.
Header == {Plainly(<<"comment", "comment">>), <<Indented("comment"), Indented("comment")>>}

MCScripts ==
    {Plainly(<<"comment", "comment">>) \o s : s \in MCScript}
      \cup {h \o Plainly(<<"MOVE", "text", "text">>) : h \in Header} \cup {Short}

MCFiles == ({Plain} \X (MCScripts \ {Short})) \cup (MCTexts \X {Short})
=============================================================================
