------------------------- MODULE MCUploadController -------------------------
(***************************************************************************)
(* Small instances of UploadController for TLC.                            *)
(***************************************************************************)
EXTENDS UploadController, TLC

CONSTANTS a, nul, slash, quote, badByte

MCOrdinary == {a, nul}
MCSeparators == {slash}
MCDropped == {quote}
MCNotUtf8 == {badByte}
MCDevices == {<<nul>>}

Literal(n) == [i \in DOMAIN n |-> [char |-> n[i], escaped |-> FALSE]]
Escaped(n) == [i \in DOMAIN n |-> [char |-> n[i], escaped |-> TRUE]]

\* "a", "a (1)" and "a.a", the first one's next candidate among them.
MCExisting == {<<a>>, <<a, 1>>, <<a, Dot, a>>}

\* Names that race for one file, and names that lead out of the folder or to a device,
\* vanish, or are none.
MCRawNames ==
    {Literal(n) : n \in {<<a>>, <<a, 1>>, <<a, Dot, a>>, <<Plus, a, Dot>>, <<quote, Dot, Dot>>,
                           <<nul, Dot, a>>, <<>>}}
    \cup {Escaped(n) : n \in {<<slash, a>>, <<Dot, Dot>>, <<Plus, a>>, <<a, badByte>>}}
=============================================================================
