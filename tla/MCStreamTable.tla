---------------------------- MODULE MCStreamTable ----------------------------
EXTENDS StreamTable, TLC

CONSTANTS p1, p2, i1, i2, i3, i4, k1, k2

\* Two versions of the application: p1 compresses, p2 drops old events instead.
MCProcess == {p1, p2}
MCInstance == {i1, i2, i3, i4}

\* i1 and i2 carry the same key, i3 another one, i4 none.
MCPkOf == (i1 :> k1) @@ (i2 :> k1) @@ (i3 :> k2) @@ (i4 :> NoPk)

\* Nothing to insert.
MCNoPkOf == i4 :> NoPk

\* The table is empty, or has been in use before.
MCStartRows == {{}, {k1}}
MCEmpty == {{}}

\* Bound: both processes and the migration over the row of one instance, or p2 alone over
\* the rows of all.
OneRowOrOneProcess ==
  \/ rows \subseteq {k1} /\ saved \subseteq {i1}
  \/ pc[p1] = "off" /\ migration = "off"
=============================================================================
