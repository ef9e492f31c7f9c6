----------------------------- MODULE MCSessions -----------------------------
(* Small instances of Sessions for TLC.                                    *)
EXTENDS Sessions, TLC

CONSTANTS alice, bob, ghost, xdgA, xdgB, homeA, homeB, data, extra, disk

\* Each user has run-time and home directories of his own.
XdgPaths == [u \in Users |-> IF u = alice THEN xdgA ELSE xdgB]
HomePaths == [u \in Users |-> IF u = alice THEN homeA ELSE homeB]

HomeOnly == [home |-> disk, mounts |-> [d \in {} |-> disk]]
WithData == [home |-> disk, mounts |-> [d \in {data} |-> disk]]
WithTwo == [home |-> disk, mounts |-> [d \in {data, extra} |-> disk]]
\* A pre-mount on the home directory, which is mounted over once more.
WithStack == [home |-> disk, mounts |-> [d \in {data, homeA} |-> disk]]

\* Nothing is nested; or data is a directory in alice's home.
Apart == {}
InHome == {<<data, homeA>>}

ConfigData == {WithData}
ConfigHome == {HomeOnly}
ConfigTwo == {WithTwo}
ConfigBoth == {HomeOnly, WithStack}

Symmetry == Permutations(Clients) \cup Permutations(Tokens)
=============================================================================
