----------------------------- MODULE MCChannelLoad -----------------------------
(***************************************************************************)
(* Two channels: "X" with a platform subdir and noarch, "Y" with noarch.   *)
(* The requested package r depends on a, a on b, b on c; the servers put   *)
(* each name into one subdir, in every way, and c may need r again.  A     *)
(* bound on failures lets each download or parse of a command fail once.   *)
(***************************************************************************)
EXTENDS ChannelLoad

MCChannel == <<"X", "X", "Y">>
MCChannels == {"X", "Y"}
MCNoarch == {2, 3}
MCRoots == {"r"}
Dependency == [r |-> {"a"}, a |-> {"b"}, b |-> {"c"}, c |-> {"r"}]

Placed(place, sharded) ==
    [index |-> [i \in Subdirs |-> {p \in Packages : place[p] = i}],
     deps |-> [n \in Nodes |-> IF n[1] = place[n[2]] THEN Dependency[n[2]] ELSE {}],
     sharded |-> sharded]
Places == {place \in [Packages -> Subdirs] : place["r"] # 2}
MCServers ==
    {Placed(place, sharded) : place \in Places, sharded \in SUBSET Subdirs}

(* Offline, a command needs some cache.                                    *)
MCStarts ==
    {s \in [offline : BOOLEAN, valid : {{}, Subdirs}, cachedIndex : {{}, Subdirs}] :
        s.offline => s.valid # {} \/ s.cachedIndex # {}}
=============================================================================
