-------------------------- MODULE MCDiskDiscovery --------------------------
EXTENDS DiskDiscovery, TLC

(* Seven candidates at four offsets, so that two share one.                *)
Cand(v) == [off |-> (v + 1) \div 2, id |-> v]
Twin(v, id) == [off |-> (v + 1) \div 2, id |-> id]

File(emits) == [generated |-> FALSE, emits |-> emits]
Generated == [generated |-> TRUE, emits |-> <<Cand(1)>>]

Rotated(k) == [i \in 1..7 |-> Cand(((i + k) % 7) + 1)]
Reversed(s) == [i \in DOMAIN s |-> s[Len(s) + 1 - i]]
Orders == {Rotated(k) : k \in 0..6} \cup {Reversed(Rotated(k)) : k \in 0..6}

Shuffles == {[i \in 1..4 |-> Cand(p[i])] : p \in Permutations(1..4)}

(* No file; or one large file, alone, after a generated one, or before a   *)
(* second one with new identities, a repeated one, or none.                *)
MCInputs ==
    {<<>>} \cup {<<File(o)>> : o \in Orders} \cup {<<Generated, File(s)>> : s \in Shuffles}
    \cup {<<File(o), File(<<Twin(3, 9), Twin(1, 8)>>)>> : o \in Orders}
    \cup {<<File(o), File(<<Twin(1, 5)>>)>> : o \in Orders}
    \cup {<<File(<<>>), File([o EXCEPT ![4] = Twin(7, o[3].id)])>> : o \in Orders}
    \cup {<<File(<<Cand(1), Twin(4, 1), Cand(2)>>)>>}
=============================================================================
