----------------------------- MODULE MCSessions -----------------------------
(* Two identities, a browser and two shells. *)
EXTENDS Sessions, TLC

CONSTANTS i1, i2, t1, t2, o1, o2, p1, start, stop

Do(verb, arg) == [verb |-> verb, arg |-> arg]
MCCommands == {Do("enable", p1), Do("disable", p1), Do("demote", p1),
               Do("grant", start), Do("revoke", stop)}
MCSymmetry == Permutations(Ids) \cup Permutations(Operators)
=============================================================================
