-------------------------- MODULE MCVkexGenerator --------------------------
(* Structs with a count n and two arrays that may be counted by it, in all *)
(* the ways the registry describes lengths, in one of two features.        *)
EXTENDS VkexGenerator

Member(n) == [name |-> n, deprecated |-> FALSE, altlen |-> FALSE, fixed |-> FALSE, len |-> Absent,
              noautovalidity |-> FALSE, const |-> FALSE, pointer |-> FALSE]
Counts == {Member("n"), [Member("n") EXCEPT !.deprecated = TRUE]}
Array(a) == [Member(a) EXCEPT !.len = "n", !.const = TRUE, !.pointer = TRUE]
Arrays(a) == {Array(a), [Array(a) EXCEPT !.const = FALSE], [Array(a) EXCEPT !.noautovalidity = TRUE],
              [Array(a) EXCEPT !.altlen = TRUE], [Array(a) EXCEPT !.pointer = FALSE],
              [Array(a) EXCEPT !.fixed = TRUE], [Array(a) EXCEPT !.len = "null-terminated"],
              [Array(a) EXCEPT !.len = "n / 32"], [Array(a) EXCEPT !.len = "a"], Member(a)}
AllLists == {<<Member("sType"), Member("pNext"), n, a, b>> : n \in Counts, a \in Arrays("a"), b \in Arrays("b")}
          \cup {<<a, n, b>> : n \in Counts, a \in Arrays("a"), b \in Arrays("b")}
          \cup {<<>>}

\* A count is an integer member, never an array itself.
Sensible(ms) == \A i, j \in DOMAIN ms : ms[i].name = ms[j].len => ms[i].len = Absent
MemberLists == {ms \in AllLists : Sensible(ms)}

Struct(n, ms) == [name |-> n, cat |-> "struct", alias |-> Absent, members |-> ms]

\* The structs that are listed as broken: an array that is not const is first
\* of several of the same length.
IsBroken(n, ms) == /\ Scan(Struct(n, ms)).kind = "straightforward"
                   /\ ~Compiles(Scan(Struct(n, ms)))
Structs1 == {Struct(n, ms) : n \in {"S", "Auto"}, ms \in MemberLists}
Named == {IF IsBroken(s.name, s.members) THEN [s EXCEPT !.name = "Broken"] ELSE s : s \in Structs1}

Plain == Struct("P", <<Member("n"), Array("a")>>)
MCInterfaces == {<<[name |-> "V1", emit |-> e, types |-> <<[Plain EXCEPT !.alias = "Q"], s>>],
                   [name |-> "V2", emit |-> TRUE, types |-> <<[Plain EXCEPT !.cat = "handle"]>>],
                   [name |-> "X1", emit |-> TRUE, types |-> <<Plain, [s EXCEPT !.cat = "union"]>>]>>
                 : s \in Named, e \in BOOLEAN}
=============================================================================
