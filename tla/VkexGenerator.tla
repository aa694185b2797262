--------------------------- MODULE VkexGenerator ---------------------------
(***************************************************************************)
(* tools/vkex/vkexgenerator.py and the file handling of generator.py: the  *)
(* header vkex.hpp.  The registry calls beginFile, then for every feature  *)
(* beginFeature, genType for its types and endFeature, then endFile.  For  *)
(* a struct with counted arrays genStruct writes a C++ struct that has the *)
(* arrays only, and a function map() that fills in the counts.             *)
(*                                                                         *)
(* Text is not modelled: a body is what genStruct found out about members, *)
(* which determines the declarations and the statements of map().          *)
(***************************************************************************)
EXTENDS Naturals, Sequences, SequencesExt, FiniteSets

CONSTANTS Interfaces,               \* the features the registry may go through
          AutoGenerateableStructs,  \* the two lists of names in genStruct
          BrokenStructs,
          Absent

ASSUME VkexAssumption ==
    \A x \in Interfaces :
        /\ x \in Seq(ToSet(x))
        /\ \A f \in ToSet(x) : f.emit \in BOOLEAN /\ f.types \in Seq(ToSet(f.types))

VARIABLES
    interface,    \* features: [name, emit, types]
    phase,
    pos,          \* the feature, and the number of its types that are done
    done,
    featureName,
    sections,     \* the 'struct' section of the feature
    outFile,      \* what is in the temporary file
    tempExists,
    target        \* vkex.hpp: [state \in {"old", "part", "new"}, text]

headerVars == <<interface, phase, pos, done, featureName, sections, outFile, tempExists, target>>

(***************************************************************************)
(* genStruct: a pass over the members.  len is Absent, "null-terminated", or *)
(* the name of a member or of nothing; a length "n,null-terminated" is n.  *)
(***************************************************************************)

NoMembers == [kind |-> "trivial", names |-> <<>>, lengthOf |-> <<>>, arrays |-> {}, const |-> {}]

Worse(kind) == IF kind = "trivial" THEN "straightforward" ELSE kind

\* The length is that of a member that came before.
CountedBy(acc, m) == [acc EXCEPT !.kind = Worse(@), !.lengthOf[m.len] = Append(@, m.name),
                                 !.arrays = @ \cup {m.name},
                                 !.const = IF m.const THEN @ \cup {m.name} ELSE @]

\* A member that was read has no arrays yet.
Known(s, acc, m) ==
    [acc EXCEPT !.names = Append(@, m.name),
                !.lengthOf = [n \in DOMAIN acc.lengthOf \cup {m.name} |->
                                IF n = m.name THEN <<>> ELSE acc.lengthOf[n]],
                !.kind = IF m.altlen \/ m.fixed \/ (m.len # Absent /\ m.noautovalidity
                                                    /\ s.name \notin AutoGenerateableStructs)
                         THEN "complex" ELSE @]

ScanMember(s, acc, m) ==
    LET known == Known(s, acc, m)
    IN  IF m.deprecated \/ m.name \in {"sType", "pNext"} THEN acc
        ELSE IF m.fixed \/ m.len = Absent THEN known
        ELSE IF m.len \in ToSet(known.names) THEN CountedBy(known, m)
        ELSE IF m.len # "null-terminated" THEN [known EXCEPT !.kind = "complex"] ELSE known

\* What is known after each number of members
Scanned(s) ==
    LET acc[k \in 0 .. Len(s.members)] ==
            IF k = 0 THEN NoMembers ELSE ScanMember(s, acc[k - 1], s.members[k])
    IN  acc

Scan(s) == Scanned(s)[Len(s.members)]

\* elementStr, removePointer: the declaration of an array needs a pointer.
Raises(s) == \E m \in ToSet(s.members) : m.name \in Scan(s).arrays /\ ~m.pointer
                                         /\ Scan(s).lengthOf[m.name] = <<>>

\* Mutant: the list of structs that are known not to work is not consulted.
SkipsAliasesOnly(s) == s.cat \notin {"struct", "union"} \/ s.alias # Absent

\* genType and genStruct return early
Skips(s) == s.cat \notin {"struct", "union"} \/ s.alias # Absent \/ s.name \in BrokenStructs

\* A trivial struct is not emitted, a complex one is in a comment.
Body(s) == [name |-> s.name, live |-> Scan(s).kind = "straightforward", scan |-> Scan(s)]
Appended(s) == IF Skips(s) \/ Scan(s).kind = "trivial" THEN <<>> ELSE <<Body(s)>>

(***************************************************************************)
(* The statements of map(), for arrays of the given sizes.  A const array  *)
(* is an Array, any other an Array*, which may be null (size Absent).  For a *)
(* count the arrays after the first are compared with the first.           *)
(***************************************************************************)

Firsts(scan) == {Head(scan.lengthOf[n]) : n \in {n \in ToSet(scan.names) : scan.lengthOf[n] # <<>>}}
FirstOf(scan, a) == CHOOSE f \in Firsts(scan) : \E n \in ToSet(scan.names) :
                        /\ scan.lengthOf[n] # <<>> /\ Head(scan.lengthOf[n]) = f
                        /\ a \in ToSet(scan.lengthOf[n])
Others(scan) == scan.arrays \ Firsts(scan)

\* "{lengthMember}.size()" is an expression if the first array is no pointer.
Compiles(scan) == \A a \in Others(scan) : FirstOf(scan, a) \in scan.const

\* The members of a struct have names of their own, and the structs for which
\* map() would not be well-formed are in the list.
ASSUME StructsAssumption ==
    \A x \in Interfaces : \A f \in ToSet(x) : \A s \in ToSet(f.types) :
        /\ s.members \in Seq(ToSet(s.members))
        /\ \A i, j \in DOMAIN s.members : s.members[i].name = s.members[j].name => i = j
        /\ Scan(s).kind = "straightforward" /\ ~Compiles(Scan(s)) => s.name \in BrokenStructs

AssertsHold(scan, size) == \A a \in Others(scan) \cap scan.const : size[a] = size[FirstOf(scan, a)]

\* Arrays that are not const get the size of the first one.
SizesAfter(scan, size) ==
    [a \in scan.arrays |-> IF a \in Others(scan) \ scan.const /\ size[a] # Absent
                           THEN size[FirstOf(scan, a)] ELSE size[a]]

MappedCount(scan, size, n) == LET first == Head(scan.lengthOf[n])
                              IN  IF size[first] = Absent THEN 0 ELSE size[first]

(***************************************************************************)
(* Actions                                                                 *)
(***************************************************************************)

HeaderInit ==
    /\ interface \in Interfaces
    /\ phase = "start" /\ pos = 1 /\ done = 0 /\ featureName = Absent
    /\ sections = <<>> /\ outFile = <<>> /\ tempExists = FALSE
    /\ target = [state |-> "old", text |-> <<>>]

BeginFile ==
    /\ phase = "start"
    /\ phase' = "file" /\ tempExists' = TRUE /\ outFile' = <<"begin">>
    /\ UNCHANGED <<interface, pos, done, featureName, sections, target>>

\* Mutant: the sections of the feature before are still there.
BeginFeatureKeeping ==
    /\ phase = "file" /\ pos <= Len(interface)
    /\ phase' = "feature" /\ done' = 0
    /\ featureName' = interface[pos].name
    /\ UNCHANGED <<interface, pos, sections, outFile, tempExists, target>>

BeginFeature ==
    /\ phase = "file" /\ pos <= Len(interface)
    /\ phase' = "feature" /\ done' = 0
    /\ featureName' = interface[pos].name
    /\ sections' = <<>>
    /\ UNCHANGED <<interface, pos, outFile, tempExists, target>>

\* The registry calls genType only while a feature is emitted.
GenType ==
    LET f == interface[pos]
        s == f.types[done + 1]
    IN  /\ phase = "feature" /\ f.emit /\ done < Len(f.types)
        /\ done' = done + 1
        /\ sections' = IF ~Skips(s) /\ Raises(s) THEN sections ELSE sections \o Appended(s)
        /\ phase' = IF ~Skips(s) /\ Raises(s) THEN "failed" ELSE phase
        /\ UNCHANGED <<interface, pos, featureName, outFile, tempExists, target>>

EndFeature ==
    LET f == interface[pos]
    IN  /\ phase = "feature" /\ (f.emit => done = Len(f.types))
        /\ outFile' = IF f.emit /\ sections # <<>>
                      THEN Append(outFile, <<featureName, sections>>) ELSE outFile
        /\ featureName' = Absent
        /\ phase' = "file" /\ pos' = pos + 1
        /\ UNCHANGED <<interface, done, sections, tempExists, target>>

\* endFile closes the temporary file, copies it over the target and deletes it.
EndFile ==
    /\ phase = "file" /\ pos > Len(interface)
    /\ phase' = "copy" /\ outFile' = Append(outFile, "end")
    /\ target' = [state |-> "part", text |-> <<>>]
    /\ UNCHANGED <<interface, pos, done, featureName, sections, tempExists>>

Copied ==
    /\ phase = "copy"
    /\ phase' = "done" /\ tempExists' = FALSE
    /\ target' = [state |-> "new", text |-> outFile]
    /\ UNCHANGED <<interface, pos, done, featureName, sections, outFile>>

\* The program is interrupted: the temporary file stays where it is.
InterruptGenerator ==
    /\ phase \notin {"done", "failed", "killed", "start"}
    /\ phase' = "killed"
    /\ UNCHANGED <<interface, pos, done, featureName, sections, outFile, tempExists, target>>

HeaderNext == \/ BeginFile \/ BeginFeature \/ GenType \/ EndFeature
        \/ EndFile \/ Copied \/ InterruptGenerator

HeaderSpec == HeaderInit /\ [][HeaderNext]_headerVars

(***************************************************************************)
(* Properties                                                              *)
(***************************************************************************)

Sizes == {Absent, 0, 1, 2}     \* of arrays: enough to have two that differ

\* genStruct: the map() of every struct that is emitted and not in a comment is
\* well-formed, whatever combination of lengths its members have, and when its
\* assertions hold it returns a struct in which the arrays that are there have
\* exactly as many elements as their count says.
MappedCountsAreTrue ==
    \A i \in DOMAIN sections : sections[i].live =>
        LET scan == sections[i].scan
        IN  /\ Compiles(scan)
            /\ \A size \in [scan.arrays -> Sizes] :
                 (/\ \A a \in scan.const : size[a] # Absent
                  /\ AssertsHold(scan, size)) =>
                 \A n \in ToSet(scan.names) : \A a \in ToSet(scan.lengthOf[n]) :
                    SizesAfter(scan, size)[a] \in {Absent, MappedCount(scan, size, n)}

\* The positions ks go through the set S in order.
Enumerates(ks, S) == ToSet(ks) = S /\ \A i, j \in DOMAIN ks : i < j => ks[i] < ks[j]

IsEmitted(s) == Appended(s) # <<>>

\* The bodies are those of the first n types of feature f, in order.
AreStructsOf(bodies, f, n) ==
    \E ks \in [DOMAIN bodies -> 1 .. n] :
        /\ Enumerates(ks, {j \in 1 .. n : IsEmitted(f.types[j])})
        /\ \A i \in DOMAIN bodies : bodies[i] = Body(f.types[ks[i]])

\* The text has the first n of the features fs in order, each with its own
\* structs, but not those that are not emitted or have no struct.
HasFeatures(text, fs, n) ==
    /\ text # <<>> /\ text[1] = "begin"
    /\ \E ks \in [1 .. Len(text) - 1 -> 1 .. n] :
          /\ Enumerates(ks, {k \in 1 .. n : fs[k].emit /\ \E s \in ToSet(fs[k].types) : IsEmitted(s)})
          /\ \A i \in DOMAIN ks : LET f == fs[ks[i]]
                                 IN  /\ text[i + 1][1] = f.name
                                     /\ AreStructsOf(text[i + 1][2], f, Len(f.types))

IsWholeHeader(text) == Last(text) = "end" /\ HasFeatures(Front(text), interface, Len(interface))

\* endFile, "on successfully generating output": a generation that raises an
\* error or is interrupted before the copy leaves the header as it was; one that
\* ends has written every emitted feature once, under its own #ifdef and with no
\* struct of another feature, and has left no temporary file.
HeaderIsOldOrWhole ==
    /\ phase \in {"start", "file", "feature", "failed"} => target.state = "old"
    /\ target.state = "part" => IsWholeHeader(outFile) /\ tempExists
    /\ target.state = "new" => IsWholeHeader(target.text) /\ ~tempExists
=============================================================================
