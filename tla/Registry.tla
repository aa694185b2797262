------------------------------ MODULE Registry ------------------------------
(***************************************************************************)
(* tools/vkex/reg.py: the Registry of API types, enums, commands, features *)
(* and extensions, from parseTree to the calls of the output generator in  *)
(* apiGen.  The registry's XML is a value of xml: what elements name and   *)
(* refer to is kept, their text is not.  apiGen is a sequence of passes    *)
(* over the selected features: one action per feature and pass.            *)
(***************************************************************************)
EXTENDS Dependency, Integers

CONSTANTS Xmls,          \* the registries that may be loaded
          OptionSets,    \* the generator options that may be used
          None,
          MaxDepth,      \* bound: depth of calls at which Python gives up
          Overflow       \* a mark for a RecursionError

ASSUME RegistryAssumption == MaxDepth \in Nat /\ None # Overflow

VARIABLES
    xml,        \* the tree
    opts,       \* the generator options
    pc,         \* the pass apiGen is in
    pos,        \* the feature it is at, in orderedFeatures
    types,      \* typedict
    features,   \* apidict and extdict: [feature name -> element]
    members,    \* the <enum> elements of each group: pairs of an enum and the
                \* feature that added it, or None
    order,      \* orderedFeatures, the names of genFeatures
    removedExtensionNames,
    required,   \* names whose info is tagged as required
    superseded, \* supersededby of deprecated names
    declared,   \* names whose info is tagged as declared
    extends,    \* the structextends attribute of each type
    valid,      \* validextensionstructs
    out,        \* the calls of genType, genGroup, genEnum and genCmd
    hidden      \* history: names declared when nothing was emitted

vars == <<xml, opts, pc, pos, types, features, members, order, removedExtensionNames,
          required, superseded, declared, extends, valid, out, hidden>>

Enums == xml.enums         \* enumdict: [enum -> [alias, extends]]
Cmds == xml.cmds           \* cmddict: [command -> [alias, types]]

Init ==
    /\ xml \in Xmls /\ opts \in OptionSets
    /\ pc = "parse" /\ pos = 1
    /\ types = <<>> /\ features = <<>> /\ members = <<>>
    /\ order = <<>> /\ removedExtensionNames = {}
    /\ required = {} /\ superseded = <<>> /\ declared = {}
    /\ extends = <<>> /\ valid = <<>>
    /\ out = <<>> /\ hidden = {}

(***************************************************************************)
(* Preprocessing of the tree                                               *)
(***************************************************************************)

\* apiNameMatch: an attribute that is not there (None) always matches.
ApiNameMatch(name, supported) == supported = None \/ name \in supported

\* stripNonmatchingAPIs, for <type> and <feature> elements
StripNonmatchingAPIs(elems) == SelectSeq(elems, LAMBDA t : ApiNameMatch(opts.apiname, t.api))

ApiNames == <<opts.apiname>> \o opts.mergeApiNames

\* The api attribute of the variants to keep: the first API of the list for
\* which there is one, and of those the first in the tree.
BestMatchApi(variants) ==
    LET Matches(k) == SelectSeq(variants, LAMBDA t : ApiNames[k] \in t.api)
        first == {k \in DOMAIN ApiNames : Matches(k) # <<>>
                                          /\ \A j \in 1 .. k - 1 : Matches(j) = <<>>}
    IN  IF first = {} THEN None ELSE Matches(CHOOSE k \in first : TRUE)[1].api

\* mergeAPIs: of the variants of a name only the best stay, for the requested
\* API.  The schema rules out a variant without an api attribute next to one
\* with it.
MergeAPIs(elems) ==
    LET Best(n) == BestMatchApi(SelectSeq(elems, LAMBDA t : t.name = n /\ t.api # None))
        kept == SelectSeq(elems, LAMBDA t : t.api = None \/ Best(t.name) = None \/ t.api = Best(t.name))
    IN  [i \in DOMAIN kept |-> IF kept[i].api = None \/ Best(kept[i].name) = None THEN kept[i]
                               ELSE [kept[i] EXCEPT !.api = {opts.apiname}]]

\* The type that is kept has a 'requires' attribute of a variant for exactly one
\* of the APIs, the last of them, if it has none itself.
InheritRequires(kept, elems) ==
    LET Given(n) == FoldLeft(LAMBDA rs, a : rs \o SelectSeq(elems, LAMBDA t :
                                 t.name = n /\ t.requires # None /\ t.api = {a}), <<>>, ApiNames)
        Inherits(t) == t.requires = None /\ t.api = {opts.apiname} /\ Given(t.name) # <<>>
    IN  [i \in DOMAIN kept |-> IF Inherits(kept[i])
                               THEN [kept[i] EXCEPT !.requires = Last(Given(kept[i].name)).requires]
                               ELSE kept[i]]

\* mergeAPIs, for a <feature> or <extension>: <remove> elements are deleted, and
\* what supports one of the APIs supports the requested one.
MergeFeature(f) ==
    [f EXCEPT !.removes = <<>>,
              !.supported = IF @ # None /\ @ \cap ToSet(ApiNames) # {} THEN {opts.apiname} ELSE @]

\* mergeInternalFeatures: the blocks of an internal feature are appended to
\* the first public feature that depends on it, directly or not.
Dependencies(f) == IF f.depends = <<>> THEN {} ELSE ToSet(f.depends) \ Ops

RECURSIVE ReachableFrom(_, _)
ReachableFrom(names, fs) ==
    LET more == names \cup UNION {Dependencies(fs[i]) : i \in {i \in DOMAIN fs : fs[i].name \in names}}
    IN  IF more = names THEN names ELSE ReachableFrom(more, fs)

HasDependency(f, target, fs) == target \in ReachableFrom(Dependencies(f), fs)

\* Only features of the requested API take part.  What was merged and removed
\* before still leads from one feature to another.
MergeInternalFeatures(elems) ==
    LET all == SelectSeq(elems, LAMBDA f : f.tag = "feature" /\ f.api # None /\ opts.apiname \in f.api)
        MergeInto(fs, internal) ==
            LET publics == {i \in DOMAIN fs : /\ fs[i].name \in {all[k].name : k \in DOMAIN all}
                                              /\ ~fs[i].internal /\ HasDependency(fs[i], internal.name, all)}
                target == CHOOSE i \in publics : \A j \in publics : i <= j
                merged == [fs EXCEPT ![target].requires = @ \o internal.requires,
                                     ![target].removes = @ \o internal.removes,
                                     ![target].deprecates = @ \o internal.deprecates]
            IN  IF publics = {} THEN fs ELSE SelectSeq(merged, LAMBDA f : f.name # internal.name)
    IN  FoldLeft(MergeInto, elems, SelectSeq(all, LAMBDA f : f.internal))

(***************************************************************************)
(* parseTree: the dictionaries.  The first definition of a name stays. The *)
(* enums that features add are copied into the group that they extend.     *)
(***************************************************************************)

FirstOf(elems, n) == LET named == SelectSeq(elems, LAMBDA e : e.name = n) IN named[1]
ByName(elems) == [n \in {elems[i].name : i \in DOMAIN elems} |-> FirstOf(elems, n)]

\* The enums of a <require> block that extend group g
CopiesOf(b, g, n) ==
    LET added == SelectSeq(b.enums, LAMBDA e : e \in DOMAIN Enums /\ Enums[e].extends = g)
    IN  [i \in DOMAIN added |-> <<added[i], n>>]

ParseTree ==
    LET merging == opts.mergeApiNames # <<>>
        ts == IF merging THEN InheritRequires(MergeAPIs(xml.types), xml.types)
              ELSE StripNonmatchingAPIs(xml.types)
        matching == IF merging THEN LET kept == MergeAPIs(xml.features)
                                    IN  [i \in DOMAIN kept |-> MergeFeature(kept[i])]
                    ELSE StripNonmatchingAPIs(xml.features)
        fs == MergeInternalFeatures(matching)
        Copies(f, g) == FoldLeft(LAMBDA ms, b : ms \o CopiesOf(b, g, f.name), <<>>, f.requires)
    IN  /\ pc = "parse"
        /\ types' = ByName(ts)
        /\ features' = ByName(fs)
        /\ members' = [g \in DOMAIN xml.groups |->
              FoldLeft(LAMBDA ms, f : ms \o Copies(f, g),
                       [i \in DOMAIN xml.groups[g] |-> <<xml.groups[g][i], None>>], fs)]
        /\ required' = UNION {ToSet(xml.groups[g]) : g \in DOMAIN xml.groups}
        /\ extends' = [t \in DOMAIN types' |-> types'[t].extends]
        /\ order' = [i \in DOMAIN fs |-> fs[i].name]
        /\ pc' = "select"
        /\ UNCHANGED <<xml, opts, pos, removedExtensionNames, superseded, declared, valid, out, hidden>>

(***************************************************************************)
(* The selection of features and extensions, and their order               *)
(***************************************************************************)

IsExtension(f) == f.tag = "extension"
ByDefault(f) == opts.defaultExtensions # None /\ ApiNameMatch(opts.defaultExtensions, f.supported)

Includes(f) ==
    IF IsExtension(f)
    THEN /\ IF f.name \in opts.addExtensions THEN ApiNameMatch(opts.apiname, f.supported)
            ELSE ByDefault(f)
         /\ f.name \notin opts.removeExtensions
    ELSE ApiNameMatch(opts.apiname, f.api) /\ f.name \in opts.versions

Emits(f) == IF IsExtension(f) THEN f.name \in opts.emitExtensions
            ELSE f.name \in opts.emitversions

StableSort(names, key) ==
    LET positions == SetToSortSeq(DOMAIN names, LAMBDA i, j :
                        \/ key[names[i]] < key[names[j]]
                        \/ key[names[i]] = key[names[j]] /\ i < j)
    IN  [i \in DOMAIN names |-> names[positions[i]]]

\* The category is the part of the name after the API's prefix.
CategoryKey(f) == CASE ~IsExtension(f) -> IF f.category = "VKSC" THEN 1 ELSE 0
                    [] IsExtension(f) -> IF f.category \in {"ARB", "KHR", "OES"} THEN 2 ELSE 3

\* regSortFeatures: stable sorts, from the least to the most significant key
RegSortFeatures(names) ==
    LET byNumber == StableSort(names, [n \in ToSet(names) |-> features[n].number])
        byVersion == StableSort(byNumber, [n \in ToSet(names) |-> features[n].version])
        byCategory == StableSort(byVersion, [n \in ToSet(names) |-> CategoryKey(features[n])])
    IN  StableSort(byCategory, [n \in ToSet(names) |-> features[n].sortorder])

\* apiGen: <feature>s in the order of the tree, then extensions by number
SelectFeatures ==
    LET feats == SelectSeq(order, LAMBDA n : ~IsExtension(features[n]) /\ Includes(features[n]))
        exts == StableSort(SelectSeq(order, LAMBDA n : IsExtension(features[n])),
                           [n \in DOMAIN features |-> features[n].number])
    IN  /\ pc = "select"
        /\ removedExtensionNames' = {n \in ToSet(exts) : ByDefault(features[n]) /\ n \in opts.removeExtensions}
        /\ order' = RegSortFeatures(feats \o SelectSeq(exts, LAMBDA n : Includes(features[n])))
        /\ pc' = "require"
        /\ UNCHANGED <<xml, opts, pos, types, features, members, required, superseded,
                       declared, extends, valid, out, hidden>>

(***************************************************************************)
(* Passes 1 and 2: tagging.  <require>s first, so that removals win.       *)
(***************************************************************************)

genFeatures == ToSet(order)
Optional(n) == IF n = None THEN <<>> ELSE <<n>>

\* markEnumRequired(True): an enum and what it is an alias of
RECURSIVE MarkEnum(_, _)
MarkEnum(req, e) ==
    IF e \notin DOMAIN Enums THEN req
    ELSE FoldLeft(MarkEnum, req \cup {e}, Optional(Enums[e].alias))

\* The types that markTypeRequired and generateFeature recurse on: 'requires',
\* 'alias' and nested <type>s, without a type's references to itself.
NestedTypes(t) == SelectSeq(Optional(types[t].requires) \o Optional(types[t].alias) \o types[t].types,
                            LAMBDA d : d # t)

\* markTypeRequired(True): a type after all that it depends on
RECURSIVE MarkType(_, _, _)
MarkType(req, t, depth) ==
    LET deps == NestedTypes(t) \o Optional(types[t].bitvalues)
        tagged == FoldLeft(LAMBDA r, d : MarkType(r, d, depth - 1), req, deps)
    IN  CASE t \notin DOMAIN types -> req
          [] t \in DOMAIN types /\ depth = 0 -> req \cup {Overflow}
          [] OTHER -> FoldLeft(MarkEnum, tagged, types[t].enums) \cup {t}

\* A command that is an alias has the prototype of what it is an alias of.
CmdTypes(c) == IF Cmds[c].alias \in DOMAIN Cmds THEN Cmds[Cmds[c].alias].types ELSE Cmds[c].types

\* markCmdRequired(True)
RECURSIVE MarkCmd(_, _)
MarkCmd(req, c) ==
    LET alias == IF opts.requireCommandAliases THEN Optional(Cmds[c].alias) ELSE <<>>
    IN  IF c \notin DOMAIN Cmds THEN req
        ELSE FoldLeft(LAMBDA r, t : MarkType(r, t, MaxDepth),
                      FoldLeft(MarkCmd, req \cup {c}, alias), CmdTypes(c))

\* markRequired(True)
MarkBlock(req, b) ==
    FoldLeft(MarkCmd,
             FoldLeft(MarkEnum,
                      FoldLeft(LAMBDA r, t : MarkType(r, t, MaxDepth), req, b.types),
                      b.enums),
             b.cmds)

\* Vulkan SC does not count these versions as there.
NotInSC == IF opts.apiname = "vulkansc" THEN {"VK_VERSION_1_3", "VK_VERSION_1_4"} ELSE {}

\* A block whose expression cannot be parsed is not satisfied. An extension
\* that was removed counts as there.
RequireDependsSatisfied(b) ==
    \/ b.depends = <<>>
    \/ /\ ExprStack(b.depends) # <<>>
       /\ EvaluateDependency(b.depends, (genFeatures \cup removedExtensionNames) \ NotInSC)

Satisfied(f) == SelectSeq(f.requires, RequireDependsSatisfied)

\* The names, and what they are aliases of, and so on
RECURSIVE Aliased(_, _)
Aliased(names, dict) ==
    LET more == names \cup {dict[n].alias : n \in names \cap DOMAIN dict}
    IN  IF more = names THEN names ELSE Aliased(more, dict)

\* fillFeatureDictionary, for a type that a feature lists: one that is not
\* known is skipped, otherwise its aliases are followed to the end.  A name on
\* the way that is not known raises an error, a circle never ends.  The type at
\* the end must have a category that the dictionary has.
Categories == {"enumconstant", "command", "enum", "struct", "handle", "basetype",
               "include", "define", "bitmask", "union", "funcpointer"}

FillType(t) ==
    LET chain == Aliased({t}, types)
        ends == {n \in chain \cap DOMAIN types : types[n].alias = None}
    IN  CASE t \notin DOMAIN types -> "ok"
          [] ends # {} -> IF \A n \in ends : types[n].cat \in Categories THEN "ok" ELSE "failed"
          [] ends = {} /\ chain \subseteq DOMAIN types -> "looping"
          [] OTHER -> "failed"

\* ... and for an enum or a command: getAlias raises an error if it is not known.
FillName(n, dict) == IF n \in DOMAIN dict THEN "ok" ELSE "failed"

\* What becomes of the names of a feature, up to the first that stops it
FillFeatureDictionary(f) ==
    LET Fill(b) == [i \in DOMAIN b.types |-> FillType(b.types[i])]
                   \o [i \in DOMAIN b.enums |-> FillName(b.enums[i], Enums)]
                   \o [i \in DOMAIN b.cmds |-> FillName(b.cmds[i], Cmds)]
        stops == SelectSeq(FlattenSeq([i \in DOMAIN Satisfied(f) |-> Fill(Satisfied(f)[i])]),
                           LAMBDA r : r # "ok")
    IN  IF stops = <<>> THEN "ok" ELSE stops[1]

\* deprecateFeatures raises an error for a type or an enum that was already
\* superseded by something else.  For a command the value is assigned before
\* it is compared.
IsDeprecable(d) == d.name \in DOMAIN types \cup DOMAIN Enums \cup DOMAIN Cmds
Contradicts(d, sup) ==
    /\ d.name \in DOMAIN sup /\ sup[d.name] # None
    /\ sup[d.name] # d.by /\ d.name \notin DOMAIN Cmds

Supersede(sup, d) == IF Overflow \in DOMAIN sup THEN sup
                     ELSE IF ~IsDeprecable(d) \/ Contradicts(d, sup) THEN (Overflow :> None) @@ sup
                     ELSE (d.name :> d.by) @@ sup

AtFeature(pass) == pc = pass /\ pos <= Len(order)
Advance == pos' = pos + 1

\* Pass 1 begins with fillFeatureDictionary, which may be as far as it gets:
\* an exception ends the script, and a circle of aliases keeps it for ever.
FillStops ==
    /\ AtFeature("require")
    /\ FillFeatureDictionary(features[order[pos]]) # "ok"
    /\ pc' = FillFeatureDictionary(features[order[pos]])
    /\ UNCHANGED <<xml, opts, pos, types, features, members, order, removedExtensionNames,
                   required, superseded, declared, extends, valid, out, hidden>>

RequireFeatures ==
    LET f == features[order[pos]]
    IN  /\ AtFeature("require")
        /\ FillFeatureDictionary(f) = "ok"
        /\ required' = FoldLeft(MarkBlock, required, Satisfied(f))
        /\ superseded' = FoldLeft(Supersede, superseded, f.deprecates)
        /\ pc' = IF Overflow \in required' \/ Overflow \in DOMAIN superseded' THEN "failed" ELSE pc
        /\ Advance
        /\ UNCHANGED <<xml, opts, types, features, members, order, removedExtensionNames,
                       declared, extends, valid, out, hidden>>

\* Mutant: the tag is cleared and the element stays in its group.
RECURSIVE UnmarkEnumOnly(_, _)
UnmarkEnumOnly(s, e) ==
    IF e \notin DOMAIN Enums THEN s
    ELSE FoldLeft(UnmarkEnumOnly, [s EXCEPT !.required = @ \ {e}], Optional(Enums[e].alias))

\* markEnumRequired(False): the enum's element leaves its group (the first of
\* the copies if it extends one), and what it is an alias of goes the same way.
RECURSIVE UnmarkEnum(_, _)
UnmarkEnum(s, e) ==
    LET group == Enums[e].extends
        left == IF e \notin s.required THEN s.members
                ELSE [g \in DOMAIN s.members |->
                        IF group = None THEN SelectSeq(s.members[g], LAMBDA m : m[1] # e)
                        ELSE IF g = group THEN RemoveFirstMatch(s.members[g], LAMBDA m : m[1] = e)
                        ELSE s.members[g]]
    IN  IF e \notin DOMAIN Enums THEN s
        ELSE FoldLeft(UnmarkEnum, [required |-> s.required \ {e}, members |-> left],
                      Optional(Enums[e].alias))

RECURSIVE UnmarkCmd(_, _)
UnmarkCmd(s, c) ==
    IF c \notin DOMAIN Cmds THEN s
    ELSE FoldLeft(UnmarkCmd, [s EXCEPT !.required = @ \ {c}],
                  IF opts.requireCommandAliases THEN Optional(Cmds[c].alias) ELSE <<>>)

\* Mutant: removing a type removes what it refers to.
UnmarkBlockDeep(s, b) ==
    LET deep == UNION {{t} \cup ToSet(NestedTypes(t)) : t \in ToSet(b.types) \cap DOMAIN types}
    IN  FoldLeft(UnmarkCmd, FoldLeft(UnmarkEnum, [s EXCEPT !.required = @ \ deep], b.enums), b.cmds)

\* markRequired(False): dependencies of types and commands stay.
UnmarkBlock(s, b) ==
    FoldLeft(UnmarkCmd,
             FoldLeft(UnmarkEnum, [s EXCEPT !.required = @ \ ToSet(b.types)], b.enums),
             b.cmds)

BeginPass(from, to) ==
    /\ pc = from /\ pos > Len(order)
    /\ pc' = to /\ pos' = 1

BeginRemoving ==
    /\ BeginPass("require", "remove")
    /\ UNCHANGED <<xml, opts, types, features, members, order, removedExtensionNames, required,
                   superseded, declared, extends, valid, out, hidden>>

\* Pass 2
RemoveFeatures ==
    LET s == FoldLeft(UnmarkBlock, [required |-> required, members |-> members],
                      features[order[pos]].removes)
    IN  /\ AtFeature("remove")
        /\ required' = s.required /\ members' = s.members
        /\ Advance
        /\ UNCHANGED <<xml, opts, pc, types, features, order, removedExtensionNames, superseded,
                       declared, extends, valid, out, hidden>>

\* stripUnsupportedAPIs for 'structextends'
StripUnsupportedAPIs == [t \in DOMAIN types |-> extends[t] \cap required \cap DOMAIN types]

\* The structs that extend each type, when structextends is ext
TagValidExtensionStructs(ext) ==
    [p \in DOMAIN types |-> {t \in DOMAIN types \cap required : types[t].cat = "struct" /\ p \in ext[t]}]

StripUnsupported ==
    /\ BeginPass("remove", "generate")
    /\ extends' = StripUnsupportedAPIs
    /\ valid' = TagValidExtensionStructs(extends')
    /\ UNCHANGED <<xml, opts, types, features, members, order, removedExtensionNames, required,
                   superseded, declared, out, hidden>>

(***************************************************************************)
(* Pass 3: generateFeature declares a name after all that it refers to, if *)
(* it is required and was not declared yet.  A state s of the recursion is *)
(* what was declared, emitted, hidden, and whether an exception was raised.*)
(***************************************************************************)

\* The check of the <enum> elements of a group, which comes before genGroup
ElementRequired(m) ==
    LET f == features[m[2]]
    IN  CASE m[2] = None -> TRUE
          [] m[2] # None /\ ~IsExtension(f) -> m[2] \in opts.emitversions
          [] OTHER -> /\ \/ f.supported # None /\ opts.defaultExtensions \in f.supported
                         \/ m[2] \in opts.addExtensions
                      /\ m[2] \in genFeatures => m[1] \in required

GroupEnums(g) ==
    LET direct == {m[1] : m \in {m \in ToSet(members[g]) : ElementRequired(m)}}
        aliases == {Enums[e].alias : e \in direct}
    IN  direct \cup {m[1] : m \in {m \in ToSet(members[g]) : m[1] \in aliases}}

Emit(s, emit, n, enums) ==
    IF emit THEN [s EXCEPT !.out = Append(@, [name |-> n, enums |-> enums])]
    ELSE [s EXCEPT !.hidden = @ \cup {n}]

\* What is generated before n, in order
Needed(n) == CASE n \in DOMAIN types -> Optional(types[n].alias) \o Optional(types[n].requires)
                                        \o types[n].types \o types[n].enums
               [] n \in DOMAIN Cmds -> Optional(Cmds[n].alias) \o CmdTypes(n)
               [] n \in DOMAIN Enums -> Optional(Enums[n].alias)
               [] OTHER -> <<>>

\* genType, genGroup, genCmd or genEnum for n
GenProc(s, n, emit) ==
    LET t == types[n]
        group == IF t.alias = None THEN n ELSE t.alias
    IN  CASE n \notin DOMAIN types \/ t.cat # "enum" -> Emit(s, emit, n, {})
          [] n \in DOMAIN types /\ t.cat = "enum" /\ group \in DOMAIN members ->
                Emit(s, emit, n, IF t.alias = None THEN GroupEnums(n) ELSE {})
          [] OTHER -> [s EXCEPT !.failed = @ \/ t.alias # None]

FollowUp(n) == IF n \in DOMAIN types /\ types[n].cat = "bitmask" THEN Optional(types[n].bitvalues) ELSE <<>>

\* Mutant: a name is marked as declared once it was emitted.
RECURSIVE GenerateEmitFirst(_, _, _, _)
GenerateEmitFirst(s, n, explicit, emit) ==
    LET Dependent(r, d) == GenerateEmitFirst(r, d, FALSE, emit)
    IN  IF n \notin required \/ n \in s.declared \/ ~(explicit \/ opts.requireDepends) THEN s
        ELSE FoldLeft(Dependent, GenProc([s EXCEPT !.declared = @ \cup {n}], n, emit), Needed(n) \o FollowUp(n))

RECURSIVE GenerateFeature(_, _, _, _)
GenerateFeature(s, n, explicit, emit) ==
    LET Dependent(r, d) == GenerateFeature(r, d, FALSE, emit)
        ready == FoldLeft(Dependent, [s EXCEPT !.declared = @ \cup {n}], Needed(n))
    IN  IF n \notin required \/ n \in s.declared \/ ~(explicit \/ opts.requireDepends) THEN s
        ELSE FoldLeft(Dependent, GenProc(ready, n, emit), FollowUp(n))

\* generateRequiredInterface: all the blocks; extending enums are in groups.
RequiredNames(f) ==
    FoldLeft(LAMBDA ns, b : ns \o b.types
                               \o SelectSeq(b.enums, LAMBDA e : e \notin DOMAIN Enums \/ Enums[e].extends = None)
                               \o b.cmds,
             <<>>, f.requires)

GenerateInterface ==
    LET f == features[order[pos]]
        s == FoldLeft(LAMBDA r, n : GenerateFeature(r, n, TRUE, Emits(f)),
                      [declared |-> declared, out |-> out, hidden |-> hidden, failed |-> FALSE],
                      RequiredNames(f))
    IN  /\ AtFeature("generate")
        /\ declared' = s.declared /\ out' = s.out /\ hidden' = s.hidden
        /\ pc' = IF s.failed THEN "failed" ELSE pc
        /\ Advance
        /\ UNCHANGED <<xml, opts, types, features, members, order, removedExtensionNames, required,
                       superseded, extends, valid>>

EndFile ==
    /\ BeginPass("generate", "done")
    /\ UNCHANGED <<xml, opts, types, features, members, order, removedExtensionNames, required,
                   superseded, declared, extends, valid, out, hidden>>

Next == \/ ParseTree \/ SelectFeatures \/ FillStops \/ RequireFeatures \/ BeginRemoving
        \/ RemoveFeatures \/ StripUnsupported \/ GenerateInterface \/ EndFile

Spec == Init /\ [][Next]_vars

(***************************************************************************)
(* Properties                                                              *)
(***************************************************************************)

OutNames == {out[i].name : i \in DOMAIN out}
GroupMissing(n) == n \in DOMAIN types /\ types[n].cat = "enum" /\ types[n].alias = None /\ n \notin DOMAIN members
Generating == pc \in {"generate", "done"}

\* generateFeature: whatever the order in which features list names, a name is
\* emitted after everything in the interface that it refers to, or that was
\* declared by a feature that is not emitted.
DeclaredBeforeUse ==
    opts.requireDepends =>
        \A i \in DOMAIN out : \A d \in (ToSet(Needed(out[i].name)) \cap required) \ {out[i].name} :
            d \in hidden \/ GroupMissing(d) \/ \E j \in 1 .. i - 1 : out[j].name = d

Removed(kind(_)) == UNION {UNION {ToSet(kind(b)) : b \in ToSet(features[n].removes)} : n \in genFeatures}
RemovedTypes == Removed(LAMBDA b : b.types)
RemovedEnums == Removed(LAMBDA b : b.enums)
RemovedCmds == Removed(LAMBDA b : b.cmds)
Origins(e) == {n \in DOMAIN features : \E b \in ToSet(features[n].requires) : e \in ToSet(b.enums)}

\* apiGen, "removals win": what a selected feature removes is not emitted, not
\* in a group that is emitted, and no structure extends it any more, although
\* other features require it and other names refer to it.  An enum that was
\* copied into its group by a core version, by an extension that is not
\* selected or a block that is not satisfied, or twice, is left out: such
\* copies may stay.
RemovalsWin ==
    LET OneCopy(e) == \/ Origins(e) = {}
                      \/ \E n \in genFeatures : /\ Origins(e) = {n} /\ IsExtension(features[n])
                                                /\ \E b \in ToSet(Satisfied(features[n])) : e \in ToSet(b.enums)
        enums == {e \in RemovedEnums : OneCopy(e)}
    IN  Generating =>
            /\ OutNames \cap (RemovedTypes \cup RemovedEnums \cup RemovedCmds) = {}
            /\ \A i \in DOMAIN out : out[i].enums \cap enums = {}
            /\ \A t \in DOMAIN types : extends[t] \cap RemovedTypes = {}

\* An enum or command goes with the aliases that are removed.
Gone == RemovedTypes \cup Aliased(RemovedEnums, Enums)
        \cup (IF opts.requireCommandAliases THEN Aliased(RemovedCmds, Cmds) ELSE RemovedCmds)

References(n) == ToSet(NestedTypes(n)) \cup ToSet(Optional(types[n].bitvalues))
RECURSIVE Reachable(_)
Reachable(names) ==
    LET more == names \cup UNION {References(n) : n \in names \cap DOMAIN types}
    IN  IF more = names THEN names ELSE Reachable(more)
Cyclic == \E t \in DOMAIN types : t \in Reachable(References(t))
BadDeprecation ==
    \/ \E f \in genFeatures : \E d \in ToSet(features[f].deprecates) : ~IsDeprecable(d)
    \/ \E f, g \in genFeatures : \E d \in ToSet(features[f].deprecates), e \in ToSet(features[g].deprecates) :
          d.name = e.name /\ d.by # e.by
NoGroup == \E t \in DOMAIN types : types[t].cat = "enum" /\ types[t].alias # None /\ types[t].alias \notin DOMAIN members

UnknownName == \E n \in genFeatures : \E b \in ToSet(Satisfied(features[n])) :
                  ~(ToSet(b.enums) \subseteq DOMAIN Enums /\ ToSet(b.cmds) \subseteq DOMAIN Cmds)
MissingAlias == \E t \in DOMAIN types : types[t].alias \notin DOMAIN types \cup {None}
NoCategory == \E t \in DOMAIN types : types[t].cat \notin Categories
AliasCircle == \E t \in DOMAIN types : t \in Aliased({types[t].alias}, types)

\* apiGen: a generation fails only for a registry whose types refer to each
\* other in a circle, that deprecates a name in two ways or one that is not
\* there, requires unknown enums or commands, or has an alias of no group or of
\* no type, or a type of no category that is handled; it goes on for ever only if
\* types are aliases of each other in a circle.  Otherwise everything that a
\* block with satisfied dependencies lists was declared, except what was
\* removed; the enums that an emitted extension adds are in the group, if it is
\* emitted.
NothingMissing ==
    /\ pc = "failed" => Cyclic \/ BadDeprecation \/ NoGroup \/ UnknownName \/ MissingAlias \/ NoCategory
    /\ pc = "looping" => AliasCircle
    /\ pc = "done" =>
         \A n \in genFeatures : \A b \in ToSet(Satisfied(features[n])) :
            /\ \A t \in (ToSet(b.types) \cap DOMAIN types) \cup ToSet(b.cmds)
                        \cup {e \in ToSet(b.enums) : Enums[e].extends = None} :
                  t \in OutNames \cup hidden \cup Gone \/ GroupMissing(t)
            /\ IsExtension(features[n]) => \A e \in ToSet(b.enums) \ Gone : \A i \in DOMAIN out :
                  (out[i].name = Enums[e].extends) => e \in out[i].enums

\* parse_dependency: for the expression of every block that has one and every
\* set of supported names, what evaluateDependency finds, the C expression that
\* dependencyLanguageC writes (for generators that put one in an #if; the vkex
\* generator does not call it) and the set of names all agree with what the
\* expression means.
DependsMeansTheSame ==
    pc = "require" => \A n \in genFeatures : \A b \in ToSet(features[n].requires) : b.depends # <<>> =>
        LET names == SelectSeq(b.depends, LAMBDA t : t \notin Ops \cup Parens)
        IN  \A tree \in {t \in Trees(names) : Written(t) = b.depends} :
              /\ DependencyNames(b.depends) = ToSet(names)
              /\ \A supported \in SUBSET ToSet(names) :
                  /\ EvaluateDependency(b.depends, supported) = Meaning(tree, supported)
                  /\ CMeaning(DependencyLanguageC(b.depends), supported) = Meaning(tree, supported)
=============================================================================
