----------------------------- MODULE MCRegistry -----------------------------
(* Families of small registries: references between three types, a group   *)
(* that features extend, dependency expressions, and variants of elements. *)
EXTENDS Registry

Type(n, cat) == [name |-> n, api |-> None, cat |-> cat, requires |-> None, alias |-> None, types |-> <<>>,
                 enums |-> <<>>, bitvalues |-> None, extends |-> {}]
Block == [depends |-> <<>>, types |-> <<>>, enums |-> <<>>, cmds |-> <<>>]
Feature(n, v) == [name |-> n, tag |-> "feature", internal |-> FALSE, number |-> 0, version |-> v,
                  category |-> "VERSION", sortorder |-> 0, api |-> {"vulkan"}, supported |-> None, depends |-> <<>>,
                  requires |-> <<>>, removes |-> <<>>, deprecates |-> <<>>]
Extension(n, k, c) == [Feature(n, 0) EXCEPT !.tag = "extension", !.number = k, !.category = c,
                                             !.api = None, !.supported = {"vulkan"}]

\* One type may refer to others in each of the ways there are.
TypeNames == {"A", "B", "S"}
Shapes(n) == {Type(n, "struct")}
    \cup {[Type(n, "struct") EXCEPT !.requires = d] : d \in TypeNames}
    \cup {[Type(n, "struct") EXCEPT !.alias = d] : d \in TypeNames \ {n}}
    \cup {[Type(n, "struct") EXCEPT !.types = <<d>>, !.extends = {d}] : d \in TypeNames}
    \cup {[Type(n, "bitmask") EXCEPT !.bitvalues = d] : d \in TypeNames \ {n}}
    \cup {[Type(n, "struct") EXCEPT !.types = <<d, e>>] : d, e \in TypeNames \ {n}}

Cmd1 == "c" :> [alias |-> None, types |-> <<"A">>] @@ "d" :> [alias |-> "c", types |-> <<>>]
NoEnums == [e \in {} |-> None]

References1 ==
    {[types |-> <<a, b, s>>, groups |-> NoEnums, enums |-> NoEnums, cmds |-> Cmd1,
      features |-> <<[Feature("V1", 10) EXCEPT !.requires = <<[Block EXCEPT !.types = <<"S">>]>>,
                                               !.removes = removes],
                     [Extension("X1", 2, "EXT") EXCEPT !.requires = <<[Block EXCEPT !.types = <<"B">>, !.cmds = <<"d">>]>>]>>]
      : a \in Shapes("A"), b \in Shapes("B"), s \in Shapes("S"),
        removes \in {<<>>, <<[Block EXCEPT !.types = <<"B">>, !.cmds = <<"d">>]>>}}

\* A group G with a value of its own, values of a version and of extensions
GroupEnumDict == "g" :> [alias |-> None, extends |-> None] @@ "v" :> [alias |-> None, extends |-> "G"]
              @@ "x" :> [alias |-> None, extends |-> "G"] @@ "y" :> [alias |-> "x", extends |-> "G"]
              @@ "k" :> [alias |-> None, extends |-> None]

Groups1 ==
    {[types |-> <<Type("G", "enum"), [Type("H", "enum") EXCEPT !.alias = "G"], Type("N", "enum"),
                  [Type("S", "struct") EXCEPT !.types = <<"G">>, !.enums = <<"k">>]>>,
      groups |-> "G" :> <<"g">>, enums |-> GroupEnumDict, cmds |-> [c \in {} |-> None],
      features |-> <<[Feature("V1", 10) EXCEPT !.requires = <<[Block EXCEPT !.types = <<"S", "N">>, !.enums = <<"v">>]>>],
                     [Extension("X2", 2, c2) EXCEPT !.requires = <<[Block EXCEPT !.enums = <<"x", "k">>, !.depends = dep]>>,
                                                    !.removes = <<[Block EXCEPT !.enums = gone]>>],
                     [Extension("X1", 1, "KHR") EXCEPT !.requires = <<[Block EXCEPT !.enums = more, !.types = <<"H">>]>>,
                                                       !.supported = sup, !.sortorder = so]>>]
      : c2 \in {"KHR", "EXT"}, dep \in {<<>>, <<"X1">>, <<"V1", "+", "X1">>},
        gone \in {<<>>, <<"g">>, <<"v">>, <<"x">>, <<"y">>, <<"k">>}, more \in {<<"y">>, <<"x">>, <<"x", "y">>},
        sup \in {{"vulkan"}, {"vulkansc"}}, so \in {0, 1}}

\* Expressions over four names; the features they name are there or not.
Depends1 ==
    {[types |-> <<Type("A", "struct"), Type("B", "struct")>>, groups |-> NoEnums, enums |-> NoEnums, cmds |-> Cmd1,
      features |-> <<[Feature("V1", 10) EXCEPT !.requires = <<[Block EXCEPT !.types = <<"A">>, !.depends = Written(tree)],
                                                              [Block EXCEPT !.types = <<"B">>, !.depends = bad]>>],
                     Extension("X1", 1, "KHR"), Extension("X2", 2, "EXT")>>]
      : tree \in Trees(<<"V1", "X1", "V2", "X2">>) \cup Trees(<<"X2", "V2", "X1">>),
        bad \in {<<"V1", "+">>, <<"(", "V1">>, <<"V1", "V2">>, <<"+", "V1">>}}

\* Variants of a type for two APIs, internal features, and deprecation
Variants1 ==
    {[types |-> <<[Type("A", "struct") EXCEPT !.api = a], [Type("A", "handle") EXCEPT !.api = b, !.requires = "B"],
                  Type("B", "struct")>>,
      groups |-> NoEnums, enums |-> NoEnums, cmds |-> Cmd1,
      features |-> <<[Feature("VJ", 10) EXCEPT !.internal = TRUE, !.depends = <<"VI">>],
                     [Feature("VI", 10) EXCEPT !.internal = TRUE, !.requires = <<[Block EXCEPT !.types = <<"A">>]>>],
                     [Feature("VS", 10) EXCEPT !.api = {"vulkansc"}, !.depends = <<"VI">>, !.requires = <<Block>>],
                     [Feature("V1", 10) EXCEPT !.depends = dep, !.requires = <<[Block EXCEPT !.types = <<"B">>]>>,
                                               !.deprecates = <<[name |-> old, by |-> "B"]>>],
                     [Feature("V0", 9) EXCEPT !.deprecates = <<[name |-> old, by |-> by]>>],
                     [Extension("X1", 1, "KHR") EXCEPT !.requires = <<[Block EXCEPT !.cmds = cmds]>>]>>]
      : a, b \in {{"vulkan"}, {"vulkansc"}}, dep \in {<<>>, <<"VI">>, <<"V0", "+", "VJ">>},
        old \in {"A", "c", "no"}, by \in {None, "B", "A"}, cmds \in {<<"c">>, <<"no">>}}

\* Types that are aliases of another, of themselves or of one that is not there,
\* with a category or without, and a block that lists one that is not there
Aliases1 ==
    {[types |-> <<[Type("A", ca) EXCEPT !.alias = a], [Type("B", cb) EXCEPT !.alias = b, !.requires = r],
                  [Type("S", "struct") EXCEPT !.alias = s]>>,
      groups |-> NoEnums, enums |-> NoEnums, cmds |-> Cmd1,
      features |-> <<[Feature("V1", 10) EXCEPT !.requires = <<[Block EXCEPT !.types = <<"Z", "S">>],
                                                              [Block EXCEPT !.types = <<"A">>, !.cmds = cmds]>>],
                     [Extension("X1", 2, "EXT") EXCEPT !.requires = <<[Block EXCEPT !.types = <<"B">>, !.depends = dep]>>]>>]
      : ca, cb \in {"struct", None}, a, b, s \in {None, "A", "B", "S", "Z"}, r \in {None, "A"},
        cmds \in {<<>>, <<"no">>}, dep \in {<<>>, <<"V2">>}}

MCXmls == References1 \cup Aliases1 \cup Groups1 \cup Depends1 \cup Variants1

Versions == {"V0", "V1", "VI", "VS"}
Exts == {"X1", "X2"}
Base == [apiname |-> "vulkan", mergeApiNames |-> <<>>, defaultExtensions |-> None, addExtensions |-> Exts,
         removeExtensions |-> {}, emitExtensions |-> Exts, versions |-> Versions, emitversions |-> Versions,
         requireDepends |-> TRUE, requireCommandAliases |-> FALSE]
MCOptionSets ==
    {Base,
     [Base EXCEPT !.emitversions = {}, !.requireCommandAliases = TRUE],
     [Base EXCEPT !.defaultExtensions = "vulkan", !.removeExtensions = {"X1"}, !.addExtensions = {}],
     [Base EXCEPT !.mergeApiNames = <<"vulkansc">>, !.emitExtensions = {"X2"}, !.requireDepends = FALSE]}
=============================================================================
