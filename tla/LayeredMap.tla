----------------------------- MODULE LayeredMap -----------------------------
(***************************************************************************)
(* The map of names to definitions with a layer for every open scope       *)
(* (layeredmap.cpp).  A map is a sequence of functions from the names      *)
(* bound in a layer; the last one is the innermost.                        *)
(***************************************************************************)
EXTENDS Integers, Sequences

EmptyMap == << <<>> >>

newLayer(maps) == Append(maps, <<>>)

removeLastLayer(maps) == SubSeq(maps, 1, Len(maps) - 1)

LastLayer(maps) == maps[Len(maps)]

BoundInLastLayer(maps, name) == name \in DOMAIN LastLayer(maps)

Bind(layer, name, value) ==
    [n \in DOMAIN layer \cup {name} |-> IF n = name THEN value ELSE layer[n]]

add_Replace(maps, name, value) ==
    [maps EXCEPT ![Len(maps)] = Bind(@, name, value)]

\* std::map::insert keeps the binding that is already there.
add(maps, name, value) ==
    IF BoundInLastLayer(maps, name)
    THEN maps
    ELSE [maps EXCEPT ![Len(maps)] = Bind(@, name, value)]

LayersWith(maps, name) == {i \in DOMAIN maps : name \in DOMAIN maps[i]}

\* The layer in which a name is found, from the inside out; 0 if in none.
InnermostWith(maps, name) ==
    CHOOSE i \in LayersWith(maps, name) \cup {0} :
        \A j \in LayersWith(maps, name) : j <= i

lookup(maps, name, none) ==
    LET i == InnermostWith(maps, name)
    IN  IF i = 0 THEN none ELSE maps[i][name]
=============================================================================
