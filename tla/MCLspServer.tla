---------------------------- MODULE MCLspServer ----------------------------
(***************************************************************************)
(* The language server for TLC: a library and a program that imports it.   *)
(***************************************************************************)
EXTENDS LspServer

CONSTANTS lib, app   \* the two documents

MCUris == {lib, app}

Parsed(defs, imports, ill) ==
    [parses |-> TRUE, ill |-> ill, defs |-> defs, imports |-> imports]

Def(name, as) == [name |-> name, as |-> as]

FromLib(imported, local) == [from |-> lib, imported |-> imported, local |-> local]

(* The library: `export var x`, the same with a type error, and a private  *)
(* x beside `export { y as x }`.                                           *)
LibTexts ==
    {Parsed({Def("x", "x")}, {}, ill) : ill \in BOOLEAN} \cup
    {Parsed({Def("x", Null), Def("y", "x")}, {}, FALSE)}

(* The program: `import { x }`, `import { x as z }`, a syntax error. *)
AppTexts ==
    {Parsed({}, {FromLib("x", "x")}, FALSE), Parsed({}, {FromLib("x", "z")}, FALSE),
     [parses |-> FALSE, ill |-> TRUE, defs |-> {}, imports |-> {}]}

MCTextsOf == [u \in MCUris |-> IF u = lib THEN LibTexts ELSE AppTexts]
=============================================================================
