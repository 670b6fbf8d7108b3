---------------------------- MODULE MCRelational ----------------------------
EXTENDS Relational

\* the server's two tables (server.go:24-37), names as their ASCII bytes
Ascii_shadow == << 115, 104, 97, 100, 111, 119 >>
Ascii_key_value == << 107, 101, 121, 95, 118, 97, 108, 117, 101 >>
MCServerTables ==
    << [Name |-> Ascii_shadow, Types |-> << TYPE_BYTES, TYPE_BYTES >>,
        Cols |-> << "uid", "password" >>, PKeys |-> 1, Prefix |-> 0],
       [Name |-> Ascii_key_value, Types |-> << TYPE_BYTES, TYPE_BYTES >>,
        Cols |-> << "key", "value" >>, PKeys |-> 1, Prefix |-> 0] >>
\* keys with the bytes escapeString rewrites, and the name of a table
MCPKeys == { << 0 >>, << 1 >>, Ascii_shadow }
MCCells == { << 0 >>, << 2 >> }
====
