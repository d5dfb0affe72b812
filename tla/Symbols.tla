------------------------------ MODULE Symbols ------------------------------
(***************************************************************************)
(* backtrace/symbols.c, symbols_64.c and the maps of backtrace.c: how an   *)
(* address of a stack gets the name of a function.                         *)
(*                                                                         *)
(* A process maps files at addresses; a line of its maps is kept when it   *)
(* is executable and has a file name.  The symbols of an ELF file are put  *)
(* in one table sorted by address, in which bsearch looks for the one that *)
(* contains the address.  Names, addresses and sizes are all a symbol has  *)
(* here; an ELF section is the sequence of its entries, empty when the     *)
(* file has no such section.                                               *)
(***************************************************************************)
EXTENDS Integers, Sequences, FiniteSets

CONSTANTS
  Object,   \* for each file that is mapped: [so, elf, wide, dynsym, symtab]
  Wide      \* sizeof(long) = 8

NoSymbol == [name |-> "none", addr |-> 0, size |-> 0, defined |-> FALSE]

Symbol == [name : STRING, addr : Nat, size : Nat, defined : BOOLEAN]

Files == DOMAIN Object

ASSUME ObjectAssumption ==
  /\ Wide \in BOOLEAN
  /\ \A f \in Files : Object[f].so \in BOOLEAN /\ Object[f].elf \in BOOLEAN
                        /\ Object[f].wide \in BOOLEAN
                        /\ Object[f].dynsym \in Seq(Symbol) /\ Object[f].symtab \in Seq(Symbol)
-----------------------------------------------------------------------------
(* The table of a file.                                                    *)

\* Where the symbols are that are counted and copied: the dynamic ones that are defined, and
\* the others that are defined and have a name, an address and a size.
Copied(o) ==
  {<<"dynsym", i>> : i \in {k \in DOMAIN o.dynsym : o.dynsym[k].defined}}
    \cup {<<"symtab", i>> : i \in {k \in DOMAIN o.symtab :
            LET s == o.symtab[k] IN s.defined /\ s.name # "" /\ s.addr # 0 /\ s.size # 0}}
SymbolAt(o, c) == IF c[1] = "dynsym" THEN o.dynsym[c[2]] ELSE o.symtab[c[2]]

\* The orders in which qsort may leave the elements of a set: by address, equal ones in any order.
Sorted(o, cs) ==
  {p \in [1 .. Cardinality(cs) -> cs] :
     /\ \A i, j \in DOMAIN p : p[i] = p[j] => i = j
     /\ \A i, j \in DOMAIN p : i < j => SymbolAt(o, p[i]).addr <= SymbolAt(o, p[j]).addr}

\* The tables that may be made of a file.
Tables(f) ==
  LET o == Object[f] IN {[i \in DOMAIN p |-> SymbolAt(o, p[i])] : p \in Sorted(o, Copied(o))}

\* symbol_tables_create finds no section in a file of the other width: there is no table.
Readable(f, wide) ==
  /\ Object[f].elf /\ (Object[f].wide => wide)
  /\ Object[f].dynsym # << >> \/ Object[f].symtab # << >>

\* parse_elf32 takes each file for a 32-bit one, parse_elf64 looks which it is.
ReadsTable(f, parser) == Readable(f, parser = 64)
-----------------------------------------------------------------------------
(* Looking up an address.                                                  *)

\* bcompar with the end of a symbol taken for part of it.
BcomparEnd(a, s) == IF a < s.addr THEN -1 ELSE IF a - s.addr > s.size THEN 1 ELSE 0

\* bcompar: before, after, or in the symbol.
Bcompar(a, s) == IF a < s.addr THEN -1 ELSE IF a - s.addr >= s.size THEN 1 ELSE 0

\* bsearch of the C library: the element found, or NoSymbol, for an address in the lim elements
\* of a table from base on.
Searches ==
  {x \in Seq(Symbol) \X Nat \X (Nat \ {0}) \X Nat : x[3] + x[4] <= Len(x[1]) + 1}
Search[x \in Searches] ==
  LET t    == x[1]
      a    == x[2]
      base == x[3]
      lim  == x[4]
      p    == base + lim \div 2
  IN  IF lim = 0 THEN NoSymbol
      ELSE IF Bcompar(a, t[p]) = 0 THEN t[p]
      ELSE IF Bcompar(a, t[p]) > 0 THEN Search[<<t, a, p + 1, (lim - 1) \div 2>>]
      ELSE Search[<<t, a, base, lim \div 2>>]
Bsearch(t, a) == Search[<<t, a, 1, Len(t)>>]

\* symbol_tables_lookup has no name for the address 0; symbol_tables_lookup64 may.
Lookup(t, a, wide) == IF a = 0 /\ ~wide THEN NoSymbol ELSE Bsearch(t, a)
-----------------------------------------------------------------------------
(* The maps of a process.                                                  *)

NoMap == [lo |-> 0, hi |-> 0, file |-> "none", loaded |-> FALSE]

\* parse_map_line_64: an executable mapping whose line ends with one word for the file.
KeptLine(l) == l.exec /\ l.words = 4

\* A mapping before parse_elf gives it its symbols.
Mapinfo(l) == [lo |-> l.lo, hi |-> l.hi, file |-> l.file, loaded |-> FALSE]

\* The list of the kept lines, each put at its head: with the first n lines it is Listed(ls)[n].
AddLine(list, l) == IF KeptLine(l) THEN <<Mapinfo(l)>> \o list ELSE list
Listed(ls) ==
  LET list[n \in 0 .. Len(ls)] == IF n = 0 THEN << >> ELSE AddLine(list[n - 1], ls[n])
  IN  list
MapList(ls) == Listed(ls)[Len(ls)]

\* parse_elf32 and parse_elf64 on a list.
ParseElf(list, parser) ==
  [i \in DOMAIN list |-> [list[i] EXCEPT !.loaded = ReadsTable(list[i].file, parser)]]

\* parse_elf
Parser == IF Wide THEN 64 ELSE 32

\* pc_to_mapsinfo: the first mapping of the list with the address.
PcToMapsinfo(list, pc) ==
  LET with == {i \in DOMAIN list : list[i].lo <= pc /\ pc < list[i].hi}
  IN  IF with = {} THEN NoMap ELSE list[CHOOSE i \in with : \A j \in with : i <= j]

\* The address that is looked up and printed: that of a shared library is relative.
RelPc(m, pc) == IF m # NoMap /\ Object[m.file].so THEN pc - m.lo ELSE pc

\* unwind_backtrace_with_stack and its _file and 64-bit forms: what is printed with the
\* address pcs[i].pc.  An address without a table keeps the symbol of the last one that had.
Unwound(ts, list, pcs, wide, i) ==
  LET map(j) == PcToMapsinfo(list, pcs[j].pc)
      rel(j) == RelPc(map(j), pcs[j].pc)
      known  == {j \in 1 .. i : map(j).loaded}
      sym    == [j \in known |-> Lookup(ts[map(j).file], rel(j), wide)]
  IN  [pc   |-> pcs[i].pc,
       rel  |-> rel(i),
       file |-> map(i).file,
       sym  |-> IF known = {} THEN NoSymbol
                ELSE sym[CHOOSE j \in known : \A k \in known : k <= j]]
=============================================================================
