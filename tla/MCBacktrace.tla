---------------------------- MODULE MCBacktrace ----------------------------
(***************************************************************************)
(* A process with a thread, a second one with other files at the same      *)
(* addresses, a kernel thread whose number starts with 9, and a process    *)
(* behind it; StackAll has room for three of the tasks. A label without a  *)
(* size lies inside a function.                                            *)
(***************************************************************************)
EXTENDS Backtrace, TLC

Sym(name, addr, size) == [name |-> name, addr |-> addr, size |-> size, defined |-> TRUE]
Undefined == [name |-> "", addr |-> 0, size |-> 0, defined |-> FALSE]

File(so, elf, wide, dynsym, symtab) ==
  [so |-> so, elf |-> elf, wide |-> wide, dynsym |-> dynsym, symtab |-> symtab]

MCObject ==
  [lib   |-> File(TRUE, TRUE, FALSE,
                  <<Undefined, Sym("g", 2, 1), Sym("f", 1, 1)>>,
                  <<Undefined, Sym("f_alias", 1, 1), Sym("zero", 0, 1)>>),
   app   |-> File(FALSE, TRUE, FALSE,
                  <<Sym("label", 6, 0)>>, <<Undefined, Sym("main", 5, 2)>>),
   lib64 |-> File(TRUE, TRUE, TRUE, <<Undefined, Sym("h", 1, 2)>>, << >>),
   jit   |-> File(FALSE, FALSE, FALSE, << >>, << >>)]

Mapped(lo, hi, f, words) == [lo |-> lo, hi |-> hi, file |-> f, exec |-> TRUE, words |-> words]
DataLine(lo, hi, f) == [lo |-> lo, hi |-> hi, file |-> f, exec |-> FALSE, words |-> 4]

MCPids    == {1, 2, 4, 6}
MCNines   == {4}
MCThreads == [p \in MCPids |-> CASE p = 1 -> {3} [] p = 2 -> {5} [] OTHER -> {}]
MCMapsOf  ==
  [p \in MCPids |->
     CASE p = 1 -> <<Mapped(1, 4, "lib", 4), DataLine(4, 5, "lib"), Mapped(5, 7, "app", 4),
                     Mapped(7, 8, "jit", 4), Mapped(8, 9, "lib", 5)>>
       [] p = 2 -> <<Mapped(1, 4, "lib64", 4), Mapped(4, 7, "lib", 4)>>
       [] p = 4 -> << >>
       [] p = 6 -> <<Mapped(5, 7, "app", 4)>>]

User(pcs) == [user |-> TRUE, pcs |-> pcs]
NoUser == [user |-> FALSE, pcs |-> << >>]
MCStacksOf ==
  (1 :> {User(<<2, 5>>), User(<<6, 7, 3>>)}) @@ (2 :> {User(<<2, 5>>)})
    @@ (3 :> {NoUser, User(<<3, 9, 1, 2>>)}) @@ (4 :> {NoUser})
    @@ (5 :> {User(<<3, 7>>)}) @@ (6 :> {User(<<6>>)})
=============================================================================
