----------------------------- MODULE Backtrace -----------------------------
(***************************************************************************)
(* backtrace/backtrace.c and generate_tomb_file.c: the stacks of all the   *)
(* processes, with names for their addresses.                              *)
(*                                                                         *)
(* parse_stack -a and -p read the stacks of all tasks first (StackAll) and *)
(* then, task by task, its name and the maps of its process.  When an      *)
(* application hangs, its maps and stacks, and those of everyone else, are *)
(* written to a file; crashlogd copies it and puts the names in, in one    *)
(* pass over its lines.  parse_stack -f does it for one process.           *)
(*                                                                         *)
(* Processes and threads end at any time.  A line of output says whose     *)
(* stack it belongs to, though only its place in the output tells.         *)
(***************************************************************************)
EXTENDS Symbols, Functions

CONSTANTS
  Pids,        \* processes, numbers in the order of /proc
  Nines,       \* those whose number starts with 9
  Threads,     \* for each process, its threads other than the main one
  MapsOf,      \* for each process, the lines of its maps
  StacksOf,    \* for each task, the stacks that it can have
  TaskNum,     \* TASK_NUM, symbols.h: entries of StackAll
  MaxStack,    \* MAX_STACK_LENGTH, symbols.h: addresses kept by read_single_stack
  StackDepth,  \* STACK_DEPTH, symbols.h: addresses taken from a file, less 1
  MaxExits     \* bound of the model: tasks that end

Tasks == Pids \cup UNION {Threads[p] : p \in Pids}
Process(t) == IF t \in Pids THEN t ELSE CHOOSE p \in Pids : t \in Threads[p]

\* The kernel prints its own part of a stack, and a part "userspace" unless there is none.
ASSUME StacksAssumption ==
  \A t \in Tasks : StacksOf[t] \subseteq [user : BOOLEAN, pcs : Seq(Nat)]

\* What parse_stack is asked for, and the file of an application that hangs.
Requests == [ask : {"all", "trace"}] \cup [ask : {"one", "anr"}, pid : Pids]

ASSUME TasksAssumption ==
  /\ Pids \subseteq Nat \ {0} /\ Nines \subseteq Pids
  /\ \A p \in Pids : Threads[p] \subseteq Nat \ ({0} \cup Pids)
  /\ \A p, q \in Pids : p # q => Threads[p] \cap Threads[q] = {}
ASSUME MapsAssumption ==
  \A p \in Pids :
    MapsOf[p] \in Seq([lo : Nat, hi : Nat, file : Files, exec : BOOLEAN, words : Nat])
ASSUME LimitsAssumption ==
  TaskNum \in Nat \ {0} /\ MaxStack \in Nat /\ StackDepth \in Nat \ {0} /\ MaxExits \in Nat

VARIABLES
  stack,    \* the stack of each task
  table,    \* the sorted table of each file
  request,  \* what the tool does
  alive,    \* the tasks that exist
  exits,    \* how many have ended
  phase,    \* where the tool is
  pid,      \* the last directory of /proc that was read
  tid,      \* the last directory of its tasks that was read
  all,      \* StackAll: whose stack, and its user addresses
  index,    \* index of parse_all
  file,     \* the lines of the trace
  pos,      \* lines of it that were read
  milist,   \* milist
  pending,  \* userstack: the lines of the stack that is being read
  title,    \* title
  out       \* what is printed, or the lines of the _symbol file

given  == <<stack, table, request>>
system == <<alive, exits>>
live   == <<all, index>>
trace  == <<file, pos, pending, title>>
stackVars == <<given, system, phase, pid, tid, live, trace, milist, out>>

\* A line, and whose stack it is about.
Line(kind, t) == [kind |-> kind, of |-> t]
PcLine(t, pc) == [kind |-> "pc", of |-> t, pc |-> pc]
MapLine(p, l) == [kind |-> "map", of |-> p, line |-> l]

\* The lines of a user stack with names in them, for the lines ls of its addresses.
Named(ts, list, ls, wide) ==
  [i \in DOMAIN ls |->
     LET u == Unwound(ts, list, ls, wide, i)
     IN  [kind |-> "frame", of |-> ls[i].of, pc |-> u.pc, rel |-> u.rel, file |-> u.file,
          sym |-> u.sym]]

\* The addresses of the user part.
UserPcs(t)  == IF stack[t].user THEN stack[t].pcs ELSE << >>
PcLines(t, pcs) == [i \in DOMAIN pcs |-> PcLine(t, pcs[i])]

FirstOf(s, n) == SubSeq(s, 1, IF Len(s) < n THEN Len(s) ELSE n)

\* The next directory, in the order of /proc.
Least(S) == CHOOSE n \in S : \A m \in S : n <= m
-----------------------------------------------------------------------------
(* The system.                                                             *)

\* A thread ends, or a process with all its threads.
Exit ==
  /\ exits < MaxExits
  /\ phase \notin {"find_maps", "maps_lines", "find_stack", "kernel", "user", "anr", "anr_stack",
                  "done"}
  /\ \E t \in alive :
       alive' = alive \ (IF t \in Pids THEN {t} \cup Threads[t] ELSE {t})
  /\ exits' = exits + 1
  /\ UNCHANGED <<given, phase, pid, tid, live, trace, milist, out>>
-----------------------------------------------------------------------------
(* The running system: read_all_stack, backtrace_single_process, parse_all.*)

\* read_all_stack reads "from 0 to 9" without 9; the pid on the command line is read as it is.
Wanted == IF request.ask = "all" THEN Pids \ Nines ELSE {request.pid}

\* An entry of StackAll.
Entry(t) == [of |-> t, pcs |-> PcLines(t, FirstOf(UserPcs(t), MaxStack))]

\* The last entry stays empty.
RoomEarly == Len(all) < TaskNum - 1

\* read_single_stack adds an entry, or fails because StackAll is full.
Room == Len(all) < TaskNum
Record(t) == all' = IF Room THEN Append(all, Entry(t)) ELSE all

\* The next process: its main thread. Without an entry its threads are not looked at.
ReadProcess ==
  /\ phase = "processes"
  /\ LET next == {p \in Wanted \cap alive : p > pid}
     IN  IF next = {} THEN phase' = "names" /\ UNCHANGED <<all, pid, tid>>
         ELSE /\ pid' = Least(next) /\ tid' = 0
              /\ Record(pid')
              /\ phase' = IF Room THEN "threads" ELSE phase
  /\ UNCHANGED <<given, system, index, trace, milist, out>>

\* dump_sibling_thread_stack: its next thread.
ReadThread ==
  /\ phase = "threads"
  /\ LET next == {t \in Threads[pid] \cap alive : t > tid}
     IN  IF next = {} THEN phase' = "processes" /\ UNCHANGED <<all, tid>>
         ELSE tid' = Least(next) /\ Record(tid') /\ UNCHANGED phase
  /\ UNCHANGED <<given, system, pid, index, trace, milist, out>>

Subject == all[index].of

\* The loop goes on without the next entry.
PassOverStays ==
  /\ phase = "names" /\ index <= Len(all) /\ Subject \notin alive
  /\ UNCHANGED stackVars

\* parse_all: a task that has ended.
PassOver ==
  /\ phase = "names" /\ index <= Len(all) /\ Subject \notin alive
  /\ index' = index + 1
  /\ UNCHANGED <<given, system, phase, pid, tid, all, trace, milist, out>>

\* parse_all: the name of the task and its kernel stack, or the end of the entries.
ReadName ==
  /\ phase = "names"
  /\ \/ /\ index > Len(all)
        /\ phase' = "done" /\ milist' = << >> /\ UNCHANGED out
     \/ /\ index <= Len(all) /\ Subject \in alive
        /\ out' = Append(out, Line("kernel", Subject))
        /\ phase' = IF Subject \in Pids THEN "maps" ELSE "unwind"
        /\ UNCHANGED milist
  /\ UNCHANGED <<given, system, pid, tid, live, trace>>

\* The list of the process before grows instead of being freed.
ReadMapsKept ==
  /\ phase = "maps"
  /\ milist' = (IF Subject \in alive THEN ParseElf(MapList(MapsOf[Subject]), Parser) ELSE << >>)
                 \o milist
  /\ IF milist' = << >> THEN index' = index + 1 /\ phase' = "names"
     ELSE phase' = "unwind" /\ UNCHANGED index
  /\ UNCHANGED <<given, system, pid, tid, all, trace, out>>

\* parse_all: the maps of the process, for its threads as well.
ReadMaps ==
  /\ phase = "maps"
  /\ milist' = IF Subject \in alive THEN ParseElf(MapList(MapsOf[Subject]), Parser) ELSE << >>
  /\ IF milist' = << >> THEN index' = index + 1 /\ phase' = "names"
     ELSE phase' = "unwind" /\ UNCHANGED index
  /\ UNCHANGED <<given, system, pid, tid, all, trace, out>>

\* parse_all: the user stack.
PrintStack ==
  /\ phase = "unwind"
  /\ out' = out \o Named(table, milist,
                         FirstOf(all[index].pcs, StackDepth), Wide)
  /\ index' = index + 1 /\ phase' = "names"
  /\ UNCHANGED <<given, system, pid, tid, all, trace, milist>>
-----------------------------------------------------------------------------
(* The trace of an application that hangs: read_all_process_info.          *)

\* The lines of maps and of a stack in the file.
MapLines(p) ==
  <<Line("maps_start", p)>>
    \o [i \in DOMAIN MapsOf[p] |-> MapLine(p, MapsOf[p][i])]
    \o <<Line("maps_end", p)>>
StackLines(t) ==
  <<Line("stack_start", t), Line("kernel", t)>>
    \o (IF stack[t].user THEN <<Line("userspace", t)>> ELSE << >>)
    \o PcLines(t, UserPcs(t))
    \o <<Line("stack_end", t)>>
EmptyStack(t) == <<Line("stack_start", t), Line("stack_end", t)>>

\* read_process_info, for the next process.
WriteProcess ==
  /\ phase = "write_processes"
  /\ LET next == {p \in Pids \cap alive : p > pid}
     IN  IF next = {} THEN phase' = "find_pid" /\ UNCHANGED <<file, pid>>
         ELSE /\ pid' = Least(next)
              /\ file' = Append(file, Line("pid_start", pid'))
              /\ phase' = "write_maps"
  /\ UNCHANGED <<given, system, tid, live, pos, pending, title, milist, out>>

\* read_process_maps
WriteMaps ==
  /\ phase = "write_maps"
  /\ file' = IF pid \in alive THEN file \o MapLines(pid) ELSE file
  /\ phase' = "write_stack"
  /\ UNCHANGED <<given, system, pid, tid, live, pos, pending, title, milist, out>>

\* A stack of the file; the task may end between open and read.
StackOrEnd(t) ==
  \/ file' = file \o StackLines(t) /\ UNCHANGED system
  \/ /\ exits < MaxExits /\ exits' = exits + 1
     /\ file' = file \o EmptyStack(t)
     /\ alive' = alive \ (IF t \in Pids THEN {t} \cup Threads[t] ELSE {t})

\* read_process_stack: the main thread.
WriteStack ==
  /\ phase = "write_stack"
  /\ IF pid \in alive THEN StackOrEnd(pid) ELSE UNCHANGED <<file, system>>
  /\ tid' = 0 /\ phase' = "write_threads"
  /\ UNCHANGED <<given, pid, live, pos, pending, title, milist, out>>

\* read_thread_stack, for the next thread; the end of the process.
WriteThread ==
  /\ phase = "write_threads"
  /\ LET next == {t \in Threads[pid] \cap alive : t > tid}
     IN  IF next = {}
         THEN /\ file' = Append(file, Line("pid_end", pid))
              /\ phase' = "write_processes" /\ UNCHANGED <<tid, system>>
         ELSE tid' = Least(next) /\ StackOrEnd(tid') /\ UNCHANGED phase
  /\ UNCHANGED <<given, pid, live, pos, pending, title, milist, out>>
-----------------------------------------------------------------------------
(* The names put in the trace: backtrace_parse_tombstone_file, line by line.*)

Reading == {"find_pid", "find_maps", "maps_lines", "find_stack", "kernel", "user"}
Now     == file[pos + 1]

\* fgets gives the next line to the loop the function is in.
Next1(in) == phase = in /\ pos < Len(file) /\ pos' = pos + 1
Copy      == out' = Append(out, Now)

\* The outer loop copies what is before the first process.
FindPid ==
  /\ Next1("find_pid") /\ Copy
  /\ phase' = IF Now.kind = "pid_start" THEN "find_maps" ELSE phase
  /\ UNCHANGED <<given, system, pid, tid, live, file, pending, title, milist>>

\* All lines up to the maps, those of other processes too.
FindMaps ==
  /\ Next1("find_maps")
  /\ IF Now.kind = "maps_start" THEN phase' = "maps_lines" /\ UNCHANGED out
     ELSE Copy /\ UNCHANGED phase
  /\ UNCHANGED <<given, system, pid, tid, live, file, pending, title, milist>>

MapsLine ==
  /\ Next1("maps_lines")
  /\ IF Now.kind = "maps_end"
     THEN milist' = ParseElf(milist, 32) /\ phase' = "find_stack"
     ELSE milist' = AddLine(milist, Now.line) /\ UNCHANGED phase
  /\ UNCHANGED <<given, system, pid, tid, live, file, pending, title, out>>

\* The maps of the process before stay in the list.
FindStackKept ==
  /\ Next1("find_stack") /\ Copy
  /\ phase' = CASE Now.kind = "stack_start" -> "kernel"
                [] Now.kind = "pid_end"     -> "find_pid"
                [] OTHER                    -> phase
  /\ UNCHANGED <<given, system, pid, tid, live, file, pending, title, milist>>

\* Up to the next stack, or to the end of the process, where its maps are freed.
FindStack ==
  /\ Next1("find_stack") /\ Copy
  /\ phase' = CASE Now.kind = "stack_start" -> "kernel"
                [] Now.kind = "pid_end"     -> "find_pid"
                [] OTHER                    -> phase
  /\ milist' = IF Now.kind = "pid_end" THEN << >> ELSE milist
  /\ UNCHANGED <<given, system, pid, tid, live, file, pending, title>>

\* All lines up to a user stack, also behind the end of this one.
Kernel ==
  /\ Next1("kernel")
  /\ IF Now.kind = "userspace" THEN phase' = "user" /\ UNCHANGED out
     ELSE Copy /\ UNCHANGED phase
  /\ UNCHANGED <<given, system, pid, tid, live, file, pending, title, milist>>

\* The loop ends one address before the stack would be too long.
FullEarly(ls) == Len(ls) > StackDepth - 3
Full(ls) == Len(ls) > StackDepth - 2

\* A user stack: the limit is looked at before the end of the stack, and then the line
\* is lost and the title is that of an earlier stack.
UserLine ==
  /\ Next1("user")
  /\ LET full == Full(pending)
         ends == Now.kind = "stack_end"
     IN  IF ~full /\ ~ends
         THEN pending' = Append(pending, Now) /\ UNCHANGED <<phase, title, out>>
         ELSE /\ title' = IF full THEN title ELSE <<Now>>
              /\ out' = out \o Named(table, milist, pending, FALSE) \o title'
              /\ pending' = << >> /\ phase' = "find_stack"
  /\ UNCHANGED <<given, system, pid, tid, live, file, milist>>

EndOfFile ==
  /\ phase \in Reading /\ pos = Len(file)
  /\ phase' = "done" /\ milist' = << >>
  /\ UNCHANGED <<given, system, pid, tid, live, trace, out>>
-----------------------------------------------------------------------------
(* The file of one process: backtrace_parse_anr_file.                      *)

\* Its kernel stack and its maps.
ParseAnrMaps ==
  /\ phase = "anr"
  /\ out' = <<Line("kernel", request.pid)>>
  /\ milist' = ParseElf(MapList(MapsOf[request.pid]), Parser)
  /\ phase' = "anr_stack"
  /\ UNCHANGED <<given, system, pid, tid, live, trace>>

\* Its user stack, of which unwind_backtrace_with_stack_file takes STACK_DEPTH - 1 addresses.
ParseAnrStack ==
  /\ phase = "anr_stack"
  /\ LET pcs == FirstOf(UserPcs(request.pid), StackDepth - 1)
     IN  out' = out \o Named(table, milist, PcLines(request.pid, pcs), FALSE)
  /\ phase' = "done"
  /\ UNCHANGED <<given, system, pid, tid, live, trace, milist>>
-----------------------------------------------------------------------------
StackInit ==
  /\ stack \in {s \in [Tasks -> UNION {StacksOf[t] : t \in Tasks}] :
                  \A t \in Tasks : s[t] \in StacksOf[t]}
  /\ table \in {ts \in [Files -> UNION {Tables(f) : f \in Files}] :
                  \A f \in Files : ts[f] \in Tables(f)}
  /\ request \in Requests
  /\ alive = Tasks /\ exits = 0
  /\ phase = CASE request.ask \in {"all", "one"} -> "processes"
               [] request.ask = "trace"          -> "write_processes"
               [] request.ask = "anr"            -> "anr"
  /\ pid = 0 /\ tid = 0 /\ all = << >> /\ index = 1
  /\ file = << >> /\ pos = 0 /\ pending = << >> /\ title = << >>
  /\ milist = << >> /\ out = << >>

Step ==
  \/ ReadProcess \/ ReadThread \/ PassOver \/ ReadName \/ ReadMaps \/ PrintStack
  \/ WriteProcess \/ WriteMaps \/ WriteStack \/ WriteThread
  \/ FindPid \/ FindMaps \/ MapsLine \/ FindStack \/ Kernel \/ UserLine \/ EndOfFile
  \/ ParseAnrMaps \/ ParseAnrStack

StackNext == Step \/ Exit

\* The tools do not wait for anything.
StackSpec == StackInit /\ [][StackNext]_stackVars /\ WF_stackVars(Step)
-----------------------------------------------------------------------------
(* Properties.                                                             *)

Frames == {i \in DOMAIN out : out[i].kind = "frame"}

\* The mapping of the task's own process that has the address.
OwnMap(t, pc) == PcToMapsinfo(MapList(MapsOf[Process(t)]), pc)

\* Of the stacks that end before line j of the trace the last one has a user part.
UserBefore(j) ==
  \A i \in 1 .. j - 1 :
    file[i].kind = "stack_end" /\ (\A k \in i + 1 .. j - 1 : file[k].kind # "stack_end") =>
      file[i - 1].kind \in {"pc", "userspace"}

\* So it is where the process p begins.
Clear(p) ==
  \A j \in DOMAIN file :
    file[j].kind = "pid_start" /\ Process(file[j].of) = p => UserBefore(j)

\* Whatever ends between two reads, an address is looked up in the maps of its own process;
\* in the trace, unless the last stack before the process has no user part: the search for
\* "userspace", which does not stop at the end of that stack, then runs into the process.
OwnMaps ==
  \A i \in Frames :
    Clear(Process(out[i].of)) => out[i].file = OwnMap(out[i].of, out[i].pc).file

\* The symbols that contain the address, in a table where none lies over another.
Containing(ts, rel) == {s \in Range(ts) : s.addr <= rel /\ rel < s.addr + s.size}
Separate(ts) ==
  \A i, j \in DOMAIN ts : i < j => ts[i].addr + ts[i].size <= ts[j].addr
                                     \/ (ts[i].addr = ts[j].addr /\ ts[i].size = ts[j].size)

\* An address of a file with symbols gets one that contains it, and gets one if there is one
\* and no two symbols overlap: "A pointer to the Symbol structure corresponding to the symbol
\* which contains this address, or NULL if no symbol contains it" (symbols.c).
NameContains ==
  \A i \in Frames :
    LET o  == out[i]
        in == Containing(table[o.file], o.rel)
    IN  o.file # "none" /\ ReadsTable(o.file, IF request.ask = "trace" THEN 32 ELSE Parser) =>
          /\ o.sym # NoSymbol => \E s \in in : s.name = o.sym.name
          /\ in # {} /\ Separate(table[o.file]) /\ o.rel # 0 => o.sym # NoSymbol

\* The tasks that the tool is asked for.
Asked(t) ==
  CASE request.ask = "all" -> Process(t) \notin Nines
    [] request.ask = "one" -> Process(t) = request.pid
    [] request.ask = "anr" -> t = request.pid
    [] OTHER               -> TRUE

\* The lines of a task with an address, and those of another kind.
Addresses(t)   == {i \in DOMAIN out : out[i].of = t /\ out[i].kind \in {"frame", "pc"}}
Lines(t, kind) == {i \in DOMAIN out : out[i].of = t /\ out[i].kind = kind}

\* The addresses of a task are pcs, one after the other.
PrintedAs(t, pcs) ==
  \E k \in 0 .. Len(out) :
    /\ Addresses(t) = {k + i : i \in DOMAIN pcs}
    /\ \A i \in DOMAIN pcs : out[k + i].pc = pcs[i]

\* A task without an entry in StackAll, which is full, and without a line.
LeftOut(t) ==
  /\ Len(all) = TaskNum /\ \A k \in DOMAIN all : all[k].of # t
  /\ \A i \in DOMAIN out : out[i].of # t

\* The lines of a task when the tool is done: it is in the output once, with each address of
\* its stack in order, up to MAX_STACK_LENGTH, and in the trace with its end; but a task with
\* no executable file has no user stack on the console, and a stack of the trace with more
\* than STACK_DEPTH - 2 addresses is cut and ends like another one.
Reported(t) ==
  LET mapped == MapList(MapsOf[Process(t)]) # << >>
      limit  == IF request.ask \in {"all", "one"} THEN MaxStack ELSE StackDepth
  IN  /\ Cardinality(Lines(t, "kernel")) = 1
      /\ Len(UserPcs(t)) <= StackDepth - 2 =>
           /\ mapped \/ request.ask \in {"anr", "trace"} =>
                PrintedAs(t, FirstOf(UserPcs(t), limit))
           /\ request.ask = "trace" /\ (\A u \in Tasks : Len(UserPcs(u)) <= StackDepth - 2) =>
                Cardinality(Lines(t, "stack_end")) = 1

\* When the tool is done, each task that it was asked for and that was there all the time is
\* reported, or has no entry because StackAll is full of TASK_NUM others; and no other task
\* has a line: with -a, none of a process whose number starts with 9.
AllReported ==
  phase = "done" =>
    /\ \A t \in alive : Asked(t) => Reported(t) \/ LeftOut(t)
    /\ \A i \in DOMAIN out : Asked(out[i].of)

\* Every tool comes to an end, whatever ends under it.
Ends == <>(phase = "done")

\* "See if we can determine what symbol this stack frame resides in" (symbols.c): a name
\* printed with an address is that of a symbol that contains it.
FrameInSymbol ==
  \A i \in Frames :
    out[i].sym # NoSymbol =>
      out[i].sym.addr <= out[i].rel /\ out[i].rel < out[i].sym.addr + out[i].sym.size
=============================================================================
