------------------------------ MODULE MCBoot ------------------------------
(***************************************************************************)
(* Two instances of Boot in one: single traces with everything that can    *)
(* interrupt a start, and sets of panics and fabric errors with nothing    *)
(* that interrupts it.                                                     *)
(***************************************************************************)
EXTENDS Boot

MCTraces ==
  {Trace("fabric", "error"), Trace("console", "plain"), Trace("header", "plain"),
   Trace("kdump", "finished"), Trace("kdump", "entered"), Trace("shutdown", "file"),
   Trace("recovery", "file"), Trace("fw", "failed"), Trace("fw", "unreadable")}

MCPanics == {t \in AllTraces : t.at \in {"fabric", "console", "ram", "header"}}

\* One start for each class of reasons.
MCStarts ==
  {[by |-> "fdk", wakesrc |-> w] : w \in {1, 8, 9, 10, 21}}
  \cup {[by |-> "uefi", wake |-> w, reset |-> r] : w \in {0, 1}, r \in {4, 7}}

MCFewStarts ==
  {[by |-> "fdk", wakesrc |-> 1], [by |-> "uefi", wake |-> 0, reset |-> 7]}

MCAllTraces == MCTraces \cup MCPanics

\* A boot with at most one trace, which the daemon and the platform may interrupt.
OneTrace == found \subseteq MCTraces /\ Cardinality(found) <= 1 /\ start \in MCFewStarts

\* Any other first boot is undisturbed: every panic and fabric error together, every class
\* of reasons.
MCInit == Init /\ (OneTrace \/ (found \subseteq MCPanics /\ mode = "main"))

MCNext ==
  /\ Next
  /\ boots = 1 /\ ~OneTrace => boots' = 1 /\ stops' = 0 /\ faults' = 0
  /\ boots' > 1 => start' \in MCFewStarts

MCSpec == MCInit /\ [][MCNext]_vars /\ WF_vars(Step)
=============================================================================
