--------------------------- MODULE PriorityLeases ---------------------------
(***************************************************************************)
(* What ProBalance promises about the priorities it lowers, without saying *)
(* when it lowers them.  Lowering a process takes out a lease on its       *)
(* original priorities: a process has at most one lease, the originals of  *)
(* a lease never change, and a lease ends only by handing those very       *)
(* originals back to the caller, which writes them to the process.         *)
(***************************************************************************)
CONSTANTS Pids,        \* process identifiers
          Originals    \* priorities a process can have before it is lowered

VARIABLES held,        \* pid -> originals, for the leases in force
          owed         \* <<pid, originals>> handed back and not yet written

vars == <<held, owed>>

TypeOK ==
  /\ DOMAIN held \subseteq Pids
  /\ \A p \in DOMAIN held : held[p] \in Originals
  /\ owed \subseteq Pids \X Originals

Owing(p) == \E o \in Originals : <<p, o>> \in owed

Init == held = [p \in {} |-> 0] /\ owed = {}

\* Take out a lease: never on a process that has one, or is owed one.
Grant(p, o) ==
  /\ p \notin DOMAIN held
  /\ ~Owing(p)
  /\ held' = [q \in DOMAIN held \cup {p} |-> IF q = p THEN o ELSE held[q]]
  /\ owed' = owed

\* End the leases of S: their originals are owed to the processes.
Return(S) ==
  /\ S # {}
  /\ owed = {}
  /\ held' = [q \in DOMAIN held \ S |-> held[q]]
  /\ owed' = {<<p, held[p]>> : p \in S}

\* Write one returned original back to its process.
Settle(p, o) ==
  /\ <<p, o>> \in owed
  /\ owed' = owed \ {<<p, o>>}
  /\ held' = held

Next ==
  \/ \E p \in Pids, o \in Originals : Grant(p, o) \/ Settle(p, o)
  \/ \E S \in SUBSET DOMAIN held : Return(S)

Spec == Init /\ [][Next]_vars

-----------------------------------------------------------------------------
\* A process never has a lease in force and one waiting to be written back:
\* the two writes would race and the lowered value could win.
OneLease == \A p \in DOMAIN held : ~Owing(p)
=============================================================================
