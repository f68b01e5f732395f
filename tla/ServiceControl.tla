---------------------------- MODULE ServiceControl ----------------------------
(***************************************************************************)
(* The service commands of the desktop app (install_service,               *)
(* uninstall_service, start_service and stop_service of src-tauri/src/     *)
(* lib.rs) over the service control manager.  The app runs un-elevated as  *)
(* a rule: what it may not do itself it puts into a script and starts that *)
(* elevated, behind a prompt the user answers whenever he likes.  A wait   *)
(* has a deadline; giving up does not stop a script that already runs.     *)
(*                                                                         *)
(* The service control manager and the prompt are external, modelled from  *)
(* how the code uses sc.exe and Start-Process.                             *)
(***************************************************************************)
EXTENDS FiniteSets, Naturals

CONSTANTS
  Apps,       \* instances of the app; nothing prevents a second one
  Admins,     \* instances that were started elevated
  Idle        \* an app runs no command

ServiceOps == {"install", "uninstall", "start", "stop"}

ASSUME ServiceAssumption ==
  /\ Admins \subseteq Apps /\ Idle \notin Apps

VARIABLES
  scm,       \* the service as the control manager has it
  flag,      \* service_installed.flag exists
  unmarked,  \* the last update of the flag failed
  command,   \* app -> the command on its main thread
  scripts,   \* elevated scripts that were asked for and have not ended
  gave_up,   \* install or uninstall has reported failure
  overtaken  \* the service came or went between an app's look at it and the
             \* update of the flag

marker == <<flag, unmarked>>

scVars == <<scm, marker, command, scripts, gave_up, overtaken>>

Missing == [state |-> "missing", deleting |-> FALSE]

Alive(s) == s.state \in {"running", "stopping"}

ServiceTypeOK ==
  /\ scm = Missing
       \/ scm \in [state : {"stopped", "running", "stopping"}, deleting : BOOLEAN]
  /\ scm.state = "stopped" => ~scm.deleting
  /\ {flag, unmarked, gave_up, overtaken} \subseteq BOOLEAN
  /\ \A a \in Apps : command[a] # Idle =>
       command[a].at = "waiting" <=>
         \E s \in scripts : s.app = a

-----------------------------------------------------------------------------
(* The service control manager *)

\* sc.exe op succeeds, and what it leaves.
ScOk(op) ==
  \/ op = "create" /\ scm = Missing
  \/ op = "config" /\ scm # Missing /\ ~scm.deleting
  \/ op = "start"  /\ scm.state = "stopped"
  \/ op = "stop"   /\ scm.state = "running"
  \/ op = "delete" /\ scm # Missing /\ ~scm.deleting

ScAfter(op) ==
  [create |-> [state |-> "stopped", deleting |-> FALSE],
   config |-> scm,
   start  |-> [scm EXCEPT !.state = "running"],
   stop   |-> [scm EXCEPT !.state = "stopping"],
   \* a service that runs is only marked for deletion
   delete |-> IF Alive(scm) THEN [scm EXCEPT !.deleting = TRUE] ELSE Missing
  ][op]

\* The service process ends, because it was told to or on its own.
ServiceEnds ==
  /\ Alive(scm)
  /\ scm' = IF scm.deleting THEN Missing ELSE [scm EXCEPT !.state = "stopped"]
  /\ UNCHANGED <<marker, command, scripts, gave_up>>

-----------------------------------------------------------------------------
(* Commands *)

At(a, op, at) ==
  command[a] # Idle /\ command[a].op = op /\ command[a].at \in at

Goto(a, at) == command' = [command EXCEPT ![a].at = at]

Finish(a) == command' = [command EXCEPT ![a] = Idle]

\* run_elevated_sc and run_elevated_helper: the script is written, and
\* powershell asks the user.
Ask(a, op) ==
  /\ scripts' = scripts \cup
       {[op |-> op, app |-> a, pid |-> command[a].pid, phase |-> "asked"]}
  /\ Goto(a, "waiting")

\* A script ends.  The app hears of it unless it has given up (app is Idle).
Ends(s, result) ==
  /\ scripts' = scripts \ {s}
  /\ IF s.app = Idle THEN UNCHANGED command ELSE Goto(s.app, result)

\* The user lets a script run, whose file must still be there, or declines:
\* then powershell, which has no process to ask for an exit code, ends with 0.
UserAnswers(s) ==
  /\ s.phase = "asked"
  /\ \/ /\ scripts' = (scripts \ {s}) \cup {[s EXCEPT !.phase = "running"]}
        /\ UNCHANGED command
     \/ /\ scripts' = scripts \ {s}
        /\ IF s.app = Idle THEN UNCHANGED command
           ELSE command' = [command EXCEPT ![s.app].made = "declined",
                                           ![s.app].at   = "done"]
  /\ UNCHANGED <<scm, marker, gave_up>>

\* One sc.exe call of a script.  That of an installation creates or
\* reconfigures the service first, and goes on to start it.
RunScript(s) ==
  LET op == IF s.op # "install" THEN s.op
            ELSE IF scm = Missing THEN "create" ELSE "config"
  IN  /\ s.phase = "running"
      /\ \/ /\ ScOk(op)
            /\ scm' = ScAfter(op)
            /\ IF s.op = "install"
               THEN /\ scripts' = (scripts \ {s}) \cup {[s EXCEPT !.op = "start"]}
                    /\ UNCHANGED command
               ELSE Ends(s, "done")
         \/ ~ScOk(op) /\ UNCHANGED scm /\ Ends(s, "refused")
      /\ UNCHANGED <<marker, gave_up>>

\* run_command_with_deadline gives up on a script: the file of one that does
\* not run yet is removed, but for that of an installation.
TimeOut(a) ==
  /\ command[a] # Idle /\ command[a].at = "waiting"
  /\ \E s \in scripts :
       /\ s.app = a
       /\ scripts' = (scripts \ {s}) \cup
            {t \in {[s EXCEPT !.app = Idle]} :
               s.phase = "running" \/ s.op = "install"}
       /\ Goto(a, "timed out")
  /\ UNCHANGED <<scm, marker, gave_up>>

\* query_service_status, with which every command but install begins.
Query(a) ==
  /\ \E op \in {"uninstall", "start", "stop"} : At(a, op, {"begun"})
  /\ IF scm # Missing THEN Goto(a, "queried")
     ELSE IF command[a].op = "uninstall" THEN Goto(a, "gone") ELSE Finish(a)
  /\ UNCHANGED <<scm, marker, scripts, gave_up>>

\* An sc.exe call of the app itself: refused, unless the app is elevated or
\* the service is gone.
Direct(a, op) ==
  IF a \in Admins /\ ScOk(op)
  THEN scm' = ScAfter(op) /\ Goto(a, "done") /\ UNCHANGED scripts
  ELSE IF a \in Admins \/ scm = Missing
       THEN Goto(a, "refused") /\ UNCHANGED <<scm, scripts>>
       ELSE Ask(a, op) /\ UNCHANGED scm

\* start_service and stop_service
StartOrStop(a) ==
  /\ \E op \in {"start", "stop"} : At(a, op, {"queried"}) /\ Direct(a, op)
  /\ UNCHANGED <<marker, gave_up>>

AfterTry == [queried |-> "once", once |-> "twice", twice |-> "stopped"]

\* uninstall_service asks the service three times to stop, without elevation
\* and without looking at the answer ...
UninstallStop(a) ==
  /\ At(a, "uninstall", DOMAIN AfterTry)
  /\ scm' = IF a \in Admins /\ ScOk("stop") THEN ScAfter("stop") ELSE scm
  /\ Goto(a, AfterTry[command[a].at])
  /\ UNCHANGED <<marker, scripts, gave_up>>

\* ... deletes it ...
UninstallDelete(a) ==
  /\ At(a, "uninstall", {"stopped"})
  /\ IF scm = Missing
     THEN Goto(a, "gone") /\ UNCHANGED <<scm, scripts>>
     ELSE Direct(a, "delete")
  /\ UNCHANGED <<marker, gave_up>>

UninstallVerifyMut(a) ==
  /\ At(a, "uninstall", {"done"})
  /\ Goto(a, "gone")
  /\ UNCHANGED <<scm, marker, scripts, gave_up>>

\* ... and looks whether it has gone.
UninstallVerify(a) ==
  /\ At(a, "uninstall", {"done"})
  /\ IF scm = Missing THEN Goto(a, "gone") /\ UNCHANGED gave_up
     ELSE Finish(a) /\ gave_up' = TRUE
  /\ UNCHANGED <<scm, marker, scripts>>

\* install_service
Install(a) ==
  /\ At(a, "install", {"begun"})
  /\ Ask(a, "install")
  /\ UNCHANGED <<scm, marker, gave_up>>

InstallVerify(a) ==
  /\ At(a, "install", {"done"})
  /\ IF scm # Missing THEN Goto(a, "present") /\ UNCHANGED gave_up
     ELSE Finish(a) /\ gave_up' = TRUE
  /\ UNCHANGED <<scm, marker, scripts>>

\* set_service_flag: a failure is printed, and the command reports success.
\* The removal of a flag that is not there counts as none.
SetServiceFlag(installed) ==
  \/ flag' = installed /\ unmarked' = FALSE
  \/ flag # installed /\ UNCHANGED flag /\ unmarked' = TRUE

\* What install and uninstall have seen of the service is recorded.
Mark(a) ==
  /\ \/ At(a, "install", {"present"}) /\ SetServiceFlag(TRUE)
     \/ At(a, "uninstall", {"gone"}) /\ SetServiceFlag(FALSE)
  /\ Finish(a)
  /\ UNCHANGED <<scm, scripts, gave_up>>

\* The other commands end with what sc.exe said.  An uninstall whose elevated
\* deletion was not seen to succeed reports failure.
EndServiceOp(a) ==
  /\ \/ \E op \in {"start", "stop"} : At(a, op, {"done", "refused", "timed out"})
     \/ \E op \in {"install", "uninstall"} : At(a, op, {"refused", "timed out"})
  /\ gave_up' = (gave_up \/ command[a].op \in {"install", "uninstall"})
  /\ Finish(a)
  /\ UNCHANGED <<scm, marker, scripts>>

ServiceInit ==
  /\ scm \in {Missing, [state |-> "running", deleting |-> FALSE]}
  /\ flag = (scm # Missing) /\ unmarked = FALSE
  /\ command = [a \in Apps |-> Idle]
  /\ scripts = {} /\ gave_up = FALSE /\ overtaken = FALSE

\* A command goes on, or a script does.
ServiceOp(a) ==
  \/ Query(a) \/ StartOrStop(a) \/ UninstallStop(a) \/ UninstallDelete(a)
  \/ UninstallVerify(a) \/ Install(a) \/ InstallVerify(a) \/ Mark(a)
  \/ EndServiceOp(a)

ServiceScript(s) == s.op # "change" /\ RunScript(s)

\* With every step of the service: whether an app that has looked, and has not
\* updated the flag yet, is overtaken.
Overtake ==
  overtaken' =
    \/ overtaken
    \/ /\ (scm = Missing) # (scm' = Missing)
       /\ \E a \in Apps : command[a] # Idle /\ command[a].at \in {"present", "gone"}
-----------------------------------------------------------------------------
Quiet == scripts = {} /\ \A a \in Apps : command[a] = Idle

\* The marker the installer reads is right: it says whether the service is
\* installed unless its last update failed, and then it says the opposite.
\* With several apps, prompts that are declined or answered late and a service
\* that takes its time, but only as long as no install or uninstall has
\* reported a failure and nobody was overtaken.
FlagAgrees ==
  Quiet /\ ~gave_up /\ ~overtaken => ((flag <=> scm # Missing) <=> ~unmarked)

\* The only consequence of an update that fails is a service that an upgrade
\* does not put back (what the comment on set_service_flag says; an upgrade
\* also puts back a service whose removal could not be recorded).
OnlyNotRestored ==
  Quiet /\ ~gave_up /\ ~overtaken => (flag => scm # Missing)

\* A service the user wanted gone is forgotten when it is.  (This is what the
\* comment in uninstall_service says; the code does not keep it.)
ForgottenWhenGone == Quiet /\ scm = Missing /\ ~unmarked => ~flag
=============================================================================
